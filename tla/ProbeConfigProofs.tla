-------------------------- MODULE ProbeConfigProofs ---------------------------
(***************************************************************************)
(* Proofs about what a probe keeps in its configuration: the sections it   *)
(* puts (ProbeConfig), for any number of gestures and of acts, then the    *)
(* profiles it shares with the hub (SharedProfiles).                       *)
(*                                                                         *)
(* Each put changes one section of what its writer read.  As long as every *)
(* put replaces what its writer had read, alone, the other sections of the *)
(* file stay as they are, and the memory is the file, but for the moment   *)
(* between the two halves of a put.  What remains is the section that is   *)
(* changed: the queue, which moves on while a put of it waits.             *)
(***************************************************************************)
EXTENDS ProbeConfig, SharedProfiles, FiniteSetTheorems, WellFoundedInduction, NaturalsInduction, TLAPS

ConfigType ==
  /\ memory \in Config /\ file \in Config /\ cache \in Config
  /\ events \in Seq(Config)
  /\ write \in [Thread -> Write \cup {None}]
  /\ queue \subseteq GestureId /\ answer \in Answer \cup {None} /\ current \in Nat
  /\ hubKey \in Nat \ {0} /\ staged \in BOOLEAN /\ left \in Nat
  /\ made \subseteq GestureId /\ acked \subseteq GestureId /\ settled \subseteq GestureId
  /\ ackedKey \in Nat /\ attached \in BOOLEAN /\ chosen \in Nat
  /\ returned \in Nat /\ invited \in BOOLEAN /\ taken \in Nat /\ disorder \in BOOLEAN

\* The threads put for reasons of their own.
Reasons(h) == CASE h = "main"   -> {"setting", "interface", "forget", "take"}
                [] h = "worker" -> {"gesture", "enroll", "enrolled"}
                [] h = "beat"   -> {"gesture", "acks", "save"}

\* A put changes one section of the configuration its writer read.
ChangesItsSection(w) ==
  /\ w.then \notin {"forget", "enrolled", "save"} => w.root.hub = w.read.hub
  /\ w.then \notin {"gesture", "acks"} => w.root.gestures = w.read.gestures
  /\ w.then # "interface" => w.root.interface = w.read.interface
  /\ w.then \notin {"enroll", "take"} => w.root.restored = w.read.restored
  /\ w.then = "forget" => w.root.hub = 0
  /\ w.then = "enrolled" => w.root.hub = 1
  /\ w.then = "save" => w.read.hub # 0 /\ w.root.hub > w.read.hub
  /\ w.then = "take" => w.read.restored /\ ~w.root.restored
  /\ w.then = "gesture" => w.noted \subseteq w.root.gestures
  /\ w.then # "gesture" => w.noted = {}
  /\ w.half = "failed" => w.then = "enroll"

PutsKeepTheRest ==
  \A h \in Thread : ~Free(h) => write[h].then \in Reasons(h) /\ ChangesItsSection(write[h])

\* An answer is to a heartbeat of a probe that is attached; what it
\* acknowledges has left the queue, and what is put of the queue.
AnswerHolds ==
  /\ settled \subseteq acked
  /\ answer # None => current # 0
  /\ answer # None /\ answer.at = "key" => answer.acks \subseteq acked /\ queue \cap answer.acks = {}
  /\ Doing("beat", "acks") =>
       /\ answer # None /\ answer.at = "key"
       /\ write["beat"].root.gestures \cap answer.acks = {}

\* The window asks for what was returned once it was attached, so that no
\* enrolment meets it; and an enrolment meets no heartbeat on its way.
Enrolling == Doing("worker", "enroll") \/ Doing("worker", "enrolled")
EnrolmentApart ==
  /\ Doing("main", "take") => invited
  /\ Enrolling => ~invited /\ (answer = None \/ answer.at # "sent")

-----------------------------------------------------------------------------
(* As long as puts come one after another.                                 *)

Half(h, half) == ~Free(h) /\ write[h].half = half

\* The memory is the file, but for the moment between the halves of a put.
MemoryIsFile ==
  /\ \A h, k \in Thread : Half(h, "memory") /\ Half(k, "memory") => h = k
  /\ \A h \in Thread : Half(h, "memory") => file = write[h].root /\ memory = write[h].read
  /\ (\A h \in Thread : ~Half(h, "memory")) => memory = file

\* A put of the queue holds the gestures made before it, and none that is settled.
QueuePut(h) == Half(h, "file") /\ write[h].then \in {"gesture", "acks"}
GesturesKept ==
  /\ made \subseteq file.gestures \cup acked /\ made \subseteq queue \cup acked
  /\ file.gestures \cap settled = {} /\ queue \cap settled = {}
  /\ \A h \in Thread : ~Free(h) => write[h].noted \subseteq queue \cup acked
  /\ \A h \in Thread : QueuePut(h) =>
       /\ made \subseteq write[h].root.gestures \cup acked
       /\ write[h].root.gestures \cap settled = {}
       /\ \A k \in Thread : Half(k, "memory") =>
            write[k].noted \subseteq write[h].root.gestures \cup acked

AttachmentKept ==
  /\ ~attached => file.hub = 0
  /\ attached => file.hub >= ackedKey
  /\ attached /\ answer # None /\ answer.at = "sent" => current <= file.hub
  /\ Half("main", "memory") /\ write["main"].then = "forget" => ~attached

RestoredKept ==
  /\ taken + (IF file.restored THEN 1 ELSE 0) <= returned
  /\ Doing("main", "take") /\ write["main"].half = "memory" => taken + 1 <= returned
  /\ Doing("worker", "enroll") /\ write["worker"].half = "file" => taken + 1 <= returned

OrderlyInv ==
  MemoryIsFile /\ GesturesKept /\ AttachmentKept /\ RestoredKept /\ file.interface = chosen

ConfigInv ==
  ConfigType /\ PutsKeepTheRest /\ AnswerHolds /\ EnrolmentApart /\ (Orderly => OrderlyInv)

-----------------------------------------------------------------------------
(* Puts.                                                                   *)

\* A configuration with one section changed is one, and the others stay.
LEMMA SectionChanged ==
  ASSUME NEW c \in Config, NEW n \in Nat, NEW q \in SUBSET GestureId, NEW b \in BOOLEAN
  PROVE  /\ [c EXCEPT !.hub = n] \in Config /\ [c EXCEPT !.interface = n] \in Config
         /\ [c EXCEPT !.settings = n] \in Config
         /\ [c EXCEPT !.gestures = q] \in Config /\ [c EXCEPT !.restored = b] \in Config
BY DEF Config

\* A put of one thread begins, goes on or ends; the others stay as they are.
LEMMA OnePutChanges ==
  ASSUME ConfigType, NEW h \in Thread, NEW w \in Write \cup {None},
         write' = [write EXCEPT ![h] = w]
  PROVE  /\ write' \in [Thread -> Write \cup {None}]
         /\ write'[h] = w /\ \A k \in Thread \ {h} : write'[k] = write[k]
BY DEF ConfigType

\* Nobody is in the middle of nothing.
LEMMA PutIsSomething == \A w \in Write : w # None
BY NoneAssumption

\* A put that begins has touched nothing yet.
LEMMA PutBegins ==
  ASSUME ConfigInv, NEW h \in Thread, Free(h), NEW w \in Write, w.half = "file",
         w.then \in Reasons(h), ChangesItsSection(w), write' = [write EXCEPT ![h] = w],
         UNCHANGED <<memory, file>>
  PROVE  PutsKeepTheRest' /\ (Orderly => MemoryIsFile')
<1>1. write'[h] = w /\ w # None /\ \A k \in Thread \ {h} : write'[k] = write[k]
  BY OnePutChanges, PutIsSomething DEF ConfigInv
<1>2. PutsKeepTheRest'
  <2> SUFFICES ASSUME NEW k \in Thread, write'[k] # None
               PROVE  write'[k].then \in Reasons(k) /\ ChangesItsSection(write'[k])
    BY DEF PutsKeepTheRest, Free, ChangesItsSection, Reasons
  <2>1. CASE k = h
    BY <2>1, <1>1
  <2>2. CASE k # h
    BY <2>2, <1>1 DEF ConfigInv, PutsKeepTheRest, Free
  <2> QED BY <2>1, <2>2
<1>3. \A k \in Thread : Half(k, "memory")' <=> Half(k, "memory")
  BY <1>1 DEF Half, Free
<1>4. ASSUME Orderly PROVE MemoryIsFile'
  BY <1>1, <1>3, <1>4 DEF ConfigInv, OrderlyInv, MemoryIsFile, Half, Free
<1> QED BY <1>2, <1>4

\* A put of another section than the queue leaves the queue, and what was
\* asked, as they are.
LEMMA PutApart ==
  ASSUME ConfigInv, NEW h \in Thread, Free(h), NEW w \in Write, w.half = "file",
         w.then \in Reasons(h), ChangesItsSection(w), write' = [write EXCEPT ![h] = w],
         w.then \notin {"gesture", "acks"},
         UNCHANGED <<memory, file, queue, current, made, acked, settled, ackedKey,
                     attached, chosen, taken, disorder>>,
         answer' = answer \/ (answer' = None /\ ~Doing("beat", "acks")),
         ConfigType', EnrolmentApart',
         returned' >= returned, w.then = "enroll" => returned' > returned
  PROVE  ConfigInv'
<1>1. write'[h] = w /\ w # None /\ \A k \in Thread \ {h} : write'[k] = write[k]
  BY OnePutChanges, PutIsSomething DEF ConfigInv
<1>2. PutsKeepTheRest' /\ (Orderly => MemoryIsFile')
  BY PutBegins
<1>3. AnswerHolds'
  <2>1. Doing("beat", "acks")' => Doing("beat", "acks") /\ write'["beat"] = write["beat"]
    BY <1>1 DEF Doing, Free, Thread
  <2> QED BY <2>1 DEF ConfigInv, AnswerHolds
<1>4. ASSUME Orderly PROVE OrderlyInv'
  <2>1. GesturesKept'
    <3>1. w.noted = {}
      BY DEF ChangesItsSection
    <3>2. \A k \in Thread : /\ QueuePut(k)' => QueuePut(k) /\ write'[k] = write[k]
                           /\ Half(k, "memory")' => Half(k, "memory") /\ write'[k] = write[k]
      BY <1>1 DEF QueuePut, Half, Free
    <3>3. \A k \in Thread : ~Free(k)' => write'[k].noted \subseteq queue \cup acked
      BY <1>1, <1>4, <3>1 DEF ConfigInv, OrderlyInv, GesturesKept, Free
    <3>4. ASSUME NEW k \in Thread, QueuePut(k)'
          PROVE  /\ made \subseteq write'[k].root.gestures \cup acked
                 /\ write'[k].root.gestures \cap settled = {}
                 /\ \A j \in Thread : Half(j, "memory")' =>
                      write'[j].noted \subseteq write'[k].root.gestures \cup acked
      <4>1. QueuePut(k) /\ write'[k] = write[k] /\ GesturesKept
        BY <1>4, <3>2, <3>4 DEF ConfigInv, OrderlyInv, QueuePut, Half, Free
      <4>2. \A j \in Thread : Half(j, "memory") =>
              write[j].noted \subseteq write'[k].root.gestures \cup acked
        BY <4>1 DEF GesturesKept
      <4> QED BY <3>2, <4>1, <4>2 DEF GesturesKept, QueuePut, Half, Free
    <3>5. UNCHANGED <<file, made, acked, settled, queue>>
      OBVIOUS
    <3> QED BY <1>4, <3>3, <3>4, <3>5 DEF ConfigInv, OrderlyInv, GesturesKept, QueuePut, Half, Free
  <2>2. AttachmentKept'
    BY <1>1, <1>4 DEF ConfigInv, OrderlyInv, AttachmentKept, Half, Free, Thread
  <2>3. RestoredKept'
    <3>1. Doing("main", "take")' /\ write'["main"].half = "memory"
            => Doing("main", "take") /\ write["main"].half = "memory"
      BY <1>1 DEF Doing, Free, Thread
    <3>2. taken + (IF file.restored THEN 1 ELSE 0) <= returned' /\ (w.then = "enroll" => taken + 1 <= returned')
      BY <1>4 DEF ConfigInv, ConfigType, OrderlyInv, RestoredKept
    <3>3. Doing("worker", "enroll")' /\ write'["worker"].half = "file"
            => w.then = "enroll" \/ (Doing("worker", "enroll") /\ write["worker"].half = "file")
      BY <1>1 DEF Doing, Free, Thread
    <3>4. taken \in Nat /\ returned \in Nat /\ returned' \in Nat
      BY DEF ConfigInv, ConfigType
    <3> QED BY <1>4, <3>1, <3>2, <3>3, <3>4 DEF ConfigInv, OrderlyInv, RestoredKept
  <2> QED BY <2>1, <2>2, <2>3, <1>2, <1>4 DEF OrderlyInv, ConfigInv
<1> QED BY <1>2, <1>3, <1>4 DEF ConfigInv, Orderly

\* What a thread puts.
ThePut(read, root, tells, then, noted) ==
  [read |-> read, root |-> root, tells |-> tells, then |-> then, half |-> "file", noted |-> noted]

LEMMA PutType ==
  ASSUME NEW read \in Config, NEW root \in Config, NEW tells \in BOOLEAN,
         NEW then \in Purpose, NEW noted \in SUBSET GestureId
  PROVE  ThePut(read, root, tells, then, noted) \in Write
BY DEF ThePut, Write

\* One thing less may happen.
LEMMA OneLess == ASSUME ConfigType, NEW kind, Happens(kind) PROVE left' \in Nat
BY DEF Happens, ConfigType

\* The window puts its own copy with one more setting.
LEMMA SettingKeeps == ASSUME ConfigInv, StoresSetting PROVE ConfigInv'
<1> DEFINE w == ThePut(cache, cache', TRUE, "setting", {})
<1>1. cache \in Config /\ cache' \in Config
  <2>1. cache \in Config /\ cache' = [cache EXCEPT !.settings = cache.settings + 1]
    BY DEF ConfigInv, ConfigType, StoresSetting
  <2>2. cache.settings + 1 \in Nat
    BY <2>1 DEF Config
  <2> QED BY <2>1, <2>2, SectionChanged
<1>2. w \in Write /\ w.half = "file" /\ w.then = "setting" /\ w.then \in Reasons("main")
  BY <1>1, PutType DEF Purpose, ThePut, Reasons
<1>3. ChangesItsSection(w)
  BY <1>1 DEF ThePut, ChangesItsSection, StoresSetting, Config
<1>4. Free("main") /\ write' = [write EXCEPT !["main"] = w]
  BY DEF StoresSetting, Puts, PutsNoting, ThePut
<1>5. /\ UNCHANGED <<memory, file, queue, current, made, acked, settled, ackedKey,
                     attached, chosen, taken, disorder, answer, returned, invited>>
      /\ returned' >= returned
  BY DEF StoresSetting, asked, ConfigInv, ConfigType
<1>6. ConfigType'
  <2>1. write' \in [Thread -> Write \cup {None}]
    BY <1>2, <1>4, OnePutChanges DEF ConfigInv, Thread
  <2>2. left' \in Nat
    BY OneLess DEF StoresSetting, ConfigInv
  <2> QED BY <1>1, <2>1, <2>2 DEF ConfigInv, ConfigType, StoresSetting, asked, hubKeys
<1>7. EnrolmentApart'
  BY <1>2, <1>4, <1>5, OnePutChanges DEF ConfigInv, EnrolmentApart, Enrolling, Doing, Free, Thread
<1> QED
  <2> HIDE DEF w
  <2> QED BY <1>2, <1>3, <1>4, <1>5, <1>6, <1>7, PutApart DEF Thread

LEMMA InterfaceKeeps == ASSUME ConfigInv, ChoosesInterface PROVE ConfigInv'
<1> DEFINE w == ThePut(memory, [memory EXCEPT !.interface = memory.interface + 1], FALSE, "interface", {})
<1>1. memory \in Config /\ [memory EXCEPT !.interface = memory.interface + 1] \in Config
  <2>1. memory \in Config
    BY DEF ConfigInv, ConfigType
  <2>2. memory.interface + 1 \in Nat
    BY <2>1 DEF Config
  <2> QED BY <2>1, <2>2, SectionChanged
<1>2. w \in Write /\ w.half = "file" /\ w.then = "interface" /\ w.then \in Reasons("main")
  BY <1>1, PutType DEF Purpose, ThePut, Reasons
<1>3. ChangesItsSection(w)
  BY <1>1 DEF ThePut, ChangesItsSection, Config
<1>4. Free("main") /\ write' = [write EXCEPT !["main"] = w]
  BY DEF ChoosesInterface, Puts, PutsNoting, ThePut
<1>5. /\ UNCHANGED <<memory, file, queue, current, made, acked, settled, ackedKey,
                     attached, chosen, taken, disorder, answer, returned, invited>>
      /\ returned' >= returned
  BY DEF ChoosesInterface, asked, ConfigInv, ConfigType
<1>6. ConfigType'
  <2>1. write' \in [Thread -> Write \cup {None}]
    BY <1>2, <1>4, OnePutChanges DEF ConfigInv, Thread
  <2>2. left' \in Nat
    BY OneLess DEF ChoosesInterface, ConfigInv
  <2> QED BY <2>1, <2>2 DEF ConfigInv, ConfigType, ChoosesInterface, asked, hubKeys
<1>7. EnrolmentApart'
  BY <1>2, <1>4, <1>5, OnePutChanges DEF ConfigInv, EnrolmentApart, Enrolling, Doing, Free, Thread
<1> QED
  <2> HIDE DEF w
  <2> QED BY <1>2, <1>3, <1>4, <1>5, <1>6, <1>7, PutApart DEF Thread

LEMMA ForgetKeeps == ASSUME ConfigInv, Forgets PROVE ConfigInv'
<1> DEFINE w == ThePut(memory, [memory EXCEPT !.hub = 0], TRUE, "forget", {})
<1>1. memory \in Config /\ [memory EXCEPT !.hub = 0] \in Config
  BY SectionChanged DEF ConfigInv, ConfigType
<1>2. w \in Write /\ w.half = "file" /\ w.then = "forget" /\ w.then \in Reasons("main")
  BY <1>1, PutType DEF Purpose, ThePut, Reasons
<1>3. ChangesItsSection(w)
  BY <1>1 DEF ThePut, ChangesItsSection, Config
<1>4. Free("main") /\ write' = [write EXCEPT !["main"] = w]
  BY DEF Forgets, Puts, PutsNoting, ThePut
<1>5. /\ UNCHANGED <<memory, file, queue, current, made, acked, settled, ackedKey,
                     attached, chosen, taken, disorder, answer, returned, invited>>
      /\ returned' >= returned
  BY DEF Forgets, asked, ConfigInv, ConfigType
<1>6. ConfigType'
  <2>1. write' \in [Thread -> Write \cup {None}]
    BY <1>2, <1>4, OnePutChanges DEF ConfigInv, Thread
  <2>2. left' \in Nat
    BY OneLess DEF Forgets, ConfigInv
  <2> QED BY <2>1, <2>2 DEF ConfigInv, ConfigType, Forgets, asked, hubKeys
<1>7. EnrolmentApart'
  BY <1>2, <1>4, <1>5, OnePutChanges DEF ConfigInv, EnrolmentApart, Enrolling, Doing, Free, Thread
<1> QED
  <2> HIDE DEF w
  <2> QED BY <1>2, <1>3, <1>4, <1>5, <1>6, <1>7, PutApart DEF Thread

\* The configuration the hub had kept is to be handed over once more.
LEMMA EnrolKeeps == ASSUME ConfigInv, Enrolls PROVE ConfigInv'
<1> DEFINE kept   == ThePut(memory, [memory EXCEPT !.restored = TRUE], FALSE, "enroll", {})
           opened == ThePut(memory, [memory EXCEPT !.hub = 1], TRUE, "enrolled", {})
<1>1. /\ memory \in Config /\ [memory EXCEPT !.restored = TRUE] \in Config
      /\ [memory EXCEPT !.hub = 1] \in Config
  BY SectionChanged DEF ConfigInv, ConfigType
<1>2. PICK w \in {kept, opened} :
        /\ write' = [write EXCEPT !["worker"] = w]
        /\ w = kept => returned' = returned + 1
        /\ w = opened => returned' = returned
  BY DEF Enrolls, Puts, PutsNoting, ThePut
<1>3. /\ w \in Write /\ w.half = "file" /\ w.then \in {"enroll", "enrolled"} /\ w.then \in Reasons("worker")
      /\ w.then = "enroll" => w = kept
  <2>1. kept \in Write /\ opened \in Write
    BY <1>1, PutType DEF Purpose
  <2>2. CASE w = kept
    BY <2>1, <2>2 DEF ThePut, Reasons
  <2>3. CASE w = opened
    BY <2>1, <2>3 DEF ThePut, Reasons
  <2> QED BY <2>2, <2>3
<1>4. ChangesItsSection(w)
  BY <1>1 DEF ThePut, ChangesItsSection, Config
<1>5. Free("worker") /\ ~invited
  BY DEF Enrolls
<1> HIDE DEF kept, opened
<1>6. /\ UNCHANGED <<memory, file, queue, current, made, acked, settled, ackedKey,
                     attached, chosen, taken, disorder, invited>>
      /\ returned' \in Nat /\ returned' >= returned /\ (w.then = "enroll" => returned' > returned)
  BY <1>2, <1>3 DEF Enrolls, ConfigInv, ConfigType
<1>7. \/ answer' = answer /\ (answer = None \/ answer.at # "sent")
      \/ answer' = None /\ ~Doing("beat", "acks")
  BY DEF Enrolls, ConfigInv, AnswerHolds
<1>8. ConfigType'
  <2>1. write' \in [Thread -> Write \cup {None}]
    BY <1>2, <1>3, OnePutChanges DEF ConfigInv, Thread
  <2>2. left' \in Nat
    BY OneLess DEF Enrolls, ConfigInv
  <2> QED BY <2>1, <2>2, <1>6, <1>7 DEF ConfigInv, ConfigType, Enrolls, hubKeys
<1>9. EnrolmentApart'
  BY <1>2, <1>3, <1>5, <1>6, <1>7, OnePutChanges DEF ConfigInv, EnrolmentApart, Enrolling, Doing, Free, Thread
<1> QED BY <1>2, <1>3, <1>4, <1>5, <1>6, <1>7, <1>8, <1>9, PutApart DEF Thread

\* A step that puts nothing, and asks nothing.
LEMMA NothingPut ==
  ASSUME ConfigInv, ConfigType', EnrolmentApart',
         UNCHANGED <<memory, file, write, queue, answer, current, made, acked, settled,
                     ackedKey, attached, chosen, returned, taken, disorder>>
  PROVE  ConfigInv'
<1>1. PutsKeepTheRest' /\ AnswerHolds'
  BY DEF ConfigInv, PutsKeepTheRest, AnswerHolds, Free, Doing
<1>2. ASSUME Orderly PROVE OrderlyInv'
  BY <1>2 DEF ConfigInv, OrderlyInv, MemoryIsFile, GesturesKept, AttachmentKept, RestoredKept,
              QueuePut, Half, Free, Doing
<1> QED BY <1>1, <1>2 DEF ConfigInv, Orderly

LEMMA EventKeeps == ASSUME ConfigInv, ReceivesEvent PROVE ConfigInv'
<1>1. ConfigType'
  <2>1. events \in Seq(Config) /\ events # <<>>
    BY DEF ConfigInv, ConfigType, ReceivesEvent
  <2>2. Head(events) \in Config /\ Tail(events) \in Seq(Config)
    BY <2>1
  <2> QED BY <2>2 DEF ConfigInv, ConfigType, ReceivesEvent, asked, hubKeys
<1>2. EnrolmentApart'
  BY DEF ConfigInv, EnrolmentApart, Enrolling, Doing, Free, ReceivesEvent, asked
<1> QED BY <1>1, <1>2, NothingPut DEF ReceivesEvent, asked

LEMMA RotationKeeps == ASSUME ConfigInv, Rotates PROVE ConfigInv'
<1>1. ConfigType'
  BY OneLess DEF ConfigInv, ConfigType, Rotates, asked
<1>2. EnrolmentApart'
  BY DEF ConfigInv, EnrolmentApart, Enrolling, Doing, Free, Rotates, asked
<1> QED BY <1>1, <1>2, NothingPut DEF Rotates, asked

LEMMA TakeKeeps == ASSUME ConfigInv, TakesRestored PROVE ConfigInv'
<1> DEFINE w == ThePut(memory, [memory EXCEPT !.restored = FALSE], FALSE, "take", {})
<1>1. memory \in Config /\ [memory EXCEPT !.restored = FALSE] \in Config
  BY SectionChanged DEF ConfigInv, ConfigType
<1>2. left' \in Nat
  BY OneLess DEF TakesRestored, ConfigInv
<1>3. CASE memory.restored /\ Puts("main", memory, [memory EXCEPT !.restored = FALSE], FALSE, "take")
           /\ UNCHANGED invited
  <2>1. w \in Write /\ w.half = "file" /\ w.then = "take" /\ w.then \in Reasons("main")
    BY <1>1, PutType DEF Purpose, ThePut, Reasons
  <2>2. ChangesItsSection(w)
    BY <1>1, <1>3 DEF ThePut, ChangesItsSection, Config
  <2>3. Free("main") /\ write' = [write EXCEPT !["main"] = w] /\ invited
    BY <1>3 DEF TakesRestored, Puts, PutsNoting, ThePut
  <2>4. /\ UNCHANGED <<memory, file, queue, current, made, acked, settled, ackedKey,
                       attached, chosen, taken, disorder, answer, returned, invited>>
        /\ returned' >= returned
    BY <1>3 DEF TakesRestored, ConfigInv, ConfigType
  <2>5. ConfigType'
    <3>1. write' \in [Thread -> Write \cup {None}]
      BY <2>1, <2>3, OnePutChanges DEF ConfigInv, Thread
    <3> QED BY <1>2, <2>4, <3>1 DEF ConfigInv, ConfigType, TakesRestored, hubKeys
  <2>6. EnrolmentApart'
    BY <2>1, <2>3, <2>4, OnePutChanges DEF ConfigInv, EnrolmentApart, Enrolling, Doing, Free, Thread
  <2> HIDE DEF w
  <2> QED BY <2>1, <2>2, <2>3, <2>4, <2>5, <2>6, PutApart DEF Thread
<1>4. CASE ~memory.restored /\ invited' = FALSE /\ UNCHANGED write
  <2>1. ConfigType'
    BY <1>2, <1>4 DEF ConfigInv, ConfigType, TakesRestored, hubKeys
  <2>2. EnrolmentApart'
    BY <1>4 DEF ConfigInv, EnrolmentApart, Enrolling, Doing, Free, TakesRestored
  <2> QED BY <1>4, <2>1, <2>2, NothingPut DEF TakesRestored
<1> QED BY <1>3, <1>4 DEF TakesRestored

\* The key saved follows the one the section held when the heartbeat left.
LEMMA KeyKeeps == ASSUME ConfigInv, AppliesKey PROVE ConfigInv'
<1> DEFINE w == ThePut([memory EXCEPT !.hub = current], [memory EXCEPT !.hub = answer.key], TRUE, "save", {})
<1>1. answer \in Answer /\ answer # None /\ Free("beat") /\ answer' = None /\ answer.key \in Nat
  BY DEF ConfigInv, ConfigType, AppliesKey, Answer
<1>2. /\ UNCHANGED <<memory, file, queue, current, made, acked, settled, ackedKey,
                     attached, chosen, taken, disorder, returned, invited>>
      /\ returned' >= returned /\ current \in Nat /\ current # 0 /\ memory \in Config
  BY <1>1 DEF AppliesKey, asked, ConfigInv, ConfigType, AnswerHolds
<1>3. ASSUME write' \in [Thread -> Write \cup {None}] PROVE ConfigType'
  BY <1>1, <1>2, <1>3 DEF ConfigInv, ConfigType, AppliesKey, hubKeys
<1>4. CASE answer.key > current
  <2>1. [memory EXCEPT !.hub = current] \in Config /\ [memory EXCEPT !.hub = answer.key] \in Config
    BY <1>1, <1>2, SectionChanged
  <2>2. w \in Write /\ w.half = "file" /\ w.then = "save" /\ w.then \in Reasons("beat")
    BY <2>1, PutType DEF Purpose, ThePut, Reasons
  <2>3. ChangesItsSection(w)
    BY <1>2, <1>4, <2>1 DEF ThePut, ChangesItsSection, Config
  <2>4. write' = [write EXCEPT !["beat"] = w]
    BY <1>4 DEF AppliesKey, Puts, PutsNoting, ThePut
  <2>5. ConfigType'
    BY <1>3, <2>2, <2>4, OnePutChanges DEF ConfigInv, Thread
  <2>6. EnrolmentApart'
    BY <1>1, <1>2, <2>2, <2>4, OnePutChanges DEF ConfigInv, EnrolmentApart, Enrolling, Doing, Free, Thread
  <2>7. ~Doing("beat", "acks")
    BY <1>1 DEF Doing
  <2> HIDE DEF w
  <2> QED BY <1>1, <1>2, <2>2, <2>3, <2>4, <2>5, <2>6, <2>7, PutApart DEF Thread
<1>5. CASE ~(answer.key > current)
  <2>1. UNCHANGED write
    BY <1>5 DEF AppliesKey
  <2>2. ConfigType' /\ PutsKeepTheRest'
    BY <1>2, <1>3, <2>1 DEF ConfigInv, ConfigType, PutsKeepTheRest, Free
  <2>3. AnswerHolds' /\ EnrolmentApart'
    BY <1>1, <1>2, <2>1 DEF ConfigInv, AnswerHolds, EnrolmentApart, Enrolling, Doing, Free
  <2>4. ASSUME Orderly PROVE OrderlyInv'
    BY <1>1, <1>2, <2>1, <2>4 DEF ConfigInv, OrderlyInv, MemoryIsFile, GesturesKept, AttachmentKept,
                                  RestoredKept, QueuePut, Half, Free, Doing
  <2> QED BY <1>2, <2>2, <2>3, <2>4 DEF ConfigInv, Orderly
<1> QED BY <1>4, <1>5

\* The heartbeat leaves with a key the file holds, or the probe is being detached.
LEMMA BeatKeeps == ASSUME ConfigInv, Beats PROVE ConfigInv'
<1>1. /\ Free("beat") /\ answer = None /\ memory.hub # 0
      /\ ~Doing("worker", "enroll") /\ ~Doing("worker", "enrolled")
      /\ current' = memory.hub /\ answer' = [acks |-> queue, key |-> 0, at |-> "sent"]
      /\ UNCHANGED <<memory, file, cache, events, write, queue, hubKey, staged, left, made, acked,
                     settled, ackedKey, attached, chosen, returned, invited, taken, disorder>>
  BY DEF Beats, asked, hubKeys
<1>2. answer' \in Answer /\ answer' # None /\ current' \in Nat
  <2>1. memory \in Config /\ queue \subseteq GestureId
    BY DEF ConfigInv, ConfigType
  <2>2. [acks |-> queue, key |-> 0, at |-> "sent"] \in Answer
    BY <2>1 DEF Answer
  <2> QED BY <1>1, <2>1, <2>2, NoneAssumption DEF Config
<1>3. ConfigType' /\ PutsKeepTheRest'
  BY <1>1, <1>2 DEF ConfigInv, ConfigType, PutsKeepTheRest, Free
<1>4. AnswerHolds' /\ EnrolmentApart'
  BY <1>1, <1>2 DEF ConfigInv, AnswerHolds, EnrolmentApart, Enrolling, Doing, Free
<1>5. ASSUME Orderly PROVE OrderlyInv'
  <2>1. MemoryIsFile' /\ GesturesKept' /\ RestoredKept' /\ file' = file /\ chosen' = chosen
    BY <1>1, <1>5 DEF ConfigInv, OrderlyInv, MemoryIsFile, GesturesKept, RestoredKept, QueuePut, Half, Free, Doing
  <2>2. attached => memory.hub <= file.hub
    <3>1. memory \in Config /\ file \in Config /\ MemoryIsFile /\ AttachmentKept
      BY <1>5 DEF ConfigInv, ConfigType, OrderlyInv
    <3>2. CASE \A h \in Thread : ~Half(h, "memory")
      BY <3>1, <3>2 DEF MemoryIsFile, Config
    <3>3. ASSUME NEW h \in Thread, Half(h, "memory"), attached PROVE memory.hub = file.hub
      <4>1. /\ write[h] # None /\ write[h].half = "memory" /\ h # "beat"
            /\ file = write[h].root /\ memory = write[h].read
        BY <1>1, <3>1, <3>3 DEF MemoryIsFile, Half, Free
      <4>2. write[h].then \in Reasons(h) /\ ChangesItsSection(write[h])
        BY <4>1 DEF ConfigInv, PutsKeepTheRest, Free
      <4>3. h = "main" => write[h].then # "forget"
        BY <3>1, <3>3 DEF AttachmentKept
      <4>4. h = "worker" => write[h].then # "enrolled"
        BY <1>1, <4>1 DEF Doing, Free
      <4> QED BY <4>1, <4>2, <4>3, <4>4 DEF ChangesItsSection, Reasons, Thread
    <3> QED BY <3>1, <3>2, <3>3 DEF Config
  <2>3. AttachmentKept'
    BY <1>1, <1>5, <2>2 DEF ConfigInv, OrderlyInv, AttachmentKept, Half, Free
  <2> QED BY <1>5, <2>1, <2>3 DEF ConfigInv, OrderlyInv
<1> QED BY <1>1, <1>3, <1>4, <1>5 DEF ConfigInv, Orderly

LEMMA AnswerKeeps == ASSUME ConfigInv, Answered PROVE ConfigInv'
<1>1. /\ answer \in Answer /\ answer # None /\ answer.at = "sent"
      /\ answer' = [answer EXCEPT !.key = IF staged' THEN hubKey ELSE 0, !.at = "acks"]
      /\ ackedKey' = IF current > ackedKey THEN current ELSE ackedKey
      /\ UNCHANGED <<memory, file, cache, events, write, queue, current, hubKey, left, made, acked,
                     settled, attached, chosen, returned, invited, taken, disorder>>
  BY DEF Answered, ConfigInv, ConfigType
<1>2. answer' \in Answer /\ answer' # None /\ answer'.at = "acks"
  <2>1. (IF staged' THEN hubKey ELSE 0) \in Nat
    BY DEF ConfigInv, ConfigType
  <2> QED BY <1>1, <2>1, NoneAssumption DEF Answer
<1>3. staged' \in BOOLEAN
  BY DEF Answered, ConfigInv, ConfigType
<1>4. ConfigType' /\ PutsKeepTheRest'
  BY <1>1, <1>2, <1>3 DEF ConfigInv, ConfigType, PutsKeepTheRest, Free
<1>5. AnswerHolds' /\ EnrolmentApart'
  BY <1>1, <1>2 DEF ConfigInv, AnswerHolds, EnrolmentApart, Enrolling, Doing, Free
<1>6. ASSUME Orderly PROVE OrderlyInv'
  <2>1. MemoryIsFile' /\ GesturesKept' /\ RestoredKept' /\ file' = file /\ chosen' = chosen
    BY <1>1, <1>6 DEF ConfigInv, OrderlyInv, MemoryIsFile, GesturesKept, RestoredKept, QueuePut, Half, Free, Doing
  <2>2. AttachmentKept'
    BY <1>1, <1>2, <1>6 DEF ConfigInv, OrderlyInv, AttachmentKept, Half, Free, ConfigType, Config
  <2> QED BY <1>6, <2>1, <2>2 DEF ConfigInv, OrderlyInv
<1> QED BY <1>1, <1>4, <1>5, <1>6 DEF ConfigInv, Orderly

\* A gesture is put with the queue as it is, with all that was made before.
LEMMA GestureKeeps ==
  ASSUME ConfigInv, NEW h \in {"worker", "beat"}, NEW kind, Gestures(h, kind)
  PROVE  ConfigInv'
<1>1. PICK g \in GestureId \ (made \cup acked \cup queue) :
        /\ queue' = queue \cup {g}
        /\ write' = [write EXCEPT ![h] =
             ThePut(memory, [memory EXCEPT !.gestures = queue'], FALSE, "gesture", {g})]
  BY DEF Gestures, PutsNoting, WithQueue, ThePut
<1> DEFINE w == ThePut(memory, [memory EXCEPT !.gestures = queue'], FALSE, "gesture", {g})
<1>2. memory \in Config /\ queue' \subseteq GestureId /\ [memory EXCEPT !.gestures = queue'] \in Config
  BY <1>1, SectionChanged DEF ConfigInv, ConfigType
<1>3. /\ w \in Write /\ w.half = "file" /\ w.then = "gesture" /\ w.then \in Reasons(h)
      /\ w.noted = {g} /\ w.root.gestures = queue'
  BY <1>2, PutType DEF Purpose, ThePut, Reasons, Config
<1>4. ChangesItsSection(w)
  BY <1>1, <1>2 DEF ThePut, ChangesItsSection, Config
<1>5. /\ Free(h) /\ UNCHANGED <<memory, file, cache, events, answer, current, hubKey, staged, made, acked,
                     settled, ackedKey, attached, chosen, returned, invited, taken, disorder>>
  BY DEF Gestures, hubKeys, asked
<1>6. /\ h \in Thread /\ w # None /\ write' \in [Thread -> Write \cup {None}]
      /\ write'[h] = w /\ \A k \in Thread \ {h} : write'[k] = write[k]
  <2>1. h \in Thread
    BY DEF Thread
  <2> QED BY <1>1, <1>3, <2>1, OnePutChanges, PutIsSomething DEF ConfigInv
<1>7. write' = [write EXCEPT ![h] = w]
  BY <1>1
<1> HIDE DEF w
<1>8. PutsKeepTheRest' /\ (Orderly => MemoryIsFile')
  BY <1>3, <1>4, <1>5, <1>6, <1>7, PutBegins
<1>9. ConfigType'
  <2>1. left' \in Nat
    BY OneLess DEF Gestures, ConfigInv
  <2> QED BY <1>2, <1>5, <1>6, <2>1 DEF ConfigInv, ConfigType
<1>10. AnswerHolds' /\ EnrolmentApart'
  BY ZenonT(30), <1>1, <1>3, <1>5, <1>6 DEF ConfigInv, AnswerHolds, EnrolmentApart, Enrolling, Doing, Free, Thread
<1>11. ASSUME Orderly PROVE OrderlyInv'
  <2>1. GesturesKept /\ settled \subseteq acked
    BY <1>11 DEF ConfigInv, OrderlyInv, AnswerHolds
  <2>2. \A k \in Thread : /\ Half(k, "memory")' => Half(k, "memory") /\ write'[k] = write[k]
                          /\ QueuePut(k)' => k = h \/ (QueuePut(k) /\ write'[k] = write[k])
    BY <1>3, <1>6 DEF QueuePut, Half, Free
  <2>3. \A k \in Thread : ~Free(k)' => write'[k].noted \subseteq queue' \cup acked
    BY <1>1, <1>3, <1>6, <2>1 DEF GesturesKept, Free
  <2>4. ASSUME NEW k \in Thread, QueuePut(k)'
        PROVE  /\ made \subseteq write'[k].root.gestures \cup acked
               /\ write'[k].root.gestures \cap settled = {}
               /\ \A j \in Thread : Half(j, "memory")' =>
                    write'[j].noted \subseteq write'[k].root.gestures \cup acked
    <3>1. CASE k = h
      <4>1. write'[k].root.gestures = queue'
        BY <1>3, <1>6, <3>1
      <4>2. \A j \in Thread : Half(j, "memory") => write[j].noted \subseteq queue \cup acked
        BY <2>1 DEF GesturesKept, Half
      <4> QED BY ZenonT(30), <1>1, <2>1, <2>2, <4>1, <4>2 DEF GesturesKept, Half, Free
    <3>2. CASE k # h
      <4>1. QueuePut(k) /\ write'[k] = write[k]
        BY <2>2, <2>4, <3>2 DEF QueuePut, Half, Free
      <4>2. \A j \in Thread : Half(j, "memory") =>
              write[j].noted \subseteq write'[k].root.gestures \cup acked
        BY <2>1, <4>1 DEF GesturesKept
      <4> QED BY <2>1, <2>2, <4>1, <4>2 DEF GesturesKept, QueuePut, Half, Free
    <3> QED BY <3>1, <3>2
  <2>5. GesturesKept'
    BY <1>1, <1>5, <2>1, <2>3, <2>4 DEF GesturesKept, QueuePut, Half, Free
  <2>6. AttachmentKept' /\ RestoredKept'
    BY <1>3, <1>5, <1>6, <1>11 DEF ConfigInv, OrderlyInv, AttachmentKept, RestoredKept, Half, Free, Doing, Thread
  <2> QED BY <1>5, <1>8, <1>11, <2>5, <2>6 DEF ConfigInv, OrderlyInv
<1> QED BY <1>5, <1>8, <1>9, <1>10, <1>11 DEF ConfigInv, Orderly

\* What is acknowledged leaves the queue before the put of it begins.
LEMMA AcksKeep == ASSUME ConfigInv, AppliesAcks PROVE ConfigInv'
<1>1. /\ answer \in Answer /\ answer # None /\ answer.at = "acks" /\ Free("beat")
      /\ queue' = queue \ answer.acks /\ acked' = acked \cup answer.acks
      /\ answer' = [answer EXCEPT !.at = "key"]
      /\ UNCHANGED <<memory, file, cache, events, current, hubKey, staged, left, made, settled,
                     ackedKey, attached, chosen, returned, invited, taken, disorder>>
  BY DEF AppliesAcks, ConfigInv, ConfigType, hubKeys
<1>2. answer' \in Answer /\ answer' # None /\ answer'.at = "key" /\ answer'.acks = answer.acks
      /\ answer.acks \subseteq GestureId
  BY <1>1, NoneAssumption DEF Answer
<1>3. ASSUME write' \in [Thread -> Write \cup {None}] PROVE ConfigType'
  BY <1>1, <1>2, <1>3 DEF ConfigInv, ConfigType
<1>4. /\ settled \subseteq acked' /\ answer'.acks \subseteq acked' /\ queue' \cap answer'.acks = {}
      /\ current' # 0
  BY <1>1, <1>2 DEF ConfigInv, AnswerHolds
<1>5. CASE answer.acks = {}
  <2>1. UNCHANGED write /\ queue' = queue /\ acked' = acked
    BY <1>1, <1>5 DEF AppliesAcks
  <2>2. ConfigType' /\ PutsKeepTheRest'
    BY <1>3, <2>1 DEF ConfigInv, ConfigType, PutsKeepTheRest, Free
  <2>3. AnswerHolds' /\ EnrolmentApart'
    BY <1>1, <1>2, <1>4, <2>1 DEF ConfigInv, AnswerHolds, EnrolmentApart, Enrolling, Doing, Free
  <2>4. ASSUME Orderly PROVE OrderlyInv'
    BY <1>1, <1>2, <2>1, <2>4 DEF ConfigInv, OrderlyInv, MemoryIsFile, GesturesKept, AttachmentKept,
                                  RestoredKept, QueuePut, Half, Free, Doing
  <2> QED BY <1>1, <2>2, <2>3, <2>4 DEF ConfigInv, Orderly
<1>6. CASE answer.acks # {}
  <2> DEFINE w == ThePut(memory, [memory EXCEPT !.gestures = queue'], FALSE, "acks", {})
  <2>1. memory \in Config /\ [memory EXCEPT !.gestures = queue'] \in Config
    BY <1>1, SectionChanged DEF ConfigInv, ConfigType
  <2>2. /\ w \in Write /\ w.half = "file" /\ w.then = "acks" /\ w.then \in Reasons("beat")
        /\ w.noted = {} /\ w.root.gestures = queue'
    BY <2>1, PutType DEF Purpose, ThePut, Reasons, Config
  <2>3. ChangesItsSection(w)
    BY <2>1 DEF ThePut, ChangesItsSection, Config
  <2>4. write' = [write EXCEPT !["beat"] = w]
    BY <1>6 DEF AppliesAcks, Puts, PutsNoting, ThePut, WithQueue
  <2> HIDE DEF w
  <2>5. /\ w # None /\ write' \in [Thread -> Write \cup {None}]
        /\ write'["beat"] = w /\ \A k \in Thread \ {"beat"} : write'[k] = write[k]
    BY <2>2, <2>4, OnePutChanges, PutIsSomething DEF ConfigInv, Thread
  <2>6. PutsKeepTheRest' /\ (Orderly => MemoryIsFile')
    BY <1>1, <2>2, <2>3, <2>4, PutBegins DEF Thread
  <2>7. ConfigType'
    BY <1>3, <2>5
  <2>8. AnswerHolds' /\ EnrolmentApart'
    BY <1>1, <1>2, <1>4, <2>2, <2>5 DEF ConfigInv, AnswerHolds, EnrolmentApart, Enrolling, Doing, Free, Thread
  <2>9. ASSUME Orderly PROVE OrderlyInv'
    <3>1. GesturesKept /\ settled \subseteq acked
      BY <2>9 DEF ConfigInv, OrderlyInv, AnswerHolds
    <3>2. \A k \in Thread : /\ Half(k, "memory")' => Half(k, "memory") /\ write'[k] = write[k]
                            /\ QueuePut(k)' => k = "beat" \/ (QueuePut(k) /\ write'[k] = write[k])
      BY <2>2, <2>5 DEF QueuePut, Half, Free
    <3>3. \A k \in Thread : ~Free(k)' => write'[k].noted \subseteq queue' \cup acked'
      BY <1>1, <2>2, <2>5, <3>1 DEF GesturesKept, Free
    <3>4. ASSUME NEW k \in Thread, QueuePut(k)'
          PROVE  /\ made \subseteq write'[k].root.gestures \cup acked'
                 /\ write'[k].root.gestures \cap settled = {}
                 /\ \A j \in Thread : Half(j, "memory")' =>
                      write'[j].noted \subseteq write'[k].root.gestures \cup acked'
      <4>1. CASE k = "beat"
        <5>1. write'[k].root.gestures = queue'
          BY <2>2, <2>5, <4>1
        <5>2. \A j \in Thread : Half(j, "memory") => write[j].noted \subseteq queue \cup acked
          BY <3>1 DEF GesturesKept, Half
        <5> QED BY <1>1, <3>1, <3>2, <5>1, <5>2 DEF GesturesKept, Half, Free
      <4>2. CASE k # "beat"
        <5>1. QueuePut(k) /\ write'[k] = write[k]
          BY <3>2, <3>4, <4>2 DEF QueuePut, Half, Free
        <5>2. \A j \in Thread : Half(j, "memory") =>
                write[j].noted \subseteq write'[k].root.gestures \cup acked
          BY <3>1, <5>1 DEF GesturesKept
        <5> QED BY <1>1, <3>1, <3>2, <5>1, <5>2 DEF GesturesKept, QueuePut, Half, Free
      <4> QED BY <4>1, <4>2
    <3>5. GesturesKept'
      BY <1>1, <3>1, <3>3, <3>4 DEF GesturesKept, QueuePut, Half, Free
    <3>6. AttachmentKept' /\ RestoredKept'
      BY <1>1, <1>2, <2>2, <2>5, <2>9 DEF ConfigInv, OrderlyInv, AttachmentKept, RestoredKept, Half, Free, Doing, Thread
    <3> QED BY <1>1, <2>6, <2>9, <3>5, <3>6 DEF ConfigInv, OrderlyInv
  <2> QED BY <1>1, <2>6, <2>7, <2>8, <2>9 DEF ConfigInv, Orderly
<1> QED BY <1>5, <1>6

\* Between its two puts an enrolment has set the memory, or could not.
LEMMA SaveKeeps == ASSUME ConfigInv, EnrollSaves PROVE ConfigInv'
<1>1. /\ ~Free("worker") /\ write["worker"].then = "enroll" /\ write["worker"].half # "file"
      /\ memory' = IF write["worker"].half = "memory" THEN write["worker"].root ELSE memory
      /\ write' = [write EXCEPT !["worker"] = ThePut(memory', [memory' EXCEPT !.hub = 1], TRUE, "enrolled", {})]
      /\ UNCHANGED <<file, cache, events, queue, answer, current, hubKey, staged, left, made, acked, settled,
                     ackedKey, attached, chosen, returned, invited, taken, disorder>>
  BY DEF EnrollSaves, Doing, Puts, PutsNoting, ThePut, hubKeys, asked
<1> DEFINE w == ThePut(memory', [memory' EXCEPT !.hub = 1], TRUE, "enrolled", {})
<1>2. write["worker"] \in Write
  BY <1>1 DEF ConfigInv, ConfigType, Free, Thread
<1>3. memory' \in Config /\ [memory' EXCEPT !.hub = 1] \in Config
  <2>1. memory' \in Config
    BY <1>1, <1>2 DEF ConfigInv, ConfigType, Write
  <2> QED BY <2>1, SectionChanged
<1>4. w \in Write /\ w.half = "file" /\ w.then = "enrolled" /\ w.then \in Reasons("worker") /\ w.noted = {}
  BY <1>3, PutType DEF Purpose, ThePut, Reasons
<1>5. ChangesItsSection(w)
  BY <1>3 DEF ThePut, ChangesItsSection, Config
<1>6. write' = [write EXCEPT !["worker"] = w]
  BY <1>1
<1> HIDE DEF w
<1>7. /\ w # None /\ write' \in [Thread -> Write \cup {None}]
      /\ write'["worker"] = w /\ \A k \in Thread \ {"worker"} : write'[k] = write[k]
  BY <1>4, <1>6, OnePutChanges, PutIsSomething DEF ConfigInv, Thread
<1>8. ConfigType'
  BY <1>1, <1>3, <1>7 DEF ConfigInv, ConfigType
<1>9. PutsKeepTheRest'
  <2> SUFFICES ASSUME NEW k \in Thread, write'[k] # None
               PROVE  write'[k].then \in Reasons(k) /\ ChangesItsSection(write'[k])
    BY DEF PutsKeepTheRest, Free, ChangesItsSection, Reasons
  <2>1. CASE k = "worker"
    BY <2>1, <1>4, <1>5, <1>7
  <2>2. CASE k # "worker"
    BY <2>2, <1>7 DEF ConfigInv, PutsKeepTheRest, Free
  <2> QED BY <2>1, <2>2
<1>10. AnswerHolds' /\ EnrolmentApart'
  BY <1>1, <1>4, <1>7 DEF ConfigInv, AnswerHolds, EnrolmentApart, Enrolling, Doing, Free, Thread
<1>11. ASSUME Orderly PROVE OrderlyInv'
  <2>1. \A k \in Thread : /\ Half(k, "memory")' => Half(k, "memory") /\ write'[k] = write[k] /\ k # "worker"
                          /\ QueuePut(k)' => QueuePut(k) /\ write'[k] = write[k]
    BY <1>4, <1>7 DEF QueuePut, Half, Free
  <2>2. MemoryIsFile'
    <3>1. MemoryIsFile
      BY <1>11 DEF ConfigInv, OrderlyInv
    <3>2. CASE write["worker"].half = "memory"
      <4>1. Half("worker", "memory") /\ "worker" \in Thread
        BY <1>1, <3>2 DEF Half, Thread
      <4>2. \A k \in Thread : Half(k, "memory") => k = "worker"
        BY <3>1, <4>1 DEF MemoryIsFile
      <4>3. memory' = file
        BY <1>1, <3>1, <3>2, <4>1 DEF MemoryIsFile
      <4> QED BY <1>1, <2>1, <4>2, <4>3 DEF MemoryIsFile, Half, Free
    <3>3. CASE write["worker"].half # "memory"
      <4>1. \A k \in Thread : Half(k, "memory")' <=> Half(k, "memory")
        BY <1>4, <1>7, <3>3 DEF Half, Free
      <4> QED BY <1>1, <1>7, <2>1, <3>1, <3>3, <4>1 DEF MemoryIsFile, Half, Free
    <3> QED BY <3>2, <3>3
  <2>3. GesturesKept'
    <3>1. GesturesKept
      BY <1>11 DEF ConfigInv, OrderlyInv
    <3>2. \A k \in Thread : ~Free(k)' => write'[k].noted \subseteq queue \cup acked
      BY <1>4, <1>7, <3>1 DEF GesturesKept, Free
    <3>3. ASSUME NEW k \in Thread, QueuePut(k)'
          PROVE  /\ made \subseteq write'[k].root.gestures \cup acked
                 /\ write'[k].root.gestures \cap settled = {}
                 /\ \A j \in Thread : Half(j, "memory")' =>
                      write'[j].noted \subseteq write'[k].root.gestures \cup acked
      <4>1. QueuePut(k) /\ write'[k] = write[k]
        BY <2>1, <3>3 DEF QueuePut, Half, Free
      <4>2. \A j \in Thread : Half(j, "memory") =>
              write[j].noted \subseteq write'[k].root.gestures \cup acked
        BY <3>1, <4>1 DEF GesturesKept
      <4> QED BY <2>1, <3>1, <4>1, <4>2 DEF GesturesKept, QueuePut, Half, Free
    <3> QED BY <1>1, <3>1, <3>2, <3>3 DEF GesturesKept, QueuePut, Half, Free
  <2>4. AttachmentKept' /\ RestoredKept'
    BY <1>1, <1>4, <1>7, <1>11 DEF ConfigInv, OrderlyInv, AttachmentKept, RestoredKept, Half, Free, Doing, Thread
  <2> QED BY <1>1, <1>11, <2>2, <2>3, <2>4 DEF ConfigInv, OrderlyInv
<1> QED BY <1>1, <1>8, <1>9, <1>10, <1>11 DEF ConfigInv, Orderly

-----------------------------------------------------------------------------
(* The halves of a put, and its failure.                                   *)

\* A put that goes on is the same put.
LEMMA SamePut ==
  ASSUME NEW w \in Write, NEW half \in {"file", "memory", "failed"}
  PROVE  LET u == [w EXCEPT !.half = half]
         IN  /\ u \in Write /\ u.half = half /\ u.read = w.read /\ u.root = w.root
             /\ u.then = w.then /\ u.noted = w.noted /\ u.tells = w.tells
             /\ ChangesItsSection(w) /\ (half = "failed" => w.then = "enroll") => ChangesItsSection(u)
BY DEF Write, ChangesItsSection

\* A put that is alone and replaces what its writer read: the file keeps all
\* but the section that was changed.
LEMMA FileKeeps == ASSUME ConfigInv, NEW h \in Thread, WriteFile(h) PROVE ConfigInv'
<1> DEFINE w == write[h]
           u == [w EXCEPT !.half = "memory"]
<1>1. /\ w # None /\ w.half = "file" /\ file' = w.root /\ write' = [write EXCEPT ![h] = u]
      /\ settled' = IF w.then = "acks" THEN settled \cup answer.acks ELSE settled
      /\ ackedKey' = IF w.then = "enrolled" THEN 1 ELSE ackedKey
      /\ attached' = IF w.then \in {"forget", "enrolled"} THEN w.then = "enrolled" ELSE attached
      /\ chosen' = IF w.then = "interface" THEN w.root.interface ELSE chosen
      /\ disorder' = (disorder \/ file # w.read \/ \E k \in Thread \ {h} : ~Free(k))
      /\ UNCHANGED <<memory, cache, events, queue, answer, current, hubKey, staged, left,
                     made, acked, returned, invited, taken>>
  BY DEF WriteFile, Free, hubKeys
<1>2. w \in Write /\ w.then \in Reasons(h) /\ ChangesItsSection(w)
  BY <1>1 DEF ConfigInv, ConfigType, PutsKeepTheRest, Free
<1>3. /\ w.read \in Config /\ w.root \in Config /\ file \in Config
  BY <1>2 DEF Write, ConfigInv, ConfigType
<1> HIDE DEF u
<1>4. /\ u \in Write /\ u # None /\ u.half = "memory" /\ u.read = w.read /\ u.root = w.root
      /\ u.then = w.then /\ u.noted = w.noted /\ ChangesItsSection(u)
  BY <1>2, SamePut, PutIsSomething DEF u
<1>5. /\ write' \in [Thread -> Write \cup {None}] /\ write'[h] = u
      /\ \A k \in Thread \ {h} : write'[k] = write[k]
  BY <1>1, <1>4, OnePutChanges DEF ConfigInv
<1>6. w.then = "acks" => /\ answer # None /\ answer.at = "key" /\ answer.acks \subseteq acked
                         /\ answer.acks \subseteq GestureId /\ queue \cap answer.acks = {}
                         /\ w.root.gestures \cap answer.acks = {}
  <2> SUFFICES ASSUME w.then = "acks" PROVE h = "beat" /\ Doing("beat", "acks") /\ answer \in Answer \cup {None}
    BY DEF ConfigInv, AnswerHolds, Answer
  <2> QED BY <1>1, <1>2 DEF Reasons, Thread, Doing, Free, ConfigInv, ConfigType
<1>7. ConfigType'
  <2>1. settled' \subseteq GestureId /\ ackedKey' \in Nat /\ attached' \in BOOLEAN
    BY <1>1, <1>6 DEF ConfigInv, ConfigType
  <2>2. chosen' \in Nat /\ disorder' \in BOOLEAN /\ file' \in Config
    BY <1>1, <1>3 DEF ConfigInv, ConfigType, Config
  <2> QED BY <1>1, <1>5, <2>1, <2>2 DEF ConfigInv, ConfigType
<1>8. PutsKeepTheRest'
  <2> SUFFICES ASSUME NEW k \in Thread, write'[k] # None
               PROVE  write'[k].then \in Reasons(k) /\ ChangesItsSection(write'[k])
    BY DEF PutsKeepTheRest, Free, ChangesItsSection, Reasons
  <2>1. CASE k = h
    BY <2>1, <1>2, <1>4, <1>5
  <2>2. CASE k # h
    BY <2>2, <1>5 DEF ConfigInv, PutsKeepTheRest, Free
  <2> QED BY <2>1, <2>2
<1>9. AnswerHolds' /\ EnrolmentApart'
  <2>1. \A k \in Thread : /\ write'[k] = None <=> write[k] = None
                          /\ write'[k] # None => write'[k].then = write[k].then /\ write'[k].root = write[k].root
    BY <1>1, <1>4, <1>5
  <2>2. AnswerHolds'
    BY <1>1, <1>6, <2>1 DEF ConfigInv, AnswerHolds, Doing, Free, Thread
  <2>3. EnrolmentApart'
    BY <1>1, <2>1 DEF ConfigInv, EnrolmentApart, Enrolling, Doing, Free, Thread
  <2> QED BY <2>2, <2>3
<1>10. ASSUME Orderly' PROVE OrderlyInv'
  <2>1. OrderlyInv /\ file = w.read /\ \A k \in Thread \ {h} : write[k] = None
    BY <1>1, <1>10 DEF ConfigInv, Orderly, Free
  <2>2. \A k \in Thread : write'[k] # None => k = h /\ write'[k].half = "memory"
    BY <1>4, <1>5, <2>1
  <2>3. memory = file
    BY <1>1, <2>1 DEF OrderlyInv, MemoryIsFile, Half, Free
  <2>4. MemoryIsFile'
    BY <1>1, <1>4, <1>5, <2>1, <2>2, <2>3 DEF MemoryIsFile, Half, Free
  <2>5. GesturesKept'
    <3>1. made \subseteq w.root.gestures \cup acked /\ w.root.gestures \cap settled = {}
      <4>1. CASE w.then \in {"gesture", "acks"}
        BY <1>1, <2>1, <4>1 DEF OrderlyInv, GesturesKept, QueuePut, Half, Free
      <4>2. CASE w.then \notin {"gesture", "acks"}
        BY <1>2, <2>1, <4>2 DEF OrderlyInv, GesturesKept, ChangesItsSection
      <4> QED BY <4>1, <4>2
    <3>2. w.root.gestures \cap settled' = {} /\ queue \cap settled' = {}
      BY <1>1, <1>6, <2>1, <3>1 DEF OrderlyInv, GesturesKept
    <3>3. u.noted \subseteq queue \cup acked
      BY <1>1, <1>4, <2>1 DEF OrderlyInv, GesturesKept, Free
    <3> QED BY <1>1, <1>4, <1>5, <2>1, <2>2, <3>1, <3>2, <3>3 DEF OrderlyInv, GesturesKept, QueuePut, Half, Free
  <2>6. AttachmentKept'
    <3>1. /\ file.hub \in Nat /\ w.root.hub \in Nat /\ ackedKey \in Nat /\ current \in Nat
      BY <1>3 DEF Config, ConfigInv, ConfigType
    <3>2. /\ h # "main" => w.then # "forget"
          /\ w.then = "enrolled" => answer = None \/ answer.at # "sent"
          /\ w.then = "save" => file.hub # 0 /\ w.root.hub > file.hub
          /\ w.then \notin {"forget", "enrolled", "save"} => w.root.hub = file.hub
          /\ w.then = "forget" => w.root.hub = 0
          /\ w.then = "enrolled" => w.root.hub = 1
      <4>1. w.then = "enrolled" => h = "worker"
        BY <1>2 DEF Reasons, Thread
      <4>2. w.then = "enrolled" => Enrolling
        BY <1>1, <4>1 DEF Enrolling, Doing, Free
      <4> QED BY <1>2, <2>1, <4>2 DEF Reasons, Thread, ChangesItsSection, ConfigInv, EnrolmentApart
    <3>3. AttachmentKept
      BY <2>1 DEF OrderlyInv
    <3>4. /\ (~attached' => file'.hub = 0) /\ (attached' => file'.hub >= ackedKey')
          /\ (attached' /\ answer # None /\ answer.at = "sent" => current <= file'.hub)
      <4>1. CASE w.then = "forget"
        <5>1. ~attached' /\ file'.hub = 0
          BY <1>1, <3>2, <4>1
        <5> QED BY <5>1
      <4>2. CASE w.then = "enrolled"
        <5>1. file'.hub = 1 /\ ackedKey' = 1 /\ attached' /\ (answer = None \/ answer.at # "sent")
          BY <1>1, <3>2, <4>2
        <5> QED BY <5>1
      <4>3. CASE w.then \notin {"forget", "enrolled"}
        <5>1. attached' = attached /\ ackedKey' = ackedKey /\ file'.hub = w.root.hub
          BY <1>1, <4>3
        <5>2. CASE w.then = "save"
          <6>1. attached
            BY <3>2, <3>3, <5>2 DEF AttachmentKept
          <6>2. file'.hub > file.hub /\ file.hub >= ackedKey
            BY <3>2, <3>3, <5>1, <5>2, <6>1 DEF AttachmentKept
          <6>3. answer # None /\ answer.at = "sent" => current <= file.hub
            BY <3>3, <6>1 DEF AttachmentKept
          <6>4. file'.hub \in Nat /\ attached'
            BY <3>1, <5>1, <6>1
          <6>5. file'.hub >= ackedKey'
            BY <3>1, <5>1, <6>2, <6>4
          <6> QED BY <3>1, <6>2, <6>3, <6>4, <6>5
        <5>3. CASE w.then # "save"
          <6>1. file'.hub = file.hub
            BY <3>2, <4>3, <5>1, <5>3
          <6> QED BY <3>3, <5>1, <6>1 DEF AttachmentKept
        <5> QED BY <5>2, <5>3
      <4> QED BY <4>1, <4>2, <4>3
    <3>6. write'["main"] # None /\ write'["main"].then = "forget" => ~attached'
      BY <1>1, <1>4, <1>5, <2>2 DEF Thread
    <3> QED BY <1>1, <3>4, <3>6 DEF AttachmentKept, Half, Free
  <2>7. RestoredKept'
    <3>1. RestoredKept /\ taken \in Nat /\ returned \in Nat
      BY <2>1 DEF OrderlyInv, ConfigInv, ConfigType
    <3>2. /\ w.then = "take" => file.restored /\ ~w.root.restored
          /\ w.then = "enroll" => h = "worker"
          /\ w.then \notin {"enroll", "take"} => w.root.restored = file.restored
      BY <1>2, <2>1 DEF ChangesItsSection, Reasons, Thread
    <3>3. w.then = "enroll" => taken + 1 <= returned
      BY <1>1, <3>1, <3>2 DEF RestoredKept, Doing, Free
    <3>4. taken + (IF w.root.restored THEN 1 ELSE 0) <= returned
      <4>1. CASE w.then = "enroll"
        BY <3>1, <3>3, <4>1
      <4>2. CASE w.then = "take"
        BY <3>1, <3>2, <4>2 DEF RestoredKept
      <4>3. CASE w.then \notin {"enroll", "take"}
        BY <3>1, <3>2, <4>3 DEF RestoredKept
      <4> QED BY <4>1, <4>2, <4>3
    <3>5. w.then = "take" => taken + 1 <= returned
      BY <3>1, <3>2 DEF RestoredKept
    <3>6. /\ Doing("main", "take")' => w.then = "take"
          /\ ~(Doing("worker", "enroll")' /\ write'["worker"].half = "file")
      BY <1>4, <2>2, <1>5 DEF Doing, Free, Thread
    <3> QED BY <1>1, <3>4, <3>5, <3>6 DEF RestoredKept
  <2>8. file'.interface = chosen'
    BY <1>1, <1>2, <2>1 DEF OrderlyInv, ChangesItsSection
  <2> QED BY <2>4, <2>5, <2>6, <2>7, <2>8 DEF OrderlyInv
<1> QED BY <1>7, <1>8, <1>9, <1>10 DEF ConfigInv

\* The memory follows the file, and the call returns.
LEMMA MemoryKeeps == ASSUME ConfigInv, NEW h \in Thread, WriteMemory(h) PROVE ConfigInv'
<1> DEFINE w == write[h]
<1>1. /\ w # None /\ w.half = "memory" /\ w.then # "enroll" /\ memory' = w.root
      /\ events' = IF w.tells THEN Append(events, w.root) ELSE events
      /\ write' = [write EXCEPT ![h] = None]
      /\ made' = IF w.then = "gesture" THEN made \cup w.noted ELSE made
      /\ invited' = Invited(h)
      /\ taken' = IF w.then = "take" THEN taken + 1 ELSE taken
      /\ UNCHANGED <<file, cache, queue, answer, current, hubKey, staged, left, acked, settled,
                     ackedKey, attached, chosen, returned, disorder>>
  BY DEF WriteMemory, Free, hubKeys
<1>2. w \in Write /\ w.then \in Reasons(h) /\ ChangesItsSection(w)
  BY <1>1 DEF ConfigInv, ConfigType, PutsKeepTheRest, Free
<1>3. w.root \in Config /\ w.noted \subseteq GestureId
  BY <1>2 DEF Write
<1>4. /\ write' \in [Thread -> Write \cup {None}] /\ write'[h] = None
      /\ \A k \in Thread \ {h} : write'[k] = write[k]
  BY <1>1, OnePutChanges DEF ConfigInv
<1>5. ConfigType'
  <2>1. events' \in Seq(Config)
    BY <1>1, <1>3 DEF ConfigInv, ConfigType
  <2>2. made' \subseteq GestureId /\ taken' \in Nat /\ invited' \in BOOLEAN
    BY <1>1, <1>3 DEF ConfigInv, ConfigType, Invited
  <2> QED BY <1>1, <1>3, <1>4, <2>1, <2>2 DEF ConfigInv, ConfigType
<1>6. PutsKeepTheRest' /\ AnswerHolds'
  <2>1. PutsKeepTheRest'
    BY <1>4 DEF ConfigInv, PutsKeepTheRest, Free
  <2>2. AnswerHolds'
    BY <1>1, <1>4 DEF ConfigInv, AnswerHolds, Doing, Free, Thread
  <2> QED BY <2>1, <2>2
<1>7. EnrolmentApart'
  <2>1. EnrolmentApart
    BY DEF ConfigInv
  <2>2. Doing("main", "take")' => invited'
    <3>1. Doing("main", "take")' => h # "main" /\ Doing("main", "take")
      BY <1>4 DEF Doing, Free, Thread
    <3>2. h # "main" => w.then # "take"
      BY <1>2 DEF Reasons, Thread
    <3> QED BY <1>1, <2>1, <3>1, <3>2 DEF EnrolmentApart, Invited
  <2>3. Enrolling' => ~invited'
    <3>1. Enrolling' => h # "worker" /\ Enrolling
      BY <1>4 DEF Enrolling, Doing, Free, Thread
    <3>2. h # "worker" => w.then # "enrolled"
      BY <1>2 DEF Reasons, Thread
    <3> QED BY <1>1, <2>1, <3>1, <3>2 DEF EnrolmentApart, Invited
  <2>4. Enrolling' => Enrolling
    BY <1>4 DEF Enrolling, Doing, Free, Thread
  <2> QED BY <1>1, <2>1, <2>2, <2>3, <2>4 DEF EnrolmentApart
<1>8. ASSUME Orderly PROVE OrderlyInv'
  <2>1. OrderlyInv /\ h \in Thread /\ Half(h, "memory")
    BY <1>1, <1>8 DEF ConfigInv, Half, Free
  <2>2. file = w.root /\ \A k \in Thread \ {h} : ~Half(k, "memory")
    BY <2>1 DEF OrderlyInv, MemoryIsFile
  <2>3. \A k \in Thread : write'[k] # None => k # h /\ write'[k] = write[k] /\ write[k].half # "memory"
    BY <1>4, <2>2 DEF Half, Free
  <2>4. MemoryIsFile'
    BY <1>1, <2>2, <2>3 DEF MemoryIsFile, Half, Free
  <2>5. GesturesKept'
    <3>1. GesturesKept
      BY <2>1 DEF OrderlyInv
    <3>2. w.noted \subseteq file.gestures \/ w.noted = {}
      BY <1>2, <2>2 DEF ChangesItsSection
    <3>3. w.noted \subseteq queue \cup acked
      BY <1>1, <3>1 DEF GesturesKept, Free
    <3>4. made' \subseteq made \cup w.noted
      BY <1>1
    <3>5. ASSUME NEW k \in Thread, QueuePut(k)'
          PROVE  /\ made' \subseteq write'[k].root.gestures \cup acked
                 /\ write'[k].root.gestures \cap settled = {}
      <4>1. QueuePut(k) /\ write'[k] = write[k]
        BY <2>3, <3>5 DEF QueuePut, Half, Free
      <4>2. w.noted \subseteq write[k].root.gestures \cup acked
        BY <2>1, <3>1, <4>1 DEF GesturesKept
      <4> QED BY <3>1, <3>4, <4>1, <4>2 DEF GesturesKept
    <3>6. \A k \in Thread : ~Free(k)' => write'[k].noted \subseteq queue \cup acked
      BY <2>3, <3>1 DEF GesturesKept, Free
    <3>7. \A k \in Thread : ~Half(k, "memory")'
      BY <2>3 DEF Half, Free
    <3> QED BY <1>1, <3>1, <3>2, <3>3, <3>4, <3>5, <3>6, <3>7 DEF GesturesKept, QueuePut, Half, Free
  <2>6. AttachmentKept'
    BY <1>1, <2>1, <2>3 DEF OrderlyInv, AttachmentKept, Half, Free, Thread
  <2>7. RestoredKept'
    <3>1. RestoredKept /\ taken \in Nat /\ returned \in Nat
      BY <2>1 DEF OrderlyInv, ConfigInv, ConfigType
    <3>2. ~(Doing("main", "take")' /\ write'["main"].half = "memory")
      BY <2>3 DEF Doing, Free, Thread
    <3>3. CASE w.then = "take"
      <4>1. h = "main" /\ ~file.restored
        BY <1>2, <2>2, <3>3 DEF Reasons, Thread, ChangesItsSection
      <4>2. taken' = taken + 1 /\ taken + 1 <= returned
        BY <1>1, <3>1, <3>3, <4>1 DEF RestoredKept, Doing, Free
      <4>3. Doing("main", "take")
        BY <1>1, <3>3, <4>1 DEF Doing, Free
      <4>4. ~Enrolling
        BY <4>3 DEF ConfigInv, EnrolmentApart
      <4>5. ~Doing("worker", "enroll")'
        BY <1>4, <4>4 DEF Enrolling, Doing, Free, Thread
      <4>6. taken' + (IF file.restored THEN 1 ELSE 0) <= returned
        BY <3>1, <4>1, <4>2
      <4> QED BY <1>1, <3>2, <4>5, <4>6 DEF RestoredKept
    <3>4. CASE w.then # "take"
      <4>1. taken' = taken
        BY <1>1, <3>4
      <4>2. Doing("worker", "enroll")' => Doing("worker", "enroll") /\ write'["worker"] = write["worker"]
        BY <1>4 DEF Doing, Free, Thread
      <4> QED BY <1>1, <3>1, <3>2, <4>1, <4>2 DEF RestoredKept
    <3> QED BY <3>3, <3>4
  <2> QED BY <1>1, <2>1, <2>4, <2>5, <2>6, <2>7 DEF OrderlyInv
<1> QED BY <1>1, <1>5, <1>6, <1>7, <1>8 DEF ConfigInv, Orderly

\* A file that could not be written is as it was.
LEMMA FailureKeeps == ASSUME ConfigInv, NEW h \in Thread, WriteFails(h) PROVE ConfigInv'
<1> DEFINE w == write[h]
           u == [w EXCEPT !.half = "failed"]
<1>1. /\ w # None /\ w.half = "file"
      /\ write' = IF w.then = "enroll" THEN [write EXCEPT ![h] = u] ELSE [write EXCEPT ![h] = None]
      /\ invited' = (invited /\ w.then # "take")
      /\ taken' = IF w.then = "take" THEN taken + 1 ELSE taken
      /\ disorder' = (disorder \/ w.then = "take")
      /\ UNCHANGED <<memory, file, cache, events, queue, answer, current, hubKey, staged, made, acked,
                     settled, ackedKey, attached, chosen, returned>>
  BY DEF WriteFails, Doing, Free, hubKeys
<1>2. w \in Write /\ w.then \in Reasons(h) /\ ChangesItsSection(w)
  BY <1>1 DEF ConfigInv, ConfigType, PutsKeepTheRest, Free
<1> HIDE DEF u
<1>3. /\ u \in Write /\ u # None /\ u.half = "failed" /\ u.root = w.root /\ u.then = w.then /\ u.noted = w.noted
      /\ w.then = "enroll" => ChangesItsSection(u)
  BY <1>2, SamePut, PutIsSomething DEF u
<1>4. PICK v \in Write \cup {None} :
        /\ write' = [write EXCEPT ![h] = v]
        /\ v = None \/ (v = u /\ w.then = "enroll")
        /\ v = None => w.then # "enroll"
  <2>1. CASE w.then = "enroll"
    BY <1>1, <1>3, <2>1
  <2>2. CASE w.then # "enroll"
    BY <1>1, <2>2
  <2> QED BY <2>1, <2>2
<1>5. /\ write' \in [Thread -> Write \cup {None}] /\ write'[h] = v
      /\ \A k \in Thread \ {h} : write'[k] = write[k]
  BY <1>4, OnePutChanges DEF ConfigInv
<1>6. ConfigType'
  <2>1. left' \in Nat
    BY OneLess DEF WriteFails, ConfigInv
  <2>2. invited' \in BOOLEAN /\ taken' \in Nat /\ disorder' \in BOOLEAN
    BY <1>1 DEF ConfigInv, ConfigType
  <2> QED BY <1>1, <1>5, <2>1, <2>2 DEF ConfigInv, ConfigType
<1>7. PutsKeepTheRest'
  <2> SUFFICES ASSUME NEW k \in Thread, write'[k] # None
               PROVE  write'[k].then \in Reasons(k) /\ ChangesItsSection(write'[k])
    BY DEF PutsKeepTheRest, Free, ChangesItsSection, Reasons
  <2>1. CASE k = h
    BY <2>1, <1>2, <1>3, <1>4, <1>5
  <2>2. CASE k # h
    BY <2>2, <1>5 DEF ConfigInv, PutsKeepTheRest, Free
  <2> QED BY <2>1, <2>2
<1>8. \A k \in Thread : write'[k] # None =>
        /\ write[k] # None /\ write'[k].then = write[k].then /\ write'[k].root = write[k].root
        /\ write'[k].noted = write[k].noted
        /\ write'[k].half \in {"file", "memory"} => write'[k] = write[k]
  BY <1>1, <1>3, <1>4, <1>5
<1>9. AnswerHolds' /\ EnrolmentApart'
  <2>1. AnswerHolds'
    BY <1>1, <1>8 DEF ConfigInv, AnswerHolds, Doing, Free, Thread
  <2>2. Doing("main", "take")' => w.then # "take"
    <3>1. w.then = "take" => h = "main" /\ write'["main"] = None
      BY <1>2, <1>3, <1>4, <1>5 DEF Reasons, Thread
    <3> QED BY <3>1 DEF Doing, Free
  <2>3. EnrolmentApart'
    BY <1>1, <1>8, <2>2 DEF ConfigInv, EnrolmentApart, Enrolling, Doing, Free, Thread
  <2> QED BY <2>1, <2>3
<1>10. ASSUME Orderly' PROVE OrderlyInv'
  <2>1. OrderlyInv /\ taken' = taken
    BY <1>1, <1>10 DEF ConfigInv, Orderly
  <2>2. \A k \in Thread : write'[k] # None /\ write'[k].half = "memory" <=> write[k] # None /\ write[k].half = "memory"
    BY <1>1, <1>3, <1>4, <1>5
  <2>3. MemoryIsFile'
    BY <1>1, <1>8, <2>1, <2>2 DEF OrderlyInv, MemoryIsFile, Half, Free
  <2>4. GesturesKept'
    <3>1. ASSUME NEW k \in Thread, QueuePut(k)'
          PROVE  /\ made \subseteq write'[k].root.gestures \cup acked
                 /\ write'[k].root.gestures \cap settled = {}
                 /\ \A j \in Thread : Half(j, "memory")' =>
                      write'[j].noted \subseteq write'[k].root.gestures \cup acked
      <4>1. QueuePut(k) /\ write'[k] = write[k]
        BY <1>8, <3>1 DEF QueuePut, Half, Free
      <4>2. \A j \in Thread : Half(j, "memory") =>
              write[j].noted \subseteq write'[k].root.gestures \cup acked
        BY <2>1, <4>1 DEF OrderlyInv, GesturesKept
      <4> QED BY <1>8, <2>1, <4>1, <4>2 DEF OrderlyInv, GesturesKept, Half, Free
    <3> QED BY <1>1, <1>8, <2>1, <3>1 DEF OrderlyInv, GesturesKept, QueuePut, Half, Free
  <2>5. AttachmentKept' /\ RestoredKept'
    BY <1>1, <1>8, <2>1 DEF OrderlyInv, AttachmentKept, RestoredKept, Half, Free, Doing, Thread
  <2> QED BY <1>1, <2>1, <2>3, <2>4, <2>5 DEF OrderlyInv
<1> QED BY <1>6, <1>7, <1>9, <1>10 DEF ConfigInv

-----------------------------------------------------------------------------
(* The application stops and starts again.                                 *)

LEMMA StartKeeps ==
  ASSUME ConfigInv, NEW found \in Config, Restarting(found), left' \in Nat, disorder' \in BOOLEAN,
         Orderly' => Orderly /\ found = file
  PROVE  ConfigInv'
<1>1. /\ memory' = found /\ cache' = found /\ file' = found /\ events' = <<>>
      /\ write' = [h \in Thread |-> None] /\ queue' = found.gestures /\ answer' = None /\ current' = 0
      /\ invited' = FALSE
      /\ UNCHANGED <<hubKey, staged, made, acked, settled, ackedKey, attached, chosen, returned, taken>>
  BY DEF Restarting, hubKeys
<1>2. ConfigType'
  <2>1. <<>> \in Seq(Config) /\ found.gestures \subseteq GestureId
    BY DEF Config
  <2>2. write' \in [Thread -> Write \cup {None}]
    BY <1>1
  <2> QED BY <1>1, <2>1, <2>2 DEF ConfigInv, ConfigType
<1>3. PutsKeepTheRest' /\ AnswerHolds' /\ EnrolmentApart'
  BY <1>1 DEF ConfigInv, PutsKeepTheRest, AnswerHolds, EnrolmentApart, Enrolling, Doing, Free, Thread
<1>4. ASSUME Orderly' PROVE OrderlyInv'
  BY <1>1, <1>4 DEF ConfigInv, OrderlyInv, MemoryIsFile, GesturesKept, AttachmentKept, RestoredKept,
                    QueuePut, Half, Free, Doing, Thread
<1> QED BY <1>2, <1>3, <1>4 DEF ConfigInv

LEMMA RestartKeeps == ASSUME ConfigInv, Restart \/ TornRestart PROVE ConfigInv'
<1>1. left' \in Nat /\ file \in Config /\ disorder \in BOOLEAN
  BY OneLess DEF Restart, TornRestart, ConfigInv, ConfigType
<1>2. CASE Restart
  BY <1>1, <1>2, StartKeeps DEF Restart, Orderly
<1>3. CASE TornRestart
  <2>1. Blank \in Config
    BY DEF Blank, Config
  <2> QED BY <1>1, <1>3, <2>1, StartKeeps DEF TornRestart, Orderly
<1> QED BY <1>2, <1>3

-----------------------------------------------------------------------------
(* The theorems.                                                           *)

LEMMA ConfigInitially == ASSUME Init PROVE ConfigInv
<1>1. [Blank EXCEPT !.hub = 1] \in Config /\ Blank.gestures = {} /\ ~Blank.restored /\ Blank.interface = 0
  BY DEF Blank, Config
<1>2. ConfigType
  <2>1. <<>> \in Seq(Config)
    OBVIOUS
  <2>2. write \in [Thread -> Write \cup {None}]
    BY DEF Init
  <2>3. memory \in Config /\ file \in Config /\ cache \in Config
    BY <1>1 DEF Init
  <2>4. staged \in BOOLEAN /\ attached \in BOOLEAN /\ invited \in BOOLEAN /\ disorder \in BOOLEAN
    BY DEF Init
  <2>5. /\ queue \subseteq GestureId /\ made \subseteq GestureId /\ acked \subseteq GestureId
        /\ settled \subseteq GestureId /\ answer \in Answer \cup {None}
    BY DEF Init
  <2>6. /\ current \in Nat /\ hubKey \in Nat \ {0} /\ left \in Nat /\ ackedKey \in Nat
        /\ chosen \in Nat /\ returned \in Nat /\ taken \in Nat
    BY BoundsAssumption DEF Init
  <2>7. events \in Seq(Config)
    BY <2>1 DEF Init
  <2> QED BY <2>2, <2>3, <2>4, <2>5, <2>6, <2>7 DEF ConfigType
<1>3. PutsKeepTheRest /\ AnswerHolds /\ EnrolmentApart
  BY DEF Init, PutsKeepTheRest, AnswerHolds, EnrolmentApart, Enrolling, Doing, Free, Thread
<1>4. OrderlyInv
  BY <1>1 DEF Init, OrderlyInv, MemoryIsFile, GesturesKept, AttachmentKept, RestoredKept,
              QueuePut, Half, Free, Doing, Thread, Blank
<1> QED BY <1>2, <1>3, <1>4 DEF ConfigInv

LEMMA ConfigStep == ASSUME ConfigInv, [Next]_vars PROVE ConfigInv'
<1>1. ASSUME NEW h \in Thread, WriteFile(h) \/ WriteFails(h) \/ WriteMemory(h) PROVE ConfigInv'
  BY <1>1, FileKeeps, FailureKeeps, MemoryKeeps
<1>2. ASSUME NEW h \in {"worker", "beat"}, NEW kind, Gestures(h, kind) PROVE ConfigInv'
  BY <1>2, GestureKeeps
<1>3. ASSUME \/ StoresSetting \/ ReceivesEvent \/ ChoosesInterface \/ Forgets \/ Enrolls \/ EnrollSaves
             \/ TakesRestored
      PROVE  ConfigInv'
  BY <1>3, SettingKeeps, EventKeeps, InterfaceKeeps, ForgetKeeps, EnrolKeeps, SaveKeeps, TakeKeeps
<1>4. ASSUME Rotates \/ Beats \/ Answered \/ AppliesAcks \/ AppliesKey PROVE ConfigInv'
  BY <1>4, RotationKeeps, BeatKeeps, AnswerKeeps, AcksKeep, KeyKeeps
<1>5. ASSUME Restart \/ TornRestart PROVE ConfigInv'
  BY <1>5, RestartKeeps
<1>6. CASE UNCHANGED vars
  <2>1. UNCHANGED <<memory, file, cache, events, write, queue, answer, current, hubKey, staged, left, made,
                    acked, settled, ackedKey, attached, chosen, returned, invited, taken, disorder>>
    BY <1>6 DEF vars, hubKeys, asked
  <2>2. ConfigType' /\ EnrolmentApart'
    BY <2>1 DEF ConfigInv, ConfigType, EnrolmentApart, Enrolling, Doing, Free
  <2> QED BY <2>1, <2>2, NothingPut
<1> QED BY <1>1, <1>2, <1>3, <1>4, <1>5, <1>6 DEF Next

\* Every variable of the configuration and of who writes it keeps its type.
THEOREM ConfigTypeCorrect == Spec => []ConfigType
<1>1. Init => ConfigInv
  BY ConfigInitially
<1>2. ConfigInv /\ [Next]_vars => ConfigInv'
  BY ConfigStep
<1>3. ConfigInv => ConfigType
  BY DEF ConfigInv
<1> QED BY <1>1, <1>2, <1>3, PTL DEF Spec

\* Puts that come one after another undo nothing of one another's sections
\* (ConfigStore::put and its callers).  It says nothing of puts that overlap,
\* which may undo one another's.
LEMMA PutsInOrderKeepSections == Spec => []NoSectionUndone
<1>1. Init => ConfigInv
  BY ConfigInitially
<1>2. ConfigInv /\ [Next]_vars => ConfigInv'
  BY ConfigStep
<1>3. ASSUME ConfigInv PROVE NoSectionUndone
  <2> SUFFICES ASSUME Orderly
               PROVE  /\ GesturesSurvive /\ AcknowledgedIsGone /\ DetachedStaysDetached
                      /\ HandedOverOnce /\ ChoiceIsKept
    BY DEF NoSectionUndone
  <2>1. OrderlyInv /\ taken \in Nat /\ returned \in Nat
    BY <1>3 DEF ConfigInv, ConfigType
  <2>2. Resting => memory = file
    BY <2>1 DEF OrderlyInv, MemoryIsFile, Resting, Half
  <2>3. GesturesSurvive /\ AcknowledgedIsGone
    BY <2>1 DEF OrderlyInv, GesturesKept, GesturesSurvive, AcknowledgedIsGone
  <2>4. DetachedStaysDetached /\ ChoiceIsKept
    BY <2>1, <2>2 DEF OrderlyInv, AttachmentKept, DetachedStaysDetached, ChoiceIsKept
  <2>5. HandedOverOnce
    BY <2>1 DEF OrderlyInv, RestoredKept, HandedOverOnce
  <2> QED BY <2>3, <2>4, <2>5
<1> QED BY <1>1, <1>2, <1>3, PTL DEF Spec

\* The key the hub read the probe's word of is in the file of a probe that is
\* attached, as long as puts come one after another (apply).
THEOREM WordIsOnDisk == Spec => []AnnouncedKeyIsOnDisk
<1>1. Init => ConfigInv
  BY ConfigInitially
<1>2. ConfigInv /\ [Next]_vars => ConfigInv'
  BY ConfigStep
<1>3. ConfigInv => AnnouncedKeyIsOnDisk
  BY DEF ConfigInv, OrderlyInv, AttachmentKept, AnnouncedKeyIsOnDisk
<1> QED BY <1>1, <1>2, <1>3, PTL DEF Spec

-----------------------------------------------------------------------------
(***************************************************************************)
(* The shared profiles, for every number of probes, profiles, operators,   *)
(* messages and faults.  As long as nothing crosses, a probe that announces*)
(* the hub's revision holds the hub's list, only what every probe has      *)
(* learnt is pruned, and nothing deleted comes back.                       *)
(***************************************************************************)

-----------------------------------------------------------------------------
(* The inductive invariant.                                                *)

Lists == [Id -> Entry \cup {Nothing}]

TypeOK ==
  /\ rev \in Nat \ {0} /\ purged \in Nat
  /\ table \in [Id -> Row \cup {Nothing}] /\ line \in [Probe -> Line]
  /\ job \in [Author -> ChangeRow \cup {Nothing}] /\ beat \in [Beat -> BeatRow \cup {Nothing}]
  /\ held \in [Probe -> Lists] /\ applied \in [Probe -> Nat]
  /\ saved \in Base \cup {Nothing} /\ fresh \in SUBSET Id
  /\ acts \in Nat /\ faults \in Nat
  /\ erased \in SUBSET Id /\ astray \in SUBSET Id /\ disturbed \in BOOLEAN

\* A change that was read has a revision and a name.
ChangesAreRead ==
  \A a \in Author :
    /\ At(a, "bump") \/ At(a, "write") => job[a].rev # 0
    /\ job[a] # Nothing /\ (job[a].at # "look" \/ job[a].kind = "insert") => job[a].name # Nothing

\* An identifier nobody has drawn is nowhere.
FreshIsNew ==
  \A i \in fresh :
    /\ table[i] = Nothing /\ i \notin erased
    /\ saved # Nothing => saved.table[i] = Nothing
    /\ \A p \in Probe : held[p][i] = Nothing
    /\ \A a \in Author : job[a] # Nothing => job[a].id # i
    /\ \A b \in Beat : beat[b] # Nothing =>
         /\ \A e \in beat[b].out : e.id # i
         /\ \A r \in beat[b].rows : r.id # i

\* A message somebody waits for is a heartbeat, the only one of its probe; past
\* the count, its probe is counted; until the answer is made, its probe has
\* what it announced.
AnswersAreOne ==
  /\ \A b, c \in Beat : beat[b] # Nothing /\ beat[c] # Nothing /\ beat[b].awaited /\ beat[c].awaited
                        /\ beat[b].who = beat[c].who => b = c
  /\ \A b \in Beat : beat[b] # Nothing =>
       /\ beat[b].kind = "deposit" => beat[b].at = "ingest"
       /\ \A r, q \in beat[b].rows : r.id = q.id => r = q
       /\ beat[b].at \notin {"select", "replied"} => beat[b].rev = 0
       /\ beat[b].at = "select" => beat[b].rev # 0
       /\ beat[b].awaited => /\ beat[b].kind = "heartbeat"
                             /\ beat[b].at # "ingest" => line[beat[b].who].counted
                             /\ beat[b].at # "replied" => beat[b].announced = applied[beat[b].who]

\* The backup is older.
BackupIsOlder ==
  saved # Nothing =>
    /\ saved.rev <= rev
    /\ \A p \in Probe : saved.line[p].rev <= saved.rev
    /\ \A a \in Underway : saved.rev < job[a].rev
    /\ rev = saved.rev =>
         /\ \A a \in Author : ~At(a, "write")
         /\ \A i \in Id : \/ table[i] = saved.table[i]
                          \/ table[i] = Nothing /\ saved.table[i] # Nothing /\ saved.table[i].dead

\* A probe that is ahead of the hub, which was restored.
Ahead(x) ==
  x > rev =>
    /\ \A i \in Id : table[i] # Nothing => table[i].rev <= rev
    /\ saved # Nothing /\ saved.rev <= rev
    /\ \A i \in Id : saved.table[i] # Nothing => saved.table[i].rev <= rev
    /\ \A a \in Author : At(a, "bump") => job[a].rev <= x

NothingReused ==
  /\ \A p \in Probe : Ahead(applied[p])
  /\ \A b \in Beat : beat[b] # Nothing => Ahead(beat[b].announced)
  /\ \A b \in Beat, a \in Author :
       beat[b] # Nothing /\ At(a, "write") => beat[b].announced < job[a].rev /\ beat[b].announced < rev

\* The answer that will give a probe this revision is on its way.
Answering(b) == beat[b] # Nothing /\ beat[b].awaited /\ beat[b].rev # 0

\* What is noted, counted and announced of a probe is not beyond a revision it
\* has, or is about to have, and no change under way reuses that one.
Bounded(p, a) ==
  /\ line[p].rev <= a
  /\ saved # Nothing => saved.line[p].rev <= a
  /\ line[p].counted => \A b \in Pruning : beat[b].floor <= a
  /\ \A c \in Author : At(c, "write") => a < job[c].rev /\ a < rev
  /\ \A b \in Beat : beat[b] # Nothing /\ beat[b].who = p =>
       beat[b].announced <= a \/ (rev < beat[b].announced /\ rev <= a)

RevisionsInOrder ==
  /\ \A p \in Probe : line[p].rev <= rev /\ Bounded(p, applied[p])
  /\ \A b \in Beat : Answering(b) =>
       /\ Bounded(beat[b].who, beat[b].rev) /\ beat[b].rev <= rev
       /\ \A a \in Underway : beat[b].rev < job[a].rev
  /\ \A b \in Pruning : beat[b].floor <= rev /\ beat[b].floor <= beat[b].announced
  /\ \A b \in Beat : Answering(b) /\ beat[b].at = "select" /\ ~beat[b].replace =>
       beat[b].announced <= beat[b].rev /\ purged <= beat[b].announced + 1

-----------------------------------------------------------------------------
\* The hub's own is there, with its name; what it deleted is not.
Agrees(entry, row, lost) ==
  IF row.dead THEN entry = Nothing \/ (entry.own /\ lost)
  ELSE entry = [name |-> row.name, own |-> FALSE]

\* A list at revision a agrees with a table at revision r.
Follows(list, a, r, t) ==
  \A i \in Id : t[i] # Nothing /\ (t[i].rev <= a \/ a = r) => Agrees(list[i], t[i], i \in astray)

Learnt(list, a, t) ==
  \A i \in Id \ astray : t[i] # Nothing /\ t[i].dead /\ t[i].rev <= a => list[i] = Nothing

Theirs(list, i) == list[i] # Nothing /\ ~list[i].own

Sound(list, a) ==
  /\ a <= rev => Follows(list, a, rev, table)
  /\ a <= rev /\ saved # Nothing /\ saved.rev = rev => Follows(list, a, rev, saved.table)
  /\ Learnt(list, a, table)
  /\ saved # Nothing => Learnt(list, a, saved.table)
  /\ \A i \in erased \ astray : table[i] = Nothing => list[i] = Nothing

\* A list that holds a profile of the hub's the hub has pruned is to be
\* replaced: the threshold passed it, or is about to.
Outdated(p, a) ==
  \/ a + 1 < purged
  \/ ~line[p].counted /\ \E b \in Beat : BeatAt(b, "mark") /\ a < beat[b].floor

Replaceable(p, list, a) ==
  /\ \A i \in Id : a <= rev /\ table[i] = Nothing /\ Theirs(list, i) => a < rev /\ Outdated(p, a)
  /\ \A i \in Id : a <= rev /\ saved # Nothing /\ saved.rev = rev /\ saved.table[i] = Nothing /\ Theirs(list, i)
                     => a < rev /\ a + 1 < saved.purged
  /\ a = 0 => \A i \in Id : ~Theirs(list, i)

\* The list an answer leads to holds nothing of the hub's but what it has.
Exact(list) ==
  /\ \A i \in Id : table[i] = Nothing => ~Theirs(list, i)
  /\ saved # Nothing /\ saved.rev = rev => \A i \in Id : saved.table[i] = Nothing => ~Theirs(list, i)

Result(b) == Merged(held[beat[b].who], beat[b].rows, beat[b].replace)

ListsAreSound ==
  /\ \A p \in Probe : Sound(held[p], applied[p]) /\ Replaceable(p, held[p], applied[p])
  /\ \A b \in Beat : Answering(b) /\ beat[b].at = "replied" =>
       Sound(Result(b), beat[b].rev) /\ Exact(Result(b))

\* What was deleted is a tombstone or is gone, and nothing carries it.
DeletedIsGone ==
  /\ \A i \in Id : table[i] # Nothing /\ table[i].dead => i \in erased
  /\ saved # Nothing => \A i \in Id : saved.table[i] # Nothing /\ saved.table[i].dead => i \in erased
  /\ \A i \in erased \ astray :
       /\ i \notin Live(table)
       /\ table[i] = Nothing =>
            /\ \A a \in Author : job[a] # Nothing /\ job[a].kind = "insert" => job[a].id # i
            /\ \A b \in Beat : beat[b] # Nothing => \A e \in beat[b].out : e.id # i

Orderliness == BackupIsOlder /\ NothingReused /\ RevisionsInOrder /\ ListsAreSound /\ DeletedIsGone

\* What holds whatever crosses.
Always == TypeOK /\ ChangesAreRead /\ FreshIsNew /\ AnswersAreOne

ProfilesInv == Always /\ (~disturbed => Orderliness)

-----------------------------------------------------------------------------
(* Least and greatest revisions.                                           *)

\* A set of revisions that is not empty has a least one.
LEMMA LeastRevision ==
  ASSUME NEW S \in SUBSET Nat, S # {}
  PROVE  Min(S) \in S /\ \A y \in S : Min(S) <= y
<1>1. PICK n \in S : \A m \in S : ~(<<m, n>> \in OpToRel(<, Nat))
  BY NatLessThanWellFounded, WFMin
<1>2. \A m \in S : ~(m < n)
  BY <1>1 DEF OpToRel
<1>3. \E n1 \in S : \A m \in S : n1 <= m
  BY <1>2
<1> QED BY <1>3, Zenon DEF Min

\* Of two revisions, the lesser.
LEMMA LesserRevision ==
  ASSUME NEW x \in Nat, NEW y \in Nat
  PROVE  Min({x, y}) \in {x, y} /\ Min({x, y}) <= x /\ Min({x, y}) <= y
<1>1. {x, y} \in SUBSET Nat /\ {x, y} # {}
  OBVIOUS
<1> QED BY <1>1, LeastRevision

\* The greater.
LEMMA GreaterRevision ==
  ASSUME NEW x \in Nat, NEW y \in Nat
  PROVE  Max({x, y}) \in {x, y} /\ Max({x, y}) >= x /\ Max({x, y}) >= y
<1>1. \E n \in {x, y} : \A m \in {x, y} : n >= m
  OBVIOUS
<1> QED BY <1>1 DEF Max

\* Finitely many things with a revision each: one has the greatest.
LEMMA GreatestThere ==
  ASSUME NEW K, IsFiniteSet(K), K # {}, NEW f \in [K -> Nat]
  PROVE  \E k \in K : \A j \in K : f[k] >= f[j]
<1> DEFINE Above(x) == {y \in K : f[y] > f[x]}
           T == {Cardinality(Above(x)) : x \in K}
<1>1. \A x \in K : IsFiniteSet(Above(x)) /\ Cardinality(Above(x)) \in Nat
  BY FS_Subset, FS_CardinalityType
<1>2. T \in SUBSET Nat /\ T # {}
  BY <1>1
<1>3. PICK x \in K : \A y \in K : Cardinality(Above(x)) <= Cardinality(Above(y))
  <2> HIDE DEF Above
  <2>1. Min(T) \in T /\ \A k \in T : Min(T) <= k
    <3> HIDE DEF T
    <3> QED BY <1>2, LeastRevision
  <2> QED BY <2>1
<1>4. ASSUME NEW y \in K, f[y] > f[x] PROVE FALSE
  <2>1. Above(y) \in SUBSET Above(x) /\ y \in Above(x) /\ y \notin Above(y)
    BY <1>4
  <2> HIDE DEF Above
  <2>2. Cardinality(Above(y)) <= Cardinality(Above(x)) /\ Cardinality(Above(y)) # Cardinality(Above(x))
    BY <1>1, <2>1, FS_Subset
  <2> QED BY <1>1, <1>3, <2>2
<1> QED BY <1>4

\* lift_portscan_rev: the revision, or a greater one of a row.
LEMMA LiftedIs ==
  ASSUME NEW r \in Nat \ {0}, NEW t \in [Id -> Row \cup {Nothing}]
  PROVE  /\ Lifted(r, t) \in Nat \ {0} /\ Lifted(r, t) >= r
         /\ \A i \in Id : t[i] # Nothing => t[i].rev <= Lifted(r, t)
         /\ Lifted(r, t) = r \/ \E i \in Id : t[i] # Nothing /\ Lifted(r, t) = t[i].rev
<1> DEFINE K == {k \in Id : t[k] # Nothing}
           S == {r} \cup {t[i].rev : i \in K}
           f == [k \in K |-> t[k].rev]
<1>1. \A k \in K : t[k].rev \in Nat \ {0}
  BY DEF Row
<1>2. \E n \in S : \A m \in S : n >= m
  <2>1. CASE K = {}
    BY <2>1
  <2>2. CASE K # {}
    <3>1. IsFiniteSet(K)
      BY FS_Subset, ProfilesBounds
    <3>2. f \in [K -> Nat]
      BY <1>1
    <3>3. PICK k \in K : \A j \in K : f[k] >= f[j]
      <4> HIDE DEF K, f
      <4> QED BY <2>2, <3>1, <3>2, GreatestThere
    <3>4. \A j \in K : t[k].rev >= t[j].rev
      BY <3>3
    <3>5. t[k].rev \in Nat /\ \A m \in S : m = r \/ \E j \in K : m = t[j].rev
      BY <1>1
    <3>6. CASE t[k].rev >= r
      <4>1. t[k].rev \in S
        OBVIOUS
      <4> QED BY <3>4, <3>5, <3>6, <4>1
    <3>7. CASE r >= t[k].rev
      <4>1. r \in S
        OBVIOUS
      <4>2. \A j \in K : r >= t[j].rev
        BY <1>1, <3>4, <3>5, <3>7
      <4> QED BY <3>5, <4>1, <4>2
    <3> QED BY <3>5, <3>6, <3>7
  <2> QED BY <2>1, <2>2
<1>3. Lifted(r, t) \in S /\ \A m \in S : Lifted(r, t) >= m
  <2>1. Lifted(r, t) = Max(S)
    BY DEF Lifted
  <2> HIDE DEF S
  <2> QED BY <1>2, <2>1 DEF Max
<1>4. \A i \in Id : t[i] # Nothing => t[i].rev \in S
  OBVIOUS
<1>5. r \in S /\ S \subseteq Nat \ {0}
  BY <1>1
<1>6. \A i \in Id : t[i] # Nothing => t[i].rev \in Nat /\ Lifted(r, t) >= t[i].rev
  BY <1>1, <1>3, <1>4
<1>7. Lifted(r, t) \in Nat \ {0} /\ Lifted(r, t) >= r
  BY <1>3, <1>5
<1>8. Lifted(r, t) = r \/ \E i \in Id : t[i] # Nothing /\ Lifted(r, t) = t[i].rev
  BY <1>3
<1> QED BY <1>6, <1>7, <1>8

\* prune_portscan_tombstones: no probe that counts is below the floor.
LEMMA FloorIs ==
  ASSUME NEW lines \in [Probe -> Line], rev \in Nat
  PROVE  /\ Floor(lines) \in Nat
         /\ \A p \in Probe : lines[p].counted => Floor(lines) <= lines[p].rev
<1> DEFINE C == {p \in Probe : lines[p].counted}
           S == {lines[p].rev : p \in C}
<1>1. \A p \in Probe : lines[p].rev \in Nat
  BY DEF Line
<1>2. S \in SUBSET Nat
  BY <1>1
<1>3. CASE C = {}
  BY <1>3 DEF Floor
<1>4. CASE C # {}
  <2>1. S # {}
    BY <1>4
  <2>2. Floor(lines) = Min(S)
    BY <1>4 DEF Floor
  <2>3. Min(S) \in S /\ \A y \in S : Min(S) <= y
    <3> HIDE DEF S
    <3> QED BY <1>2, <2>1, LeastRevision
  <2> QED BY <1>2, <2>2, <2>3
<1> QED BY <1>3, <1>4

\* merge makes a list.
LEMMA MergedType ==
  ASSUME NEW list \in Lists, NEW rows \in SUBSET Told, NEW replace
  PROVE  Merged(list, rows, replace) \in Lists
<1> DEFINE M == Merged(list, rows, replace)
<1>1. ASSUME NEW i \in Id PROVE M[i] \in Entry \cup {Nothing}
  <2>1. CASE \E r \in rows : r.id = i
    <3> DEFINE r == CHOOSE r \in rows : r.id = i
    <3>1. r \in rows
      BY <2>1
    <3>2. M[i] = Nothing \/ M[i] = [name |-> r.name, own |-> FALSE]
      BY <2>1 DEF Merged
    <3>3. r.name \in Name
      <4> HIDE DEF r
      <4> QED BY <3>1 DEF Told
    <3>4. [name |-> r.name, own |-> FALSE] \in Entry
      <4> HIDE DEF r
      <4> QED BY <3>3 DEF Entry
    <3> HIDE DEF M, r
    <3> QED BY <3>2, <3>4
  <2>2. CASE \A r \in rows : r.id # i
    <3>1. M[i] = Nothing \/ M[i] = list[i]
      BY <2>2 DEF Merged
    <3> QED BY <3>1 DEF Lists
  <2> QED BY <2>1, <2>2
<1>2. M = [i \in Id |-> M[i]]
  BY DEF Merged
<1>3. M \in Lists
  <2> HIDE DEF M
  <2> QED BY <1>1, <1>2 DEF Lists
<1> QED BY <1>3

\* merge: what the answer mentions is as it says; the rest stays, but for the
\* hub's when the list is replaced.
LEMMA MergedIs ==
  ASSUME NEW list \in Lists, NEW rows \in SUBSET Told, NEW replace \in BOOLEAN,
         \A r, q \in rows : r.id = q.id => r = q
  PROVE  /\ Merged(list, rows, replace) \in Lists
         /\ \A r \in rows : Merged(list, rows, replace)[r.id] =
                              IF r.dead THEN Nothing ELSE [name |-> r.name, own |-> FALSE]
         /\ \A i \in Id : (\A r \in rows : r.id # i) =>
              Merged(list, rows, replace)[i] = IF replace /\ Theirs(list, i) THEN Nothing ELSE list[i]
<1> DEFINE M == Merged(list, rows, replace)
           Of(i) == CHOOSE r \in rows : r.id = i
<1>1. \A r \in rows : r.id \in Id /\ r.name \in Name /\ r.dead \in BOOLEAN
  BY DEF Told
<1>2. ASSUME NEW r \in rows
      PROVE  M[r.id] = IF r.dead THEN Nothing ELSE [name |-> r.name, own |-> FALSE]
  <2>1. Of(r.id) = r
    OBVIOUS
  <2> QED BY <1>1, <2>1 DEF Merged
<1>3. ASSUME NEW i \in Id, \A r \in rows : r.id # i
      PROVE  M[i] = IF replace /\ Theirs(list, i) THEN Nothing ELSE list[i]
  BY <1>3 DEF Merged, Theirs
<1> QED BY <1>2, <1>3, MergedType

-----------------------------------------------------------------------------
(* The types.                                                              *)

\* What a change and a message under way are made of.
LEMMA ChangeIs ==
  ASSUME TypeOK, NEW a \in Author, job[a] # Nothing
  PROVE  /\ job[a] \in ChangeRow /\ job[a].id \in Id /\ job[a].name \in Name \cup {Nothing}
         /\ job[a].rev \in Nat
BY DEF TypeOK, ChangeRow

LEMMA MessageIs ==
  ASSUME TypeOK, NEW b \in Beat, beat[b] # Nothing
  PROVE  /\ beat[b] \in BeatRow /\ beat[b].who \in Probe /\ beat[b].out \in SUBSET Item
         /\ beat[b].announced \in Nat /\ beat[b].floor \in Nat /\ beat[b].rev \in Nat
         /\ beat[b].replace \in BOOLEAN /\ beat[b].awaited \in BOOLEAN
         /\ beat[b].rows \in SUBSET Told
BY DEF TypeOK, BeatRow

\* A row, an entry and a line.
LEMMA RowIs ==
  ASSUME TypeOK, NEW i \in Id, table[i] # Nothing
  PROVE  table[i] \in Row /\ table[i].name \in Name /\ table[i].dead \in BOOLEAN /\ table[i].rev \in Nat \ {0}
BY DEF TypeOK, Row

LEMMA EntryIs ==
  ASSUME TypeOK, NEW p \in Probe, NEW i \in Id, held[p][i] # Nothing
  PROVE  held[p][i] \in Entry /\ held[p][i].name \in Name /\ held[p][i].own \in BOOLEAN
BY DEF TypeOK, Entry, Lists

LEMMA LineIs ==
  ASSUME TypeOK, NEW p \in Probe
  PROVE  /\ line[p] \in Line /\ line[p].rev \in Nat /\ line[p].counted \in BOOLEAN
         /\ applied[p] \in Nat /\ held[p] \in Lists
BY DEF TypeOK, Line

LEMMA BaseIs ==
  ASSUME TypeOK, saved # Nothing
  PROVE  /\ saved \in Base /\ saved.rev \in Nat \ {0} /\ saved.purged \in Nat
         /\ saved.table \in [Id -> Row \cup {Nothing}] /\ saved.line \in [Probe -> Line]
BY DEF TypeOK, Base

\* A change that takes its row takes one of the table's type.
LEMMA WrittenIs ==
  ASSUME TypeOK, ChangesAreRead, NEW a \in Author, At(a, "write"), ~Refused(job[a])
  PROVE  Written(job[a]) \in Row /\ Written(job[a]).rev = job[a].rev
<1>1. job[a] # Nothing /\ job[a] \in ChangeRow /\ job[a].rev \in Nat \ {0} /\ job[a].name \in Name
      /\ job[a].id \in Id /\ job[a].kind \in {"insert", "update", "delete"}
  BY ChangeIs DEF At, ChangesAreRead, ChangeRow
<1>2. CASE job[a].kind = "insert"
  <2>1. Written(job[a]) = [name |-> job[a].name, dead |-> FALSE, rev |-> job[a].rev]
    BY <1>2 DEF Written
  <2> QED BY <1>1, <2>1 DEF Row
<1>3. CASE job[a].kind = "update"
  <2>1. table[job[a].id] \in Row
    BY <1>1, <1>3, RowIs DEF Refused
  <2>2. Written(job[a]) = [table[job[a].id] EXCEPT !.name = job[a].name, !.rev = job[a].rev]
    BY <1>3 DEF Written
  <2> QED BY <1>1, <2>1, <2>2 DEF Row
<1>4. CASE job[a].kind = "delete"
  <2>1. table[job[a].id] \in Row
    BY <1>1, <1>4, RowIs DEF Refused
  <2>2. Written(job[a]) = [table[job[a].id] EXCEPT !.dead = TRUE, !.rev = job[a].rev]
    BY <1>4 DEF Written
  <2> QED BY <1>1, <2>1, <2>2 DEF Row
<1> QED BY <1>1, <1>2, <1>3, <1>4

\* Only live rows are updated, and a change takes the identifier it names.
LEMMA WrittenSays ==
  ASSUME TypeOK, ChangesAreRead, NEW a \in Author, At(a, "write"), ~Refused(job[a])
  PROVE  /\ job[a].kind = "insert" => table[job[a].id] = Nothing /\ ~Written(job[a]).dead
         /\ job[a].kind = "update" => /\ table[job[a].id] # Nothing
                                      /\ Written(job[a]).dead = table[job[a].id].dead
         /\ job[a].kind = "delete" => table[job[a].id] # Nothing /\ Written(job[a]).dead
<1>1. job[a] # Nothing /\ job[a].id \in Id
  BY ChangeIs DEF At
<1>2. CASE job[a].kind = "insert"
  BY <1>2 DEF Written, Refused
<1>3. CASE job[a].kind = "update"
  <2>1. table[job[a].id] # Nothing /\ table[job[a].id] \in Row
    BY <1>1, <1>3, RowIs DEF Refused
  <2>2. Written(job[a]) = [table[job[a].id] EXCEPT !.name = job[a].name, !.rev = job[a].rev]
    BY <1>3 DEF Written
  <2> QED BY <1>3, <2>1, <2>2 DEF Row
<1>4. CASE job[a].kind = "delete"
  <2>1. table[job[a].id] # Nothing /\ table[job[a].id] \in Row
    BY <1>1, <1>4, RowIs DEF Refused
  <2>2. Written(job[a]) = [table[job[a].id] EXCEPT !.dead = TRUE, !.rev = job[a].rev]
    BY <1>4 DEF Written
  <2> QED BY <1>4, <2>1, <2>2 DEF Row
<1>5. job[a].kind \in {"insert", "update", "delete"}
  BY <1>1, ChangeIs DEF ChangeRow
<1> QED BY <1>2, <1>3, <1>4, <1>5

\* A row of job or of beat that is replaced by one of its type.
LEMMA JobPut ==
  ASSUME TypeOK, NEW a \in Author, NEW c \in ChangeRow \cup {Nothing}
  PROVE  [job EXCEPT ![a] = c] \in [Author -> ChangeRow \cup {Nothing}]
BY DEF TypeOK

LEMMA BeatPut ==
  ASSUME TypeOK, NEW b \in Beat, NEW m \in BeatRow \cup {Nothing}
  PROVE  [beat EXCEPT ![b] = m] \in [Beat -> BeatRow \cup {Nothing}]
BY DEF TypeOK

\* The operators' changes keep the types.
LEMMA AuthorTypes ==
  ASSUME TypeOK, ChangesAreRead, NEW a \in Author, AuthorSteps(a)
  PROVE  TypeOK'
<1>1. CASE Looks(a)
  <2>1. job[a] # Nothing /\ job[a] \in ChangeRow /\ job[a].id \in Id
    BY <1>1, ChangeIs DEF Looks, At
  <2>2. job' \in [Author -> ChangeRow \cup {Nothing}]
    <3>1. CASE Wanted(job[a])
      <4> DEFINE n == IF job[a].name = Nothing THEN table[job[a].id].name ELSE job[a].name
                 c == [job[a] EXCEPT !.at = "read", !.name = n]
      <4>1. n \in Name \cup {Nothing}
        <5>1. CASE job[a].kind = "insert"
          BY <1>1, <2>1, <5>1, ChangeIs DEF Looks, At, ChangesAreRead
        <5>2. CASE job[a].kind # "insert"
          BY <2>1, <3>1, <5>2, ChangeIs, RowIs DEF Wanted, Live
        <5> QED BY <5>1, <5>2
      <4>2. c \in ChangeRow
        <5> HIDE DEF n
        <5> QED BY <2>1, <4>1 DEF ChangeRow
      <4>3. job' = [job EXCEPT ![a] = c]
        BY <1>1, <3>1 DEF Looks, TypeOK
      <4> HIDE DEF c
      <4> QED BY <4>2, <4>3, JobPut
    <3>2. CASE ~Wanted(job[a])
      BY <1>1, <3>2, JobPut DEF Looks, Ends
    <3> QED BY <3>1, <3>2
  <2> QED BY <1>1, <2>2 DEF TypeOK, Looks, probes, bounds, ghosts
<1>2. CASE ReadsRev(a)
  <2>1. job[a] # Nothing /\ job[a] \in ChangeRow
    BY <1>2, ChangeIs DEF ReadsRev, At
  <2> DEFINE c == [job[a] EXCEPT !.rev = rev + 1, !.at = "bump"]
  <2>5. rev + 1 \in Nat
    BY DEF TypeOK
  <2>2. c \in ChangeRow
    BY <2>1, <2>5 DEF ChangeRow
  <2>3. job' = [job EXCEPT ![a] = c]
    BY <1>2 DEF ReadsRev, TypeOK
  <2>4. job' \in [Author -> ChangeRow \cup {Nothing}]
    <3> HIDE DEF c
    <3> QED BY <2>2, <2>3, JobPut
  <2> QED BY <1>2, <2>4 DEF TypeOK, ReadsRev, probes, bounds, ghosts
<1>3. CASE Bumps(a)
  <2>1. job[a] # Nothing /\ job[a] \in ChangeRow /\ job[a].rev \in Nat \ {0}
    BY <1>3, ChangeIs DEF Bumps, At, ChangesAreRead
  <2> DEFINE c == [job[a] EXCEPT !.at = "write"]
  <2>2. c \in ChangeRow
    BY <2>1 DEF ChangeRow
  <2>3. job' = [job EXCEPT ![a] = c]
    BY <1>3 DEF Bumps, TypeOK
  <2>4. job' \in [Author -> ChangeRow \cup {Nothing}]
    <3> HIDE DEF c
    <3> QED BY <2>2, <2>3, JobPut
  <2>5. disturbed' \in BOOLEAN /\ rev' \in Nat \ {0}
    BY <1>3, <2>1 DEF Bumps
  <2> QED BY <1>3, <2>4, <2>5 DEF TypeOK, Bumps, probes, bounds
<1>4. CASE Writes(a)
  <2>1. job[a] # Nothing /\ job[a].id \in Id
    BY <1>4, ChangeIs DEF Writes, At
  <2>2. job' \in [Author -> ChangeRow \cup {Nothing}]
    BY <1>4, JobPut DEF Writes, Ends
  <2>3. table' \in [Id -> Row \cup {Nothing}] /\ erased' \in SUBSET Id
    <3>1. CASE Refused(job[a])
      BY <1>4, <3>1 DEF Writes, TypeOK
    <3>2. CASE ~Refused(job[a])
      <4>1. Written(job[a]) \in Row
        BY <1>4, <3>2, WrittenIs DEF Writes
      <4>2. table' = [table EXCEPT ![job[a].id] = Written(job[a])]
        BY <1>4, <3>2 DEF Writes
      <4>3. erased' \in SUBSET Id
        BY <1>4, <2>1, <3>2 DEF Writes, TypeOK
      <4> QED BY <4>1, <4>2, <4>3 DEF TypeOK
    <3> QED BY <3>1, <3>2
  <2> QED BY <1>4, <2>2, <2>3 DEF TypeOK, Writes, probes, bounds
<1> QED BY <1>1, <1>2, <1>3, <1>4 DEF AuthorSteps

\* What is said of held profiles.
LEMMA EntriesAre ==
  ASSUME TypeOK, NEW p \in Probe, NEW ids \in SUBSET Held(p)
  PROVE  Entries(p, ids) \in SUBSET Item /\ \A e \in Entries(p, ids) : e.id \in ids
<1>1. \A i \in ids : i \in Id /\ held[p][i].name \in Name
  BY EntryIs DEF Held
<1> QED BY <1>1 DEF Entries, Item

\* A new message has its type.
LEMMA MessageNew ==
  ASSUME TypeOK, NEW p \in Probe, NEW kind \in {"heartbeat", "deposit"}, NEW out \in SUBSET Item
  PROVE  Message(p, kind, out) \in BeatRow
<1>1. (kind = "heartbeat") \in BOOLEAN /\ (IF kind = "heartbeat" THEN applied[p] ELSE 0) \in Nat
  BY LineIs
<1> QED BY <1>1, Zenon DEF Message, BeatRow

\* The probes' messages keep the types.
LEMMA MessageTypes ==
  ASSUME TypeOK, NEW b \in Beat, BeatSteps(b) \/ GivesUp(b)
  PROVE  TypeOK'
<1>1. CASE Ingests(b)
  <2>1. beat[b] # Nothing /\ beat[b] \in BeatRow /\ beat[b].out \in SUBSET Item
    BY <1>1, MessageIs DEF Ingests, BeatAt
  <2>2. PICK e \in beat[b].out :
          /\ beat' = [beat EXCEPT ![b].out = @ \ {e}]
          /\ job' = [job EXCEPT ![b] = Change("insert", "look", e.id, e.name)]
    BY <1>1 DEF Ingests
  <2>3. e \in Item /\ e.id \in Id /\ e.name \in Name
    BY <2>1 DEF Item
  <2>4. Change("insert", "look", e.id, e.name) \in ChangeRow
    BY <2>3 DEF Change, ChangeRow
  <2>5. job' \in [Author -> ChangeRow \cup {Nothing}]
    BY <2>2, <2>4, JobPut DEF Author
  <2> DEFINE m == [beat[b] EXCEPT !.out = @ \ {e}]
  <2>6. m \in BeatRow
    BY <2>1 DEF BeatRow
  <2>7. beat' = [beat EXCEPT ![b] = m]
    BY <2>2 DEF TypeOK
  <2>8. beat' \in [Beat -> BeatRow \cup {Nothing}]
    <3> HIDE DEF m
    <3> QED BY <2>6, <2>7, BeatPut
  <2> QED BY <1>1, <2>5, <2>8 DEF TypeOK, Ingests, probes, bounds, ghosts
<1>2. CASE DepositEnds(b) \/ Discards(b)
  <2>1. beat' \in [Beat -> BeatRow \cup {Nothing}]
    BY <1>2, BeatPut DEF DepositEnds, Discards, BeatEnds
  <2> QED BY <1>2, <2>1 DEF TypeOK, DepositEnds, Discards, hub, probes, bounds, ghosts
<1>3. CASE Notes(b)
  <2>1. beat[b] # Nothing /\ beat[b] \in BeatRow /\ beat[b].who \in Probe /\ beat[b].announced \in Nat
    BY <1>3, MessageIs DEF Notes, Ingested, BeatAt
  <2>2. Noted(beat[b].announced) \in Nat
    BY <2>1, LesserRevision DEF Noted, TypeOK
  <2>3. line' \in [Probe -> Line]
    BY <1>3, <2>1, <2>2 DEF Notes, Line, TypeOK
  <2>4. Floor(line') \in Nat
    BY <2>3, FloorIs DEF TypeOK
  <2> DEFINE m == [beat[b] EXCEPT !.at = "prune", !.floor = Floor(line')]
  <2>5. m \in BeatRow
    BY <2>1, <2>4 DEF BeatRow
  <2>6. beat' = [beat EXCEPT ![b] = m]
    BY <1>3 DEF Notes, TypeOK
  <2>7. beat' \in [Beat -> BeatRow \cup {Nothing}]
    <3> HIDE DEF m
    <3> QED BY <2>5, <2>6, BeatPut
  <2>8. disturbed' \in BOOLEAN
    BY <1>3 DEF Notes
  <2> QED BY <1>3, <2>3, <2>7, <2>8 DEF TypeOK, Notes, probes, bounds
<1>4. CASE Prunes(b)
  <2>1. beat[b] # Nothing /\ beat[b] \in BeatRow
    BY <1>4, MessageIs DEF Prunes, BeatAt
  <2>2. table' \in [Id -> Row \cup {Nothing}]
    BY <1>4 DEF Prunes, TypeOK
  <2> DEFINE m == [beat[b] EXCEPT !.at = "since", !.floor = 0]
             n == [beat[b] EXCEPT !.at = "mark"]
  <2>3. m \in BeatRow /\ n \in BeatRow
    BY <2>1 DEF BeatRow
  <2>4. beat' = [beat EXCEPT ![b] = m] \/ beat' = [beat EXCEPT ![b] = n]
    BY <1>4 DEF Prunes, TypeOK
  <2>5. beat' \in [Beat -> BeatRow \cup {Nothing}]
    <3> HIDE DEF m, n
    <3> QED BY <2>3, <2>4, BeatPut
  <2>6. astray' \in SUBSET Id
    BY <1>4 DEF Prunes, Prunable, TypeOK
  <2> QED BY <1>4, <2>2, <2>5, <2>6 DEF TypeOK, Prunes, probes, bounds
<1>5. CASE Marks(b)
  <2>1. beat[b] # Nothing /\ beat[b] \in BeatRow /\ beat[b].floor \in Nat
    BY <1>5, MessageIs DEF Marks, BeatAt
  <2>2. purged' \in Nat
    <3>1. purged \in Nat /\ beat[b].floor + 1 \in Nat
      BY <2>1 DEF TypeOK
    <3>2. purged' = Max({purged, beat[b].floor + 1})
      BY <1>5 DEF Marks, Marked
    <3> QED BY <3>1, <3>2, GreaterRevision
  <2> DEFINE m == [beat[b] EXCEPT !.at = "since", !.floor = 0]
  <2>3. m \in BeatRow
    BY <2>1 DEF BeatRow
  <2>4. beat' = [beat EXCEPT ![b] = m]
    BY <1>5 DEF Marks, TypeOK
  <2>5. beat' \in [Beat -> BeatRow \cup {Nothing}]
    <3> HIDE DEF m
    <3> QED BY <2>3, <2>4, BeatPut
  <2> QED BY <1>5, <2>2, <2>5 DEF TypeOK, Marks, probes, bounds, ghosts
<1>6. CASE Compares(b)
  <2>1. beat[b] # Nothing /\ beat[b] \in BeatRow /\ rev \in Nat
    BY <1>6, MessageIs DEF Compares, BeatAt, TypeOK
  <2> DEFINE m == [beat[b] EXCEPT !.at = "replied", !.announced = 0]
             k == (beat[b].announced > rev \/ beat[b].announced < purged)
             n == [beat[b] EXCEPT !.at = "select", !.rev = rev, !.replace = k]
  <2>2. k \in BOOLEAN
    OBVIOUS
  <2>3. m \in BeatRow /\ n \in BeatRow
    <3> HIDE DEF k
    <3> QED BY <2>1, <2>2 DEF BeatRow
  <2>4. beat' = [beat EXCEPT ![b] = m] \/ beat' = [beat EXCEPT ![b] = n]
    BY <1>6 DEF Compares, TypeOK
  <2>5. beat' \in [Beat -> BeatRow \cup {Nothing}]
    <3> HIDE DEF m, n
    <3> QED BY <2>3, <2>4, BeatPut
  <2>6. disturbed' \in BOOLEAN
    BY <1>6 DEF Compares
  <2> QED BY <1>6, <2>5, <2>6 DEF TypeOK, Compares, hub, probes, bounds
<1>7. CASE Selects(b)
  <2>1. beat[b] # Nothing /\ beat[b] \in BeatRow
    BY <1>7, MessageIs DEF Selects, BeatAt
  <2> DEFINE K == {k \in Id : table[k] # Nothing /\ (beat[b].replace \/ table[k].rev > beat[b].announced)}
             rows == {[id |-> i, name |-> table[i].name, dead |-> table[i].dead] : i \in K}
             m == [beat[b] EXCEPT !.at = "replied", !.announced = 0, !.rows = rows]
  <2>2. rows \in SUBSET Told
    <3>1. \A i \in K : i \in Id /\ table[i].name \in Name /\ table[i].dead \in BOOLEAN
      BY RowIs
    <3> HIDE DEF K
    <3> QED BY <3>1 DEF Told
  <2>3. m \in BeatRow
    <3> HIDE DEF rows
    <3> QED BY <2>1, <2>2 DEF BeatRow
  <2>4. beat' = [beat EXCEPT ![b] = m]
    BY <1>7 DEF Selects, TypeOK
  <2>5. beat' \in [Beat -> BeatRow \cup {Nothing}]
    <3> HIDE DEF m
    <3> QED BY <2>3, <2>4, BeatPut
  <2> QED BY <1>7, <2>5 DEF TypeOK, Selects, hub, probes, bounds, ghosts
<1>8. CASE Aligns(b)
  <2>1. beat[b] # Nothing /\ beat[b].who \in Probe /\ beat[b].rev \in Nat /\ beat[b].rows \in SUBSET Told
    BY <1>8, MessageIs DEF Aligns, BeatAt
  <2>2. beat' \in [Beat -> BeatRow \cup {Nothing}]
    BY <1>8, BeatPut DEF Aligns, BeatEnds
  <2> DEFINE M == Merged(held[beat[b].who], beat[b].rows, beat[b].replace)
  <2>3. M \in Lists
    BY <2>1, LineIs, MergedType
  <2>4. held' = held \/ held' = [held EXCEPT ![beat[b].who] = M]
    BY <1>8 DEF Aligns, TypeOK
  <2>5. held' \in [Probe -> Lists]
    <3> HIDE DEF M
    <3> QED BY <2>1, <2>3, <2>4 DEF TypeOK
  <2>6. applied' \in [Probe -> Nat] /\ faults' \in Nat
    BY <1>8, <2>1 DEF Aligns, Fault, TypeOK
  <2> QED BY <1>8, <2>2, <2>5, <2>6 DEF TypeOK, Aligns, hub, ghosts
<1>9. CASE GivesUp(b)
  <2>1. beat[b] # Nothing /\ beat[b] \in BeatRow
    BY <1>9, MessageIs DEF GivesUp
  <2> DEFINE m == [beat[b] EXCEPT !.awaited = FALSE]
  <2>2. m \in BeatRow
    BY <2>1 DEF BeatRow
  <2>3. beat' = [beat EXCEPT ![b] = m]
    BY <1>9 DEF GivesUp, TypeOK
  <2>4. beat' \in [Beat -> BeatRow \cup {Nothing}]
    <3> HIDE DEF m
    <3> QED BY <2>2, <2>3, BeatPut
  <2>5. faults' \in Nat
    BY <1>9 DEF GivesUp, Fault, TypeOK
  <2> QED BY <1>9, <2>4, <2>5 DEF TypeOK, GivesUp, hub, probes, ghosts
<1> QED BY <1>1, <1>2, <1>3, <1>4, <1>5, <1>6, <1>7, <1>8, <1>9 DEF BeatSteps

\* What people do at the hub and at the probes keeps the types.
LEMMA PeopleTypes ==
  ASSUME TypeOK,
         \/ \E w \in Writer : Begins(w)
         \/ \E b \in Beat, p \in Probe : Sends(b, p) \/ Deposits(b, p)
         \/ \E p \in Probe : MakesHere(p) \/ EditsHere(p) \/ FallsSilent(p)
         \/ Saves
  PROVE  TypeOK'
<1>1. ASSUME NEW w \in Writer, Begins(w) PROVE TypeOK'
  <2>1. acts' \in Nat /\ fresh' \in SUBSET Id
    BY <1>1 DEF Begins, Act, TypeOK
  <2>2. PICK c \in ChangeRow : job' = [job EXCEPT ![w] = c]
    <3>1. \A kind \in {"insert", "update", "delete"}, at \in {"look", "read"}, i \in Id, n \in Name \cup {Nothing} :
            Change(kind, at, i, n) \in ChangeRow
      BY DEF Change, ChangeRow
    <3> QED BY <1>1, <3>1 DEF Begins, TypeOK
  <2>3. job' \in [Author -> ChangeRow \cup {Nothing}]
    BY <2>2, JobPut DEF Author
  <2> QED BY <1>1, <2>1, <2>3 DEF TypeOK, Begins, probes, ghosts
<1>2. ASSUME NEW b \in Beat, NEW p \in Probe, Sends(b, p) \/ Deposits(b, p) PROVE TypeOK'
  <2>1. Outgoing(p) \in SUBSET Item /\ Entries(p, Held(p)) \in SUBSET Item
    BY EntriesAre DEF Outgoing
  <2>2. beat' \in [Beat -> BeatRow \cup {Nothing}]
    BY <1>2, <2>1, MessageNew, BeatPut DEF Sends, Deposits
  <2>3. acts' \in Nat
    BY <1>2 DEF Sends, Deposits, Act, TypeOK, bounds
  <2> QED BY <1>2, <2>2, <2>3 DEF TypeOK, Sends, Deposits, hub, probes, bounds, ghosts
<1>3. ASSUME NEW p \in Probe, MakesHere(p) PROVE TypeOK'
  <2>1. acts' \in Nat
    BY <1>3 DEF MakesHere, Act, TypeOK
  <2>2. PICK i \in fresh, n \in Name :
          held' = [held EXCEPT ![p][i] = [name |-> n, own |-> TRUE]] /\ fresh' = fresh \ {i}
    BY <1>3 DEF MakesHere
  <2>3. [name |-> n, own |-> TRUE] \in Entry
    BY DEF Entry
  <2>4. held' \in [Probe -> Lists] /\ fresh' \in SUBSET Id
    BY <2>2, <2>3 DEF TypeOK, Lists
  <2> QED BY <1>3, <2>1, <2>4 DEF TypeOK, MakesHere, hub, ghosts
<1>4. ASSUME NEW p \in Probe, EditsHere(p) PROVE TypeOK'
  <2>1. acts' \in Nat /\ disturbed' \in BOOLEAN
    BY <1>4 DEF EditsHere, Act, TypeOK
  <2>2. PICK i \in Held(p) :
          \/ held' = [held EXCEPT ![p][i] = Nothing]
          \/ \E n \in Name : held' = [held EXCEPT ![p][i].name = n]
    BY <1>4 DEF EditsHere
  <2>3. i \in Id /\ held[p][i] # Nothing /\ held[p][i] \in Entry
    BY EntryIs DEF Held
  <2>4. \A n \in Name : [held[p][i] EXCEPT !.name = n] \in Entry
    BY <2>3 DEF Entry
  <2>5. \/ held' = [held EXCEPT ![p] = [held[p] EXCEPT ![i] = Nothing]]
        \/ \E n \in Name : held' = [held EXCEPT ![p] = [held[p] EXCEPT ![i] = [held[p][i] EXCEPT !.name = n]]]
    BY <2>2, <2>3 DEF TypeOK, Lists
  <2>6. held' \in [Probe -> Lists]
    <3>1. \A x \in Entry \cup {Nothing} : [held[p] EXCEPT ![i] = x] \in Lists
      BY <2>3 DEF TypeOK, Lists
    <3>2. \E x \in Entry \cup {Nothing} : held' = [held EXCEPT ![p] = [held[p] EXCEPT ![i] = x]]
      BY <2>4, <2>5
    <3>3. \E list \in Lists : held' = [held EXCEPT ![p] = list]
      BY <3>1, <3>2
    <3> QED BY <3>3 DEF TypeOK
  <2> QED BY <1>4, <2>1, <2>6 DEF TypeOK, EditsHere, hub
<1>5. ASSUME NEW p \in Probe, FallsSilent(p) PROVE TypeOK'
  <2>1. faults' \in Nat
    BY <1>5 DEF FallsSilent, Fault, TypeOK
  <2>2. line' \in [Probe -> Line]
    BY <1>5 DEF FallsSilent, Line, TypeOK
  <2> QED BY <1>5, <2>1, <2>2 DEF TypeOK, FallsSilent, probes, ghosts
<1>6. CASE Saves
  <2>1. acts' \in Nat /\ disturbed' \in BOOLEAN
    BY <1>6 DEF Saves, Act, TypeOK
  <2>2. saved' \in Base
    BY <1>6 DEF Saves, Base, TypeOK
  <2> QED BY <1>6, <2>1, <2>2 DEF TypeOK, Saves, hub, probes
<1> QED BY <1>1, <1>2, <1>3, <1>4, <1>5, <1>6

\* So do the hub's starts.
LEMMA StartTypes ==
  ASSUME TypeOK, Restarts \/ Restores
  PROVE  TypeOK'
<1> DEFINE here == [rev |-> rev, purged |-> purged, table |-> table, line |-> line]
<1>1. here \in Base
  BY DEF Base, TypeOK
<1>2. ASSUME NEW db \in Base, Starts(db) 
      PROVE  /\ rev' \in Nat \ {0} /\ purged' \in Nat /\ table' \in [Id -> Row \cup {Nothing}]
             /\ line' \in [Probe -> Line] /\ faults' \in Nat
             /\ job' \in [Author -> ChangeRow \cup {Nothing}] /\ beat' \in [Beat -> BeatRow \cup {Nothing}]
             /\ UNCHANGED <<held, applied, saved, fresh, acts>>
  <2>1. db.rev \in Nat \ {0} /\ db.table \in [Id -> Row \cup {Nothing}] /\ db.purged \in Nat /\ db.line \in [Probe -> Line]
    BY DEF Base
  <2>2. rev' \in Nat \ {0}
    BY <1>2, <2>1, LiftedIs DEF Starts
  <2>3. faults' \in Nat
    BY <1>2 DEF Starts, Fault, TypeOK
  <2> QED BY <1>2, <2>1, <2>2, <2>3 DEF Starts, probes
<1>3. CASE Restarts
  <2>1. Starts(here) /\ disturbed' \in BOOLEAN /\ UNCHANGED <<erased, astray>>
    BY <1>3 DEF Restarts
  <2> HIDE DEF here
  <2> QED BY <1>1, <1>2, <2>1 DEF TypeOK
<1>4. CASE Restores
  <2>1. saved \in Base /\ Starts(saved) /\ disturbed' \in BOOLEAN /\ erased' \in SUBSET Id /\ astray' = astray
    BY <1>4, BaseIs DEF Restores
  <2> QED BY <1>2, <2>1 DEF TypeOK
<1> QED BY <1>3, <1>4

-----------------------------------------------------------------------------
(* Changes are read, and fresh identifiers are new.                        *)

\* What a step of a change leaves of it.
LEMMA ChangeAfter ==
  ASSUME TypeOK, ChangesAreRead, NEW a \in Author, AuthorSteps(a)
  PROVE  /\ \A c \in Author \ {a} : job'[c] = job[c]
         /\ job[a] # Nothing
         /\ job'[a] # Nothing =>
              /\ job'[a].kind = job[a].kind /\ job'[a].id = job[a].id
              /\ job'[a].at # "look" /\ job'[a].name # Nothing
              /\ job'[a].at # "read" => job'[a].rev # 0
<1>1. job[a] # Nothing /\ job[a] \in ChangeRow /\ job \in [Author -> ChangeRow \cup {Nothing}]
  BY ChangeIs DEF TypeOK, AuthorSteps, Looks, ReadsRev, Bumps, Writes, At
<1>2. CASE Looks(a)
  <2>1. CASE Wanted(job[a])
    <3> DEFINE n == IF job[a].name = Nothing THEN table[job[a].id].name ELSE job[a].name
               c == [job[a] EXCEPT !.at = "read", !.name = n]
    <3>1. n # Nothing
      <4>1. CASE job[a].kind = "insert"
        BY <1>1, <4>1 DEF ChangesAreRead
      <4>2. CASE job[a].kind # "insert"
        BY <1>1, <2>1, <4>2, RowIs, ProfilesBounds DEF Wanted, Live
      <4> QED BY <4>1, <4>2
    <3>2. job' = [job EXCEPT ![a] = c]
      BY <1>2, <2>1, <1>1 DEF Looks
    <3>3. c.kind = job[a].kind /\ c.id = job[a].id /\ c.at = "read" /\ c.name = n
      <4> HIDE DEF n
      <4> QED BY <1>1 DEF ChangeRow
    <3> HIDE DEF c, n
    <3> QED BY <1>1, <3>1, <3>2, <3>3
  <2>2. CASE ~Wanted(job[a])
    BY <1>1, <1>2, <2>2 DEF Looks, Ends
  <2> QED BY <2>1, <2>2
<1>3. CASE ReadsRev(a)
  <2> DEFINE c == [job[a] EXCEPT !.rev = rev + 1, !.at = "bump"]
  <2>1. job' = [job EXCEPT ![a] = c]
    BY <1>1, <1>3 DEF ReadsRev
  <2>2. rev + 1 # 0
    BY DEF TypeOK
  <2>3. c.kind = job[a].kind /\ c.id = job[a].id /\ c.at = "bump" /\ c.name = job[a].name /\ c.rev = rev + 1
    BY <1>1 DEF ChangeRow
  <2>4. job[a].name # Nothing
    BY <1>1, <1>3 DEF ReadsRev, At, ChangesAreRead
  <2> HIDE DEF c
  <2> QED BY <1>1, <2>1, <2>2, <2>3, <2>4
<1>4. CASE Bumps(a)
  <2> DEFINE c == [job[a] EXCEPT !.at = "write"]
  <2>1. job' = [job EXCEPT ![a] = c]
    BY <1>1, <1>4 DEF Bumps
  <2>2. job[a].rev # 0 /\ job[a].name # Nothing
    BY <1>1, <1>4 DEF Bumps, At, ChangesAreRead
  <2>3. c.kind = job[a].kind /\ c.id = job[a].id /\ c.at = "write" /\ c.name = job[a].name /\ c.rev = job[a].rev
    BY <1>1 DEF ChangeRow
  <2> HIDE DEF c
  <2> QED BY <1>1, <2>1, <2>2, <2>3
<1>5. CASE Writes(a)
  BY <1>1, <1>5 DEF Writes, Ends
<1> QED BY <1>2, <1>3, <1>4, <1>5 DEF AuthorSteps

\* Who steps changes nothing else of the changes under way.
LEMMA JobElsewhere ==
  ASSUME [WritingNext]_profilesVars
  PROVE  \/ UNCHANGED job
         \/ \E w \in Writer : Begins(w)
         \/ \E a \in Author : AuthorSteps(a)
         \/ \E b \in Beat : Ingests(b)
         \/ job' = [a \in Author |-> Nothing]
<1>1. CASE UNCHANGED profilesVars
  BY <1>1 DEF profilesVars, hub
<1>2. ASSUME NEW b \in Beat, BeatSteps(b) \/ GivesUp(b), ~Ingests(b) PROVE UNCHANGED job
  BY <1>2 DEF BeatSteps, GivesUp, DepositEnds, Notes, Prunes, Marks, Compares, Selects, Aligns, Discards, hub
<1>3. ASSUME NEW b \in Beat, NEW p \in Probe, Sends(b, p) \/ Deposits(b, p) PROVE UNCHANGED job
  BY <1>3 DEF Sends, Deposits, hub
<1>4. ASSUME NEW p \in Probe, MakesHere(p) \/ EditsHere(p) \/ FallsSilent(p) PROVE UNCHANGED job
  BY <1>4 DEF MakesHere, EditsHere, FallsSilent, hub
<1>5. CASE Saves
  BY <1>5 DEF Saves, hub
<1>6. CASE Restarts \/ Restores
  BY <1>6 DEF Restarts, Restores, Starts
<1> QED BY <1>1, <1>2, <1>3, <1>4, <1>5, <1>6 DEF WritingNext

\* Changes stay read.
LEMMA ReadKept ==
  ASSUME TypeOK, ChangesAreRead, [WritingNext]_profilesVars
  PROVE  ChangesAreRead'
<1>0. job \in [Author -> ChangeRow \cup {Nothing}]
  BY DEF TypeOK
<1>1. CASE UNCHANGED job
  BY <1>1 DEF ChangesAreRead, At
<1>2. ASSUME NEW w \in Writer, Begins(w) PROVE ChangesAreRead'
  <2>1. \A kind, at, i, n : /\ Change(kind, at, i, n).kind = kind /\ Change(kind, at, i, n).at = at
                            /\ Change(kind, at, i, n).name = n
    BY DEF Change
  <2>2. ASSUME NEW kind, NEW at, NEW i, NEW n, job' = [job EXCEPT ![w] = Change(kind, at, i, n)],
               at \in {"look", "read"}, kind = "insert" \/ at # "look" => n # Nothing
        PROVE  ChangesAreRead'
    <3> DEFINE c == Change(kind, at, i, n)
    <3>1. c.kind = kind /\ c.at = at /\ c.name = n /\ job' = [job EXCEPT ![w] = c]
      BY <2>1, <2>2
    <3> HIDE DEF c
    <3> QED BY <1>0, <2>2, <3>1 DEF ChangesAreRead, At, Author
  <2>3. \/ \E i \in fresh, n \in Name : job' = [job EXCEPT ![w] = Change("insert", "read", i, n)]
        \/ \E i \in Id, n \in Name \cup {Nothing} : job' = [job EXCEPT ![w] = Change("update", "look", i, n)]
        \/ \E i \in Id : job' = [job EXCEPT ![w] = Change("delete", "look", i, Nothing)]
    BY <1>2 DEF Begins
  <2>4. CASE \E i \in fresh, n \in Name : job' = [job EXCEPT ![w] = Change("insert", "read", i, n)]
    BY <2>2, <2>4, ProfilesBounds
  <2>5. CASE \E i \in Id, n \in Name \cup {Nothing} : job' = [job EXCEPT ![w] = Change("update", "look", i, n)]
    BY <2>2, <2>5
  <2>6. CASE \E i \in Id : job' = [job EXCEPT ![w] = Change("delete", "look", i, Nothing)]
    BY <2>2, <2>6
  <2> QED BY <2>3, <2>4, <2>5, <2>6
<1>3. ASSUME NEW a \in Author, AuthorSteps(a) PROVE ChangesAreRead'
  BY <1>3, ChangeAfter DEF ChangesAreRead, At
<1>4. ASSUME NEW b \in Beat, Ingests(b) PROVE ChangesAreRead'
  <2>1. PICK e \in beat[b].out : job' = [job EXCEPT ![b] = Change("insert", "look", e.id, e.name)]
    BY <1>4 DEF Ingests
  <2>2. e.name # Nothing
    BY <1>4, MessageIs, ProfilesBounds DEF Ingests, BeatAt, Item
  <2>3. Change("insert", "look", e.id, e.name).at = "look" /\ Change("insert", "look", e.id, e.name).name = e.name
    BY DEF Change
  <2> QED BY <1>0, <2>1, <2>2, <2>3 DEF ChangesAreRead, At, Author
<1>5. CASE job' = [a \in Author |-> Nothing]
  BY <1>5 DEF ChangesAreRead, At
<1> QED BY <1>1, <1>2, <1>3, <1>4, <1>5, JobElsewhere

-----------------------------------------------------------------------------
(* What each variable is changed by.                                       *)

\* What can change the table.
LEMMA TableElsewhere ==
  ASSUME [WritingNext]_profilesVars
  PROVE  \/ UNCHANGED <<table, erased>>
         \/ \E b \in Beat : Prunes(b)
         \/ \E a \in Author : Writes(a)
         \/ Restores
<1>0. CASE UNCHANGED profilesVars
  BY <1>0 DEF profilesVars, hub, probes, bounds, ghosts
<1>1. ASSUME NEW b \in Beat, Ingests(b) \/ DepositEnds(b) \/ Notes(b) \/ Marks(b) \/
               Compares(b) \/ Selects(b) \/ Aligns(b) \/ Discards(b) \/ GivesUp(b)
      PROVE  UNCHANGED <<table, erased>>
  BY <1>1 DEF Ingests, DepositEnds, Notes, Marks, Compares, Selects, Aligns, Discards, GivesUp, hub, probes, bounds, ghosts
<1>2. ASSUME NEW b \in Beat, NEW p \in Probe, Sends(b, p) \/ Deposits(b, p)
      PROVE  UNCHANGED <<table, erased>>
  BY <1>2 DEF Sends, Deposits, hub, probes, bounds, ghosts
<1>3. ASSUME NEW a \in Author, Looks(a) \/ ReadsRev(a) \/ Bumps(a)
      PROVE  UNCHANGED <<table, erased>>
  BY <1>3 DEF Looks, ReadsRev, Bumps, hub, probes, bounds, ghosts
<1>4. ASSUME NEW w \in Writer, Begins(w)
      PROVE  UNCHANGED <<table, erased>>
  BY <1>4 DEF Begins, hub, probes, bounds, ghosts
<1>5. ASSUME NEW p \in Probe, MakesHere(p) \/ EditsHere(p) \/ FallsSilent(p)
      PROVE  UNCHANGED <<table, erased>>
  BY <1>5 DEF MakesHere, EditsHere, FallsSilent, hub, probes, bounds, ghosts
<1>6. ASSUME Saves \/ Restarts
      PROVE  UNCHANGED <<table, erased>>
  BY <1>6 DEF Saves, Restarts, Starts, hub, probes, bounds, ghosts
<1> QED BY <1>0, <1>1, <1>2, <1>3, <1>4, <1>5, <1>6 DEF WritingNext, AuthorSteps, BeatSteps

\* Only a backup changes what is saved.
LEMMA SavedElsewhere ==
  ASSUME [WritingNext]_profilesVars
  PROVE  \/ UNCHANGED saved
         \/ Saves
<1>0. CASE UNCHANGED profilesVars
  BY <1>0 DEF profilesVars, hub, probes, bounds, ghosts
<1>1. ASSUME NEW b \in Beat, Ingests(b) \/ DepositEnds(b) \/ Notes(b) \/ Prunes(b) \/
               Marks(b) \/ Compares(b) \/ Selects(b) \/ Aligns(b) \/ Discards(b) \/ GivesUp(b)
      PROVE  UNCHANGED saved
  BY <1>1 DEF Ingests, DepositEnds, Notes, Prunes, Marks, Compares, Selects, Aligns, Discards, GivesUp, hub, probes, bounds, ghosts
<1>2. ASSUME NEW b \in Beat, NEW p \in Probe, Sends(b, p) \/ Deposits(b, p)
      PROVE  UNCHANGED saved
  BY <1>2 DEF Sends, Deposits, hub, probes, bounds, ghosts
<1>3. ASSUME NEW a \in Author, Looks(a) \/ ReadsRev(a) \/ Bumps(a) \/ Writes(a)
      PROVE  UNCHANGED saved
  BY <1>3 DEF Looks, ReadsRev, Bumps, Writes, hub, probes, bounds, ghosts
<1>4. ASSUME NEW w \in Writer, Begins(w)
      PROVE  UNCHANGED saved
  BY <1>4 DEF Begins, hub, probes, bounds, ghosts
<1>5. ASSUME NEW p \in Probe, MakesHere(p) \/ EditsHere(p) \/ FallsSilent(p)
      PROVE  UNCHANGED saved
  BY <1>5 DEF MakesHere, EditsHere, FallsSilent, hub, probes, bounds, ghosts
<1>6. ASSUME Restarts \/ Restores
      PROVE  UNCHANGED saved
  BY <1>6 DEF Restarts, Restores, Starts, hub, probes, bounds, ghosts
<1> QED BY <1>0, <1>1, <1>2, <1>3, <1>4, <1>5, <1>6 DEF WritingNext, AuthorSteps, BeatSteps

\* What can change a probe's list and revision.
LEMMA HeldElsewhere ==
  ASSUME [WritingNext]_profilesVars
  PROVE  \/ UNCHANGED <<held, applied>>
         \/ \E b \in Beat : Aligns(b)
         \/ \E p \in Probe : MakesHere(p) \/ EditsHere(p)
<1>0. CASE UNCHANGED profilesVars
  BY <1>0 DEF profilesVars, hub, probes, bounds, ghosts
<1>1. ASSUME NEW b \in Beat, Ingests(b) \/ DepositEnds(b) \/ Notes(b) \/ Prunes(b) \/
               Marks(b) \/ Compares(b) \/ Selects(b) \/ Discards(b) \/ GivesUp(b)
      PROVE  UNCHANGED <<held, applied>>
  BY <1>1 DEF Ingests, DepositEnds, Notes, Prunes, Marks, Compares, Selects, Discards, GivesUp, hub, probes, bounds, ghosts
<1>2. ASSUME NEW b \in Beat, NEW p \in Probe, Sends(b, p) \/ Deposits(b, p)
      PROVE  UNCHANGED <<held, applied>>
  BY <1>2 DEF Sends, Deposits, hub, probes, bounds, ghosts
<1>3. ASSUME NEW a \in Author, Looks(a) \/ ReadsRev(a) \/ Bumps(a) \/ Writes(a)
      PROVE  UNCHANGED <<held, applied>>
  BY <1>3 DEF Looks, ReadsRev, Bumps, Writes, hub, probes, bounds, ghosts
<1>4. ASSUME NEW w \in Writer, Begins(w)
      PROVE  UNCHANGED <<held, applied>>
  BY <1>4 DEF Begins, hub, probes, bounds, ghosts
<1>5. ASSUME NEW p \in Probe, FallsSilent(p)
      PROVE  UNCHANGED <<held, applied>>
  BY <1>5 DEF FallsSilent, hub, probes, bounds, ghosts
<1>6. ASSUME Saves \/ Restarts \/ Restores
      PROVE  UNCHANGED <<held, applied>>
  BY <1>6 DEF Saves, Restarts, Restores, Starts, hub, probes, bounds, ghosts
<1> QED BY <1>0, <1>1, <1>2, <1>3, <1>4, <1>5, <1>6 DEF WritingNext, AuthorSteps, BeatSteps

\* What can change the revision.
LEMMA RevElsewhere ==
  ASSUME [WritingNext]_profilesVars
  PROVE  \/ UNCHANGED rev
         \/ \E a \in Author : Bumps(a)
         \/ Restarts \/ Restores
<1>0. CASE UNCHANGED profilesVars
  BY <1>0 DEF profilesVars, hub, probes, bounds, ghosts
<1>1. ASSUME NEW b \in Beat, Ingests(b) \/ DepositEnds(b) \/ Notes(b) \/ Prunes(b) \/
               Marks(b) \/ Compares(b) \/ Selects(b) \/ Aligns(b) \/ Discards(b) \/ GivesUp(b)
      PROVE  UNCHANGED rev
  BY <1>1 DEF Ingests, DepositEnds, Notes, Prunes, Marks, Compares, Selects, Aligns, Discards, GivesUp, hub, probes, bounds, ghosts
<1>2. ASSUME NEW b \in Beat, NEW p \in Probe, Sends(b, p) \/ Deposits(b, p)
      PROVE  UNCHANGED rev
  BY <1>2 DEF Sends, Deposits, hub, probes, bounds, ghosts
<1>3. ASSUME NEW a \in Author, Looks(a) \/ ReadsRev(a) \/ Writes(a)
      PROVE  UNCHANGED rev
  BY <1>3 DEF Looks, ReadsRev, Writes, hub, probes, bounds, ghosts
<1>4. ASSUME NEW w \in Writer, Begins(w)
      PROVE  UNCHANGED rev
  BY <1>4 DEF Begins, hub, probes, bounds, ghosts
<1>5. ASSUME NEW p \in Probe, MakesHere(p) \/ EditsHere(p) \/ FallsSilent(p)
      PROVE  UNCHANGED rev
  BY <1>5 DEF MakesHere, EditsHere, FallsSilent, hub, probes, bounds, ghosts
<1>6. ASSUME Saves
      PROVE  UNCHANGED rev
  BY <1>6 DEF Saves, hub, probes, bounds, ghosts
<1> QED BY <1>0, <1>1, <1>2, <1>3, <1>4, <1>5, <1>6 DEF WritingNext, AuthorSteps, BeatSteps

\* What draws an identifier.
LEMMA FreshElsewhere ==
  ASSUME [WritingNext]_profilesVars
  PROVE  \/ UNCHANGED fresh
         \/ \E w \in Writer : Begins(w)
         \/ \E p \in Probe : MakesHere(p)
<1>0. CASE UNCHANGED profilesVars
  BY <1>0 DEF profilesVars, hub, probes, bounds, ghosts
<1>1. ASSUME NEW b \in Beat, Ingests(b) \/ DepositEnds(b) \/ Notes(b) \/ Prunes(b) \/
               Marks(b) \/ Compares(b) \/ Selects(b) \/ Aligns(b) \/ Discards(b) \/ GivesUp(b)
      PROVE  UNCHANGED fresh
  BY <1>1 DEF Ingests, DepositEnds, Notes, Prunes, Marks, Compares, Selects, Aligns, Discards, GivesUp, hub, probes, bounds, ghosts
<1>2. ASSUME NEW b \in Beat, NEW p \in Probe, Sends(b, p) \/ Deposits(b, p)
      PROVE  UNCHANGED fresh
  BY <1>2 DEF Sends, Deposits, hub, probes, bounds, ghosts
<1>3. ASSUME NEW a \in Author, Looks(a) \/ ReadsRev(a) \/ Bumps(a) \/ Writes(a)
      PROVE  UNCHANGED fresh
  BY <1>3 DEF Looks, ReadsRev, Bumps, Writes, hub, probes, bounds, ghosts
<1>4. ASSUME NEW p \in Probe, EditsHere(p) \/ FallsSilent(p)
      PROVE  UNCHANGED fresh
  BY <1>4 DEF EditsHere, FallsSilent, hub, probes, bounds, ghosts
<1>5. ASSUME Saves \/ Restarts \/ Restores
      PROVE  UNCHANGED fresh
  BY <1>5 DEF Saves, Restarts, Restores, Starts, hub, probes, bounds, ghosts
<1> QED BY <1>0, <1>1, <1>2, <1>3, <1>4, <1>5 DEF WritingNext, AuthorSteps, BeatSteps

\* What is noted of a probe changes with its messages and its absences.
LEMMA LineElsewhere ==
  ASSUME [WritingNext]_profilesVars
  PROVE  \/ UNCHANGED line
         \/ \E b \in Beat : Notes(b)
         \/ \E p \in Probe : FallsSilent(p)
         \/ Restores
<1>0. CASE UNCHANGED profilesVars
  BY <1>0 DEF profilesVars, hub, probes, bounds, ghosts
<1>1. ASSUME NEW b \in Beat, Ingests(b) \/ DepositEnds(b) \/ Prunes(b) \/ Marks(b) \/
               Compares(b) \/ Selects(b) \/ Aligns(b) \/ Discards(b) \/ GivesUp(b)
      PROVE  UNCHANGED line
  BY <1>1 DEF Ingests, DepositEnds, Prunes, Marks, Compares, Selects, Aligns, Discards, GivesUp, hub, probes, bounds, ghosts
<1>2. ASSUME NEW b \in Beat, NEW p \in Probe, Sends(b, p) \/ Deposits(b, p)
      PROVE  UNCHANGED line
  BY <1>2 DEF Sends, Deposits, hub, probes, bounds, ghosts
<1>3. ASSUME NEW a \in Author, Looks(a) \/ ReadsRev(a) \/ Bumps(a) \/ Writes(a)
      PROVE  UNCHANGED line
  BY <1>3 DEF Looks, ReadsRev, Bumps, Writes, hub, probes, bounds, ghosts
<1>4. ASSUME NEW w \in Writer, Begins(w)
      PROVE  UNCHANGED line
  BY <1>4 DEF Begins, hub, probes, bounds, ghosts
<1>5. ASSUME NEW p \in Probe, MakesHere(p) \/ EditsHere(p)
      PROVE  UNCHANGED line
  BY <1>5 DEF MakesHere, EditsHere, hub, probes, bounds, ghosts
<1>6. ASSUME Saves \/ Restarts
      PROVE  UNCHANGED line
  BY <1>6 DEF Saves, Restarts, Starts, hub, probes, bounds, ghosts
<1> QED BY <1>0, <1>1, <1>2, <1>3, <1>4, <1>5, <1>6 DEF WritingNext, AuthorSteps, BeatSteps

\* What can raise the threshold.
LEMMA PurgedElsewhere ==
  ASSUME [WritingNext]_profilesVars
  PROVE  \/ UNCHANGED purged
         \/ \E b \in Beat : Marks(b)
         \/ Restores
<1>0. CASE UNCHANGED profilesVars
  BY <1>0 DEF profilesVars, hub, probes, bounds, ghosts
<1>1. ASSUME NEW b \in Beat, Ingests(b) \/ DepositEnds(b) \/ Notes(b) \/ Prunes(b) \/
               Compares(b) \/ Selects(b) \/ Aligns(b) \/ Discards(b) \/ GivesUp(b)
      PROVE  UNCHANGED purged
  BY <1>1 DEF Ingests, DepositEnds, Notes, Prunes, Compares, Selects, Aligns, Discards, GivesUp, hub, probes, bounds, ghosts
<1>2. ASSUME NEW b \in Beat, NEW p \in Probe, Sends(b, p) \/ Deposits(b, p)
      PROVE  UNCHANGED purged
  BY <1>2 DEF Sends, Deposits, hub, probes, bounds, ghosts
<1>3. ASSUME NEW a \in Author, Looks(a) \/ ReadsRev(a) \/ Bumps(a) \/ Writes(a)
      PROVE  UNCHANGED purged
  BY <1>3 DEF Looks, ReadsRev, Bumps, Writes, hub, probes, bounds, ghosts
<1>4. ASSUME NEW w \in Writer, Begins(w)
      PROVE  UNCHANGED purged
  BY <1>4 DEF Begins, hub, probes, bounds, ghosts
<1>5. ASSUME NEW p \in Probe, MakesHere(p) \/ EditsHere(p) \/ FallsSilent(p)
      PROVE  UNCHANGED purged
  BY <1>5 DEF MakesHere, EditsHere, FallsSilent, hub, probes, bounds, ghosts
<1>6. ASSUME Saves \/ Restarts
      PROVE  UNCHANGED purged
  BY <1>6 DEF Saves, Restarts, Starts, hub, probes, bounds, ghosts
<1> QED BY <1>0, <1>1, <1>2, <1>3, <1>4, <1>5, <1>6 DEF WritingNext, AuthorSteps, BeatSteps

\* Only a purge sets profiles apart.
LEMMA AstrayElsewhere ==
  ASSUME [WritingNext]_profilesVars
  PROVE  \/ UNCHANGED astray
         \/ \E b \in Beat : Prunes(b)
<1>0. CASE UNCHANGED profilesVars
  BY <1>0 DEF profilesVars, hub, probes, bounds, ghosts
<1>1. ASSUME NEW b \in Beat, Ingests(b) \/ DepositEnds(b) \/ Notes(b) \/ Marks(b) \/
               Compares(b) \/ Selects(b) \/ Aligns(b) \/ Discards(b) \/ GivesUp(b)
      PROVE  UNCHANGED astray
  BY <1>1 DEF Ingests, DepositEnds, Notes, Marks, Compares, Selects, Aligns, Discards, GivesUp, hub, probes, bounds, ghosts
<1>2. ASSUME NEW b \in Beat, NEW p \in Probe, Sends(b, p) \/ Deposits(b, p)
      PROVE  UNCHANGED astray
  BY <1>2 DEF Sends, Deposits, hub, probes, bounds, ghosts
<1>3. ASSUME NEW a \in Author, Looks(a) \/ ReadsRev(a) \/ Bumps(a) \/ Writes(a)
      PROVE  UNCHANGED astray
  BY <1>3 DEF Looks, ReadsRev, Bumps, Writes, hub, probes, bounds, ghosts
<1>4. ASSUME NEW w \in Writer, Begins(w)
      PROVE  UNCHANGED astray
  BY <1>4 DEF Begins, hub, probes, bounds, ghosts
<1>5. ASSUME NEW p \in Probe, MakesHere(p) \/ EditsHere(p) \/ FallsSilent(p)
      PROVE  UNCHANGED astray
  BY <1>5 DEF MakesHere, EditsHere, FallsSilent, hub, probes, bounds, ghosts
<1>6. ASSUME Saves \/ Restarts \/ Restores
      PROVE  UNCHANGED astray
  BY <1>6 DEF Saves, Restarts, Restores, Starts, hub, probes, bounds, ghosts
<1> QED BY <1>0, <1>1, <1>2, <1>3, <1>4, <1>5, <1>6 DEF WritingNext, AuthorSteps, BeatSteps

\* What can change the messages.
LEMMA BeatElsewhere ==
  ASSUME [WritingNext]_profilesVars
  PROVE  \/ UNCHANGED beat
         \/ \E b \in Beat : Ingests(b) \/ DepositEnds(b) \/ Notes(b) \/ Prunes(b) \/ Marks(b) \/ Compares(b) \/ Selects(b) \/ Aligns(b) \/ Discards(b) \/ GivesUp(b)
         \/ \E b \in Beat, p \in Probe : Sends(b, p) \/ Deposits(b, p)
         \/ Restarts \/ Restores
<1>0. CASE UNCHANGED profilesVars
  BY <1>0 DEF profilesVars, hub, probes, bounds, ghosts
<1>1. ASSUME NEW a \in Author, Looks(a) \/ ReadsRev(a) \/ Bumps(a) \/ Writes(a)
      PROVE  UNCHANGED beat
  BY <1>1 DEF Looks, ReadsRev, Bumps, Writes, hub, probes, bounds, ghosts
<1>2. ASSUME NEW w \in Writer, Begins(w)
      PROVE  UNCHANGED beat
  BY <1>2 DEF Begins, hub, probes, bounds, ghosts
<1>3. ASSUME NEW p \in Probe, MakesHere(p) \/ EditsHere(p) \/ FallsSilent(p)
      PROVE  UNCHANGED beat
  BY <1>3 DEF MakesHere, EditsHere, FallsSilent, hub, probes, bounds, ghosts
<1>4. ASSUME Saves
      PROVE  UNCHANGED beat
  BY <1>4 DEF Saves, hub, probes, bounds, ghosts
<1> QED BY <1>0, <1>1, <1>2, <1>3, <1>4 DEF WritingNext, AuthorSteps, BeatSteps

\* What a step of a message leaves of it: the others are as they were.
LEMMA MessageAfter ==
  ASSUME TypeOK, NEW b \in Beat, BeatSteps(b) \/ GivesUp(b)
  PROVE  /\ \A c \in Beat \ {b} : beat'[c] = beat[c]
         /\ beat[b] # Nothing
         /\ beat'[b] # Nothing =>
              /\ beat'[b].who = beat[b].who /\ beat'[b].kind = beat[b].kind
              /\ beat'[b].out \subseteq beat[b].out
              /\ Selects(b) \/ beat'[b].rows = beat[b].rows
<1>1. beat[b] # Nothing /\ beat[b] \in BeatRow /\ beat \in [Beat -> BeatRow \cup {Nothing}]
  BY MessageIs DEF TypeOK, BeatSteps, GivesUp, Ingests, DepositEnds, Ingested, Notes, Prunes, Marks,
                   Compares, Selects, Aligns, Discards, BeatAt
<1>2. CASE DepositEnds(b) \/ Discards(b) \/ Aligns(b)
  BY <1>1, <1>2 DEF DepositEnds, Discards, Aligns, BeatEnds
<1>3. CASE Ingests(b)
  <2>1. PICK e \in beat[b].out : beat' = [beat EXCEPT ![b].out = @ \ {e}]
    BY <1>3 DEF Ingests
  <2> DEFINE m == [beat[b] EXCEPT !.out = @ \ {e}]
  <2>2. m.who = beat[b].who /\ m.kind = beat[b].kind /\ m.out = beat[b].out \ {e} /\ m.rows = beat[b].rows
    BY <1>1 DEF BeatRow
  <2>3. beat' = [beat EXCEPT ![b] = m]
    BY <1>1, <2>1
  <2> HIDE DEF m
  <2> QED BY <1>1, <2>2, <2>3
<1>4. CASE Notes(b)
  <2> DEFINE m == [beat[b] EXCEPT !.at = "prune", !.floor = Floor(line')]
  <2>1. m.who = beat[b].who /\ m.kind = beat[b].kind /\ m.out = beat[b].out /\ m.rows = beat[b].rows
    BY <1>1 DEF BeatRow
  <2>2. beat' = [beat EXCEPT ![b] = m]
    BY <1>1, <1>4 DEF Notes
  <2> HIDE DEF m
  <2> QED BY <1>1, <2>1, <2>2
<1>5. CASE Prunes(b) \/ Marks(b)
  <2> DEFINE m == [beat[b] EXCEPT !.at = "since", !.floor = 0]
             n == [beat[b] EXCEPT !.at = "mark"]
  <2>1. /\ m.who = beat[b].who /\ m.kind = beat[b].kind /\ m.out = beat[b].out /\ m.rows = beat[b].rows
        /\ n.who = beat[b].who /\ n.kind = beat[b].kind /\ n.out = beat[b].out /\ n.rows = beat[b].rows
    BY <1>1 DEF BeatRow
  <2>2. beat' = [beat EXCEPT ![b] = m] \/ beat' = [beat EXCEPT ![b] = n]
    BY <1>1, <1>5 DEF Prunes, Marks
  <2> HIDE DEF m, n
  <2> QED BY <1>1, <2>1, <2>2
<1>6. CASE Compares(b)
  <2> DEFINE m == [beat[b] EXCEPT !.at = "replied", !.announced = 0]
             n == [beat[b] EXCEPT !.at = "select", !.rev = rev,
                     !.replace = beat[b].announced > rev \/ beat[b].announced < purged]
  <2>1. /\ m.who = beat[b].who /\ m.kind = beat[b].kind /\ m.out = beat[b].out /\ m.rows = beat[b].rows
        /\ n.who = beat[b].who /\ n.kind = beat[b].kind /\ n.out = beat[b].out /\ n.rows = beat[b].rows
    BY <1>1 DEF BeatRow
  <2>2. beat' = [beat EXCEPT ![b] = m] \/ beat' = [beat EXCEPT ![b] = n]
    BY <1>1, <1>6 DEF Compares
  <2> HIDE DEF m, n
  <2> QED BY <1>1, <2>1, <2>2
<1>7. CASE Selects(b)
  <2> DEFINE K == {k \in Id : table[k] # Nothing /\ (beat[b].replace \/ table[k].rev > beat[b].announced)}
             rows == {[id |-> i, name |-> table[i].name, dead |-> table[i].dead] : i \in K}
             m == [beat[b] EXCEPT !.at = "replied", !.announced = 0, !.rows = rows]
  <2>1. m.who = beat[b].who /\ m.kind = beat[b].kind /\ m.out = beat[b].out
    <3> HIDE DEF rows
    <3> QED BY <1>1 DEF BeatRow
  <2>2. beat' = [beat EXCEPT ![b] = m]
    BY <1>1, <1>7 DEF Selects
  <2> HIDE DEF m
  <2> QED BY <1>1, <1>7, <2>1, <2>2
<1>8. CASE GivesUp(b)
  <2> DEFINE m == [beat[b] EXCEPT !.awaited = FALSE]
  <2>1. m.who = beat[b].who /\ m.kind = beat[b].kind /\ m.out = beat[b].out /\ m.rows = beat[b].rows
    BY <1>1 DEF BeatRow
  <2>2. beat' = [beat EXCEPT ![b] = m]
    BY <1>1, <1>8 DEF GivesUp
  <2> HIDE DEF m
  <2> QED BY <1>1, <2>1, <2>2
<1> QED BY <1>2, <1>3, <1>4, <1>5, <1>6, <1>7, <1>8 DEF BeatSteps

\* Fresh identifiers stay new.
LEMMA FreshKept ==
  ASSUME TypeOK, ChangesAreRead, FreshIsNew, [WritingNext]_profilesVars
  PROVE  FreshIsNew'
<1>1. fresh' \subseteq fresh
  BY FreshElsewhere DEF Begins, MakesHere
<1>2. \A i \in fresh' : table'[i] = Nothing /\ i \notin erased'
  <2>1. CASE UNCHANGED <<table, erased>>
    BY <1>1, <2>1 DEF FreshIsNew
  <2>2. ASSUME NEW a \in Author, Writes(a) PROVE \A i \in fresh' : table'[i] = Nothing /\ i \notin erased'
    <3>1. job[a] # Nothing /\ job[a].id \in Id \ fresh
      BY <2>2, ChangeIs DEF Writes, At, FreshIsNew
    <3> QED BY <1>1, <2>2, <3>1 DEF FreshIsNew, Writes, TypeOK
  <2>3. ASSUME NEW b \in Beat, Prunes(b) PROVE \A i \in fresh' : table'[i] = Nothing /\ i \notin erased'
    BY <1>1, <2>3 DEF FreshIsNew, Prunes, TypeOK
  <2>4. CASE Restores
    BY <1>1, <2>4 DEF FreshIsNew, Restores, Starts, TypeOK
  <2> QED BY <2>1, <2>2, <2>3, <2>4, TableElsewhere
<1>3. \A i \in fresh' : saved' # Nothing => saved'.table[i] = Nothing
  <2>1. CASE UNCHANGED saved
    BY <1>1, <2>1 DEF FreshIsNew
  <2>2. CASE Saves
    BY <1>1, <2>2 DEF FreshIsNew, Saves
  <2> QED BY <2>1, <2>2, SavedElsewhere
<1>4. \A i \in fresh', p \in Probe : held'[p][i] = Nothing
  <2>1. CASE UNCHANGED <<held, applied>>
    BY <1>1, <2>1 DEF FreshIsNew
  <2>2. ASSUME NEW b \in Beat, Aligns(b) PROVE \A i \in fresh', p \in Probe : held'[p][i] = Nothing
    <3>1. beat[b] # Nothing /\ beat[b].who \in Probe
      BY <2>2, MessageIs DEF Aligns, BeatAt
    <3> DEFINE M == Merged(held[beat[b].who], beat[b].rows, beat[b].replace)
    <3>2. \A i \in fresh' : M[i] = Nothing
      <4>1. \A i \in fresh' : i \in Id /\ held[beat[b].who][i] = Nothing /\ \A r \in beat[b].rows : r.id # i
        BY <1>1, <3>1 DEF FreshIsNew, TypeOK
      <4> QED BY <4>1 DEF Merged
    <3>3. held' = held \/ held' = [held EXCEPT ![beat[b].who] = M]
      BY <2>2 DEF Aligns, TypeOK
    <3> HIDE DEF M
    <3> QED BY <1>1, <3>1, <3>2, <3>3 DEF FreshIsNew, TypeOK
  <2>3. ASSUME NEW q \in Probe, MakesHere(q) PROVE \A i \in fresh', p \in Probe : held'[p][i] = Nothing
    <3>1. PICK j \in fresh, n \in Name :
            held' = [held EXCEPT ![q][j] = [name |-> n, own |-> TRUE]] /\ fresh' = fresh \ {j}
      BY <2>3 DEF MakesHere
    <3> QED BY <3>1 DEF FreshIsNew, TypeOK, Lists
  <2>4. ASSUME NEW q \in Probe, EditsHere(q) PROVE \A i \in fresh', p \in Probe : held'[p][i] = Nothing
    <3>1. PICK j \in Held(q) :
            \/ held' = [held EXCEPT ![q][j] = Nothing]
            \/ \E n \in Name : held' = [held EXCEPT ![q][j].name = n]
      BY <2>4 DEF EditsHere
    <3>2. j \in Id /\ j \notin fresh
      BY DEF Held, FreshIsNew
    <3>3. /\ \A p \in Probe \ {q} : held'[p] = held[p]
          /\ \A i \in Id \ {j} : held'[q][i] = held[q][i]
      <4>1. CASE held' = [held EXCEPT ![q][j] = Nothing]
        BY <4>1 DEF TypeOK, Lists
      <4>2. ASSUME NEW n \in Name, held' = [held EXCEPT ![q][j].name = n]
            PROVE  /\ \A p \in Probe \ {q} : held'[p] = held[p]
                   /\ \A i \in Id \ {j} : held'[q][i] = held[q][i]
        BY <4>2 DEF TypeOK, Lists
      <4> QED BY <3>1, <4>1, <4>2
    <3>4. \A i \in fresh' : i \in Id \ {j} /\ \A p \in Probe : held[p][i] = Nothing
      BY <1>1, <3>2 DEF FreshIsNew, TypeOK
    <3> QED BY <3>3, <3>4
  <2> QED BY <2>1, <2>2, <2>3, <2>4, HeldElsewhere
<1>5. \A i \in fresh', a \in Author : job'[a] # Nothing => job'[a].id # i
  <2>0. job \in [Author -> ChangeRow \cup {Nothing}]
    BY DEF TypeOK
  <2>1. CASE UNCHANGED job
    BY <1>1, <2>1 DEF FreshIsNew
  <2>2. ASSUME NEW w \in Writer, Begins(w)
        PROVE \A i \in fresh', a \in Author : job'[a] # Nothing => job'[a].id # i
    <3>1. \A kind, at, i, n : Change(kind, at, i, n).id = i
      BY DEF Change
    <3>2. ASSUME NEW kind, NEW at, NEW j, NEW n, job' = [job EXCEPT ![w] = Change(kind, at, j, n)], j \notin fresh'
          PROVE  \A i \in fresh', a \in Author : job'[a] # Nothing => job'[a].id # i
      <4> DEFINE c == Change(kind, at, j, n)
      <4>1. c.id = j /\ job' = [job EXCEPT ![w] = c]
        BY <3>1, <3>2
      <4> HIDE DEF c
      <4> QED BY <1>1, <2>0, <3>2, <4>1 DEF FreshIsNew, Author
    <3>3. CASE \E i \in fresh, n \in Name : /\ job' = [job EXCEPT ![w] = Change("insert", "read", i, n)]
                                            /\ fresh' = fresh \ {i}
      BY <3>2, <3>3
    <3>4. CASE \E i \in Id \ fresh, n \in Name \cup {Nothing} :
                 job' = [job EXCEPT ![w] = Change("update", "look", i, n)] /\ UNCHANGED fresh
      BY <3>2, <3>4
    <3>5. CASE \E i \in Id \ fresh :
                 job' = [job EXCEPT ![w] = Change("delete", "look", i, Nothing)] /\ UNCHANGED fresh
      BY <3>2, <3>5
    <3> QED BY <2>2, <3>3, <3>4, <3>5 DEF Begins
  <2>3. ASSUME NEW a \in Author, AuthorSteps(a)
        PROVE  \A i \in fresh', c \in Author : job'[c] # Nothing => job'[c].id # i
    BY <1>1, <2>3, ChangeAfter DEF FreshIsNew
  <2>4. ASSUME NEW b \in Beat, Ingests(b)
        PROVE  \A i \in fresh', c \in Author : job'[c] # Nothing => job'[c].id # i
    <3>1. PICK e \in beat[b].out : job' = [job EXCEPT ![b] = Change("insert", "look", e.id, e.name)]
      BY <2>4 DEF Ingests
    <3>2. Change("insert", "look", e.id, e.name).id = e.id
      BY DEF Change
    <3>3. e.id \notin fresh
      BY <2>4 DEF Ingests, BeatAt, FreshIsNew
    <3> DEFINE c == Change("insert", "look", e.id, e.name)
    <3> HIDE DEF c
    <3> QED BY <1>1, <2>0, <3>1, <3>2, <3>3 DEF FreshIsNew, Author, c
  <2>5. CASE job' = [a \in Author |-> Nothing]
    BY <2>5
  <2> QED BY <2>1, <2>2, <2>3, <2>4, <2>5, JobElsewhere
<1>6. \A i \in fresh', b \in Beat : beat'[b] # Nothing =>
         (\A e \in beat'[b].out : e.id # i) /\ (\A r \in beat'[b].rows : r.id # i)
  <2>1. CASE UNCHANGED beat
    BY <1>1, <2>1 DEF FreshIsNew
  <2>2. ASSUME NEW b \in Beat, BeatSteps(b) \/ GivesUp(b), NEW i \in fresh', NEW c \in Beat, beat'[c] # Nothing
        PROVE  (\A e \in beat'[c].out : e.id # i) /\ (\A r \in beat'[c].rows : r.id # i)
    <3>1. CASE c # b
      BY <1>1, <2>2, <3>1, MessageAfter DEF FreshIsNew
    <3>2. CASE c = b
      <4>1. beat[b] # Nothing /\ beat'[b].out \subseteq beat[b].out /\ (Selects(b) \/ beat'[b].rows = beat[b].rows)
        BY <2>2, <3>2, MessageAfter
      <4>2. \A e \in beat'[c].out : e.id # i
        BY <1>1, <3>2, <4>1 DEF FreshIsNew
      <4>3. CASE beat'[b].rows = beat[b].rows
        BY <1>1, <3>2, <4>1, <4>2, <4>3 DEF FreshIsNew
      <4>4. CASE Selects(b)
        <5> DEFINE K == {k \in Id : table[k] # Nothing /\ (beat[b].replace \/ table[k].rev > beat[b].announced)}
                   rows == {[id |-> k, name |-> table[k].name, dead |-> table[k].dead] : k \in K}
                   m == [beat[b] EXCEPT !.at = "replied", !.announced = 0, !.rows = rows]
        <5>1. beat' = [beat EXCEPT ![b] = m]
          BY <4>4 DEF Selects, TypeOK
        <5>2. m.rows = rows
          <6> HIDE DEF rows
          <6> QED BY <4>1, MessageIs DEF BeatRow
        <5>3. beat'[b].rows = rows
          <6> HIDE DEF m, rows
          <6> QED BY <5>1, <5>2 DEF TypeOK
        <5>4. \A r \in rows : table[r.id] # Nothing
          OBVIOUS
        <5>5. table[i] = Nothing
          BY <1>1 DEF FreshIsNew
        <5> HIDE DEF rows, m
        <5> QED BY <3>2, <4>2, <5>3, <5>4, <5>5
      <4> QED BY <4>1, <4>3, <4>4
    <3> QED BY <3>1, <3>2
  <2>3. ASSUME NEW b \in Beat, NEW p \in Probe, Sends(b, p) \/ Deposits(b, p), NEW i \in fresh',
               NEW c \in Beat, beat'[c] # Nothing
        PROVE  (\A e \in beat'[c].out : e.id # i) /\ (\A r \in beat'[c].rows : r.id # i)
    <3>1. PICK kind \in {"heartbeat", "deposit"}, ids \in SUBSET Held(p) :
            beat' = [beat EXCEPT ![b] = Message(p, kind, Entries(p, ids))]
      BY <2>3 DEF Sends, Deposits, Outgoing
    <3> DEFINE m == Message(p, kind, Entries(p, ids))
    <3>2. m.out = Entries(p, ids) /\ m.rows = {}
      BY DEF Message
    <3>3. \A e \in Entries(p, ids) : e.id \in Held(p)
      BY EntriesAre
    <3>4. i \notin Held(p)
      BY <1>1 DEF FreshIsNew, Held
    <3> HIDE DEF m
    <3> QED BY <1>1, <2>3, <3>1, <3>2, <3>3, <3>4 DEF FreshIsNew, TypeOK, m
  <2>4. CASE beat' = [b \in Beat |-> Nothing]
    BY <2>4
  <2>5. Restarts \/ Restores => beat' = [b \in Beat |-> Nothing]
    BY DEF Restarts, Restores, Starts
  <2> QED BY <2>1, <2>2, <2>3, <2>4, <2>5, BeatElsewhere DEF BeatSteps
<1> QED BY <1>2, <1>3, <1>4, <1>5, <1>6 DEF FreshIsNew

-----------------------------------------------------------------------------
(* What each step of a message does to it.                                *)

\* The probe no longer waits.
LEMMA GivesUpDoes ==
  ASSUME TypeOK, NEW b \in Beat, GivesUp(b)
  PROVE  /\ \A c \in Beat \ {b} : beat'[c] = beat[c]
         /\ beat[b] # Nothing /\ beat'[b] # Nothing
         /\ beat'[b].who = beat[b].who /\ beat'[b].kind = beat[b].kind /\ beat'[b].awaited = FALSE
         /\ beat'[b].out = beat[b].out /\ beat'[b].at = beat[b].at /\ beat'[b].announced = beat[b].announced
         /\ beat'[b].floor = beat[b].floor /\ beat'[b].rev = beat[b].rev
         /\ beat'[b].replace = beat[b].replace /\ beat'[b].rows = beat[b].rows
<1>1. beat[b] # Nothing /\ beat[b] \in BeatRow /\ beat \in [Beat -> BeatRow \cup {Nothing}]
  BY MessageIs DEF TypeOK, GivesUp
<1> DEFINE m == [beat[b] EXCEPT !.awaited = FALSE]
<1>2. m \in BeatRow /\ m.who = beat[b].who /\ m.kind = beat[b].kind /\ m.awaited = FALSE /\ m.out = beat[b].out /\ m.at = beat[b].at /\ m.announced = beat[b].announced /\ m.floor = beat[b].floor /\ m.rev = beat[b].rev /\ m.replace = beat[b].replace /\ m.rows = beat[b].rows
  BY <1>1 DEF BeatRow
<1>3. beat' = [beat EXCEPT ![b] = m]
  BY <1>1 DEF GivesUp
<1> HIDE DEF m
<1> QED BY <1>1, <1>2, <1>3, ProfilesBounds

\* The message goes on to the purge, with its floor.
LEMMA NotesDoes ==
  ASSUME TypeOK, NEW b \in Beat, Notes(b)
  PROVE  /\ \A c \in Beat \ {b} : beat'[c] = beat[c]
         /\ beat[b] # Nothing /\ beat'[b] # Nothing
         /\ beat'[b].who = beat[b].who /\ beat'[b].kind = beat[b].kind /\ beat'[b].awaited = beat[b].awaited
         /\ beat'[b].out = beat[b].out /\ beat'[b].at = "prune" /\ beat'[b].announced = beat[b].announced
         /\ beat'[b].floor = Floor(line') /\ beat'[b].rev = beat[b].rev
         /\ beat'[b].replace = beat[b].replace /\ beat'[b].rows = beat[b].rows
<1>1. beat[b] # Nothing /\ beat[b] \in BeatRow /\ beat \in [Beat -> BeatRow \cup {Nothing}]
  BY MessageIs DEF TypeOK, Notes, Ingested, BeatAt
<1> DEFINE m == [beat[b] EXCEPT !.at = "prune", !.floor = Floor(line')]
<1>2. beat[b].who \in Probe /\ beat[b].announced \in Nat
  BY <1>1 DEF BeatRow
<1>3. Noted(beat[b].announced) \in Nat
  BY <1>2, LesserRevision DEF Noted, TypeOK
<1>4. line' \in [Probe -> Line]
  BY <1>2, <1>3 DEF Notes, Line, TypeOK
<1>5. Floor(line') \in Nat
  BY <1>4, FloorIs DEF TypeOK
<1>6. m \in BeatRow /\ m.who = beat[b].who /\ m.kind = beat[b].kind /\ m.awaited = beat[b].awaited /\ m.out = beat[b].out /\ m.at = "prune" /\ m.announced = beat[b].announced /\ m.floor = Floor(line') /\ m.rev = beat[b].rev /\ m.replace = beat[b].replace /\ m.rows = beat[b].rows
  BY <1>1, <1>2, <1>3, <1>4, <1>5 DEF BeatRow
<1>7. beat' = [beat EXCEPT ![b] = m]
  BY <1>1 DEF Notes, Ingested, BeatAt
<1> HIDE DEF m
<1> QED BY <1>1, <1>6, <1>7, ProfilesBounds

\* The threshold is raised: the message goes on.
LEMMA MarksDoes ==
  ASSUME TypeOK, NEW b \in Beat, Marks(b)
  PROVE  /\ \A c \in Beat \ {b} : beat'[c] = beat[c]
         /\ beat[b] # Nothing /\ beat'[b] # Nothing
         /\ beat'[b].who = beat[b].who /\ beat'[b].kind = beat[b].kind /\ beat'[b].awaited = beat[b].awaited
         /\ beat'[b].out = beat[b].out /\ beat'[b].at = "since" /\ beat'[b].announced = beat[b].announced
         /\ beat'[b].floor = 0 /\ beat'[b].rev = beat[b].rev
         /\ beat'[b].replace = beat[b].replace /\ beat'[b].rows = beat[b].rows
<1>1. beat[b] # Nothing /\ beat[b] \in BeatRow /\ beat \in [Beat -> BeatRow \cup {Nothing}]
  BY MessageIs DEF TypeOK, Marks, BeatAt
<1> DEFINE m == [beat[b] EXCEPT !.at = "since", !.floor = 0]
<1>2. m \in BeatRow /\ m.who = beat[b].who /\ m.kind = beat[b].kind /\ m.awaited = beat[b].awaited /\ m.out = beat[b].out /\ m.at = "since" /\ m.announced = beat[b].announced /\ m.floor = 0 /\ m.rev = beat[b].rev /\ m.replace = beat[b].replace /\ m.rows = beat[b].rows
  BY <1>1 DEF BeatRow
<1>3. beat' = [beat EXCEPT ![b] = m]
  BY <1>1 DEF Marks, BeatAt
<1> HIDE DEF m
<1> QED BY <1>1, <1>2, <1>3, ProfilesBounds

\* Nothing was to prune.
LEMMA PrunesNoneDoes ==
  ASSUME TypeOK, NEW b \in Beat, Prunes(b), Prunable(beat[b].floor) = {}
  PROVE  /\ \A c \in Beat \ {b} : beat'[c] = beat[c]
         /\ beat[b] # Nothing /\ beat'[b] # Nothing
         /\ beat'[b].who = beat[b].who /\ beat'[b].kind = beat[b].kind /\ beat'[b].awaited = beat[b].awaited
         /\ beat'[b].out = beat[b].out /\ beat'[b].at = "since" /\ beat'[b].announced = beat[b].announced
         /\ beat'[b].floor = 0 /\ beat'[b].rev = beat[b].rev
         /\ beat'[b].replace = beat[b].replace /\ beat'[b].rows = beat[b].rows
<1>1. beat[b] # Nothing /\ beat[b] \in BeatRow /\ beat \in [Beat -> BeatRow \cup {Nothing}]
  BY MessageIs DEF TypeOK, Prunes, BeatAt
<1> DEFINE m == [beat[b] EXCEPT !.at = "since", !.floor = 0]
<1>2. m \in BeatRow /\ m.who = beat[b].who /\ m.kind = beat[b].kind /\ m.awaited = beat[b].awaited /\ m.out = beat[b].out /\ m.at = "since" /\ m.announced = beat[b].announced /\ m.floor = 0 /\ m.rev = beat[b].rev /\ m.replace = beat[b].replace /\ m.rows = beat[b].rows
  BY <1>1 DEF BeatRow
<1>3. beat' = [beat EXCEPT ![b] = m]
  BY <1>1 DEF Prunes, BeatAt
<1> HIDE DEF m
<1> QED BY <1>1, <1>2, <1>3, ProfilesBounds

\* Something was pruned.
LEMMA PrunesSomeDoes ==
  ASSUME TypeOK, NEW b \in Beat, Prunes(b), Prunable(beat[b].floor) # {}
  PROVE  /\ \A c \in Beat \ {b} : beat'[c] = beat[c]
         /\ beat[b] # Nothing /\ beat'[b] # Nothing
         /\ beat'[b].who = beat[b].who /\ beat'[b].kind = beat[b].kind /\ beat'[b].awaited = beat[b].awaited
         /\ beat'[b].out = beat[b].out /\ beat'[b].at = "mark" /\ beat'[b].announced = beat[b].announced
         /\ beat'[b].floor = beat[b].floor /\ beat'[b].rev = beat[b].rev
         /\ beat'[b].replace = beat[b].replace /\ beat'[b].rows = beat[b].rows
<1>1. beat[b] # Nothing /\ beat[b] \in BeatRow /\ beat \in [Beat -> BeatRow \cup {Nothing}]
  BY MessageIs DEF TypeOK, Prunes, BeatAt
<1> DEFINE m == [beat[b] EXCEPT !.at = "mark"]
<1>2. m \in BeatRow /\ m.who = beat[b].who /\ m.kind = beat[b].kind /\ m.awaited = beat[b].awaited /\ m.out = beat[b].out /\ m.at = "mark" /\ m.announced = beat[b].announced /\ m.floor = beat[b].floor /\ m.rev = beat[b].rev /\ m.replace = beat[b].replace /\ m.rows = beat[b].rows
  BY <1>1 DEF BeatRow
<1>3. beat' = [beat EXCEPT ![b] = m]
  BY <1>1 DEF Prunes, BeatAt
<1> HIDE DEF m
<1> QED BY <1>1, <1>2, <1>3, ProfilesBounds

\* The probe announced the hub's revision.
LEMMA ComparesSameDoes ==
  ASSUME TypeOK, NEW b \in Beat, Compares(b), beat[b].announced = rev
  PROVE  /\ \A c \in Beat \ {b} : beat'[c] = beat[c]
         /\ beat[b] # Nothing /\ beat'[b] # Nothing
         /\ beat'[b].who = beat[b].who /\ beat'[b].kind = beat[b].kind /\ beat'[b].awaited = beat[b].awaited
         /\ beat'[b].out = beat[b].out /\ beat'[b].at = "replied" /\ beat'[b].announced = 0
         /\ beat'[b].floor = beat[b].floor /\ beat'[b].rev = beat[b].rev
         /\ beat'[b].replace = beat[b].replace /\ beat'[b].rows = beat[b].rows
<1>1. beat[b] # Nothing /\ beat[b] \in BeatRow /\ beat \in [Beat -> BeatRow \cup {Nothing}]
  BY MessageIs DEF TypeOK, Compares, BeatAt
<1> DEFINE m == [beat[b] EXCEPT !.at = "replied", !.announced = 0]
<1>2. m \in BeatRow /\ m.who = beat[b].who /\ m.kind = beat[b].kind /\ m.awaited = beat[b].awaited /\ m.out = beat[b].out /\ m.at = "replied" /\ m.announced = 0 /\ m.floor = beat[b].floor /\ m.rev = beat[b].rev /\ m.replace = beat[b].replace /\ m.rows = beat[b].rows
  BY <1>1 DEF BeatRow
<1>3. beat' = [beat EXCEPT ![b] = m]
  BY <1>1 DEF Compares, BeatAt
<1> HIDE DEF m
<1> QED BY <1>1, <1>2, <1>3, ProfilesBounds

\* The probe announced another revision.
LEMMA ComparesOtherDoes ==
  ASSUME TypeOK, NEW b \in Beat, Compares(b), beat[b].announced # rev
  PROVE  /\ \A c \in Beat \ {b} : beat'[c] = beat[c]
         /\ beat[b] # Nothing /\ beat'[b] # Nothing
         /\ beat'[b].who = beat[b].who /\ beat'[b].kind = beat[b].kind /\ beat'[b].awaited = beat[b].awaited
         /\ beat'[b].out = beat[b].out /\ beat'[b].at = "select" /\ beat'[b].announced = beat[b].announced
         /\ beat'[b].floor = beat[b].floor /\ beat'[b].rev = rev
         /\ beat'[b].replace = (beat[b].announced > rev \/ beat[b].announced < purged) /\ beat'[b].rows = beat[b].rows
<1>1. beat[b] # Nothing /\ beat[b] \in BeatRow /\ beat \in [Beat -> BeatRow \cup {Nothing}]
  BY MessageIs DEF TypeOK, Compares, BeatAt
<1> DEFINE m == [beat[b] EXCEPT !.at = "select", !.rev = rev, !.replace = (beat[b].announced > rev \/ beat[b].announced < purged)]
<1>2. rev \in Nat
  BY DEF TypeOK
<1>3. (beat[b].announced > rev \/ beat[b].announced < purged) \in BOOLEAN
  OBVIOUS
<1>4. m \in BeatRow /\ m.who = beat[b].who /\ m.kind = beat[b].kind /\ m.awaited = beat[b].awaited /\ m.out = beat[b].out /\ m.at = "select" /\ m.announced = beat[b].announced /\ m.floor = beat[b].floor /\ m.rev = rev /\ m.replace = (beat[b].announced > rev \/ beat[b].announced < purged) /\ m.rows = beat[b].rows
  BY <1>1, <1>2, <1>3 DEF BeatRow
<1>5. beat' = [beat EXCEPT ![b] = m]
  BY <1>1 DEF Compares, BeatAt
<1> HIDE DEF m
<1> QED BY <1>1, <1>4, <1>5, ProfilesBounds

\* What portscan_profiles_since tells of.
ToldOf(b) == {k \in Id : table[k] # Nothing /\ (beat[b].replace \/ table[k].rev > beat[b].announced)}

\* The answer is made of the rows the probe misses.
LEMMA SelectsDoes ==
  ASSUME TypeOK, NEW b \in Beat, Selects(b)
  PROVE  /\ \A c \in Beat \ {b} : beat'[c] = beat[c]
         /\ beat[b] # Nothing /\ beat'[b] # Nothing
         /\ beat'[b].who = beat[b].who /\ beat'[b].kind = beat[b].kind /\ beat'[b].awaited = beat[b].awaited
         /\ beat'[b].out = beat[b].out /\ beat'[b].at = "replied" /\ beat'[b].announced = 0
         /\ beat'[b].floor = beat[b].floor /\ beat'[b].rev = beat[b].rev /\ beat'[b].replace = beat[b].replace
         /\ beat'[b].rows \in SUBSET Told
         /\ \A r \in beat'[b].rows : r.id \in ToldOf(b) /\ r.name = table[r.id].name /\ r.dead = table[r.id].dead
         /\ \A i \in ToldOf(b) : \E r \in beat'[b].rows : r.id = i
         /\ \A r, q \in beat'[b].rows : r.id = q.id => r = q
<1>1. beat[b] # Nothing /\ beat[b] \in BeatRow /\ beat \in [Beat -> BeatRow \cup {Nothing}]
  BY MessageIs DEF TypeOK, Selects, BeatAt
<1> DEFINE K == ToldOf(b)
           rows == {[id |-> i, name |-> table[i].name, dead |-> table[i].dead] : i \in K}
           m == [beat[b] EXCEPT !.at = "replied", !.announced = 0, !.rows = rows]
<1>2. rows \in SUBSET Told
  <2>1. \A i \in K : i \in Id /\ table[i].name \in Name /\ table[i].dead \in BOOLEAN
    BY RowIs DEF ToldOf
  <2> HIDE DEF K
  <2> QED BY <2>1 DEF Told
<1>3. /\ m \in BeatRow /\ m.who = beat[b].who /\ m.kind = beat[b].kind /\ m.awaited = beat[b].awaited
      /\ m.out = beat[b].out /\ m.at = "replied" /\ m.announced = 0
      /\ m.floor = beat[b].floor /\ m.rev = beat[b].rev /\ m.replace = beat[b].replace /\ m.rows = rows
  <2> HIDE DEF rows
  <2> QED BY <1>1, <1>2 DEF BeatRow
<1>4. beat' = [beat EXCEPT ![b] = m]
  BY <1>1 DEF Selects, ToldOf
<1>5. /\ \A r \in rows : r.id \in K /\ r.name = table[r.id].name /\ r.dead = table[r.id].dead
      /\ \A i \in K : \E r \in rows : r.id = i
  <2>1. ASSUME NEW r \in rows PROVE r.id \in K /\ r.name = table[r.id].name /\ r.dead = table[r.id].dead
    <3>1. PICK i \in K : r = [id |-> i, name |-> table[i].name, dead |-> table[i].dead]
      OBVIOUS
    <3>2. r.id = i /\ r.name = table[i].name /\ r.dead = table[i].dead
      <4> HIDE DEF rows, K
      <4> QED BY <3>1
    <3> HIDE DEF K, rows
    <3> QED BY <3>1, <3>2
  <2>2. ASSUME NEW i \in K PROVE \E r \in rows : r.id = i
    <3>1. [id |-> i, name |-> table[i].name, dead |-> table[i].dead] \in rows
      OBVIOUS
    <3> HIDE DEF K, rows
    <3> QED BY <3>1
  <2> QED BY <2>1, <2>2
<1>6. \A r, q \in rows : r.id = q.id => r = q
  <2> HIDE DEF K
  <2> QED OBVIOUS
<1>7. beat'[b] = m /\ m # Nothing /\ \A c \in Beat \ {b} : beat'[c] = beat[c]
  <2> HIDE DEF m
  <2> QED BY <1>1, <1>3, <1>4, ProfilesBounds
<1> HIDE DEF m, rows
<1>8. beat'[b].rows = rows
  BY <1>3, <1>7
<1> QED BY <1>1, <1>2, <1>3, <1>5, <1>6, <1>7, <1>8

\* The hub takes a profile in.
LEMMA IngestsDoes ==
  ASSUME TypeOK, NEW b \in Beat, Ingests(b)
  PROVE  /\ \A c \in Beat \ {b} : beat'[c] = beat[c]
         /\ beat[b] # Nothing /\ beat'[b] # Nothing
         /\ beat'[b].who = beat[b].who /\ beat'[b].kind = beat[b].kind /\ beat'[b].awaited = beat[b].awaited
         /\ beat'[b].out \subseteq beat[b].out /\ beat'[b].at = beat[b].at /\ beat'[b].announced = beat[b].announced
         /\ beat'[b].floor = beat[b].floor /\ beat'[b].rev = beat[b].rev
         /\ beat'[b].replace = beat[b].replace /\ beat'[b].rows = beat[b].rows
         /\ \A c \in Author \ {b} : job'[c] = job[c]
         /\ \E e \in beat[b].out : job'[b] = Change("insert", "look", e.id, e.name)
<1>1. beat[b] # Nothing /\ beat[b] \in BeatRow /\ beat \in [Beat -> BeatRow \cup {Nothing}]
  BY MessageIs DEF TypeOK, Ingests, BeatAt
<1>2. PICK e \in beat[b].out :
        /\ beat' = [beat EXCEPT ![b].out = @ \ {e}]
        /\ job' = [job EXCEPT ![b] = Change("insert", "look", e.id, e.name)]
  BY DEF Ingests
<1> DEFINE m == [beat[b] EXCEPT !.out = @ \ {e}]
<1>3. /\ m \in BeatRow /\ m.who = beat[b].who /\ m.kind = beat[b].kind /\ m.awaited = beat[b].awaited
      /\ m.out = beat[b].out \ {e} /\ m.at = beat[b].at /\ m.announced = beat[b].announced
      /\ m.floor = beat[b].floor /\ m.rev = beat[b].rev /\ m.replace = beat[b].replace /\ m.rows = beat[b].rows
  BY <1>1 DEF BeatRow
<1>4. beat' = [beat EXCEPT ![b] = m]
  BY <1>1, <1>2
<1>5. b \in Author /\ job \in [Author -> ChangeRow \cup {Nothing}]
  BY DEF Author, TypeOK
<1>6. /\ \A c \in Author \ {b} : job'[c] = job[c]
      /\ \E e1 \in beat[b].out : job'[b] = Change("insert", "look", e1.id, e1.name)
  BY <1>2, <1>5
<1> HIDE DEF m
<1> QED BY <1>1, <1>3, <1>4, <1>6, ProfilesBounds

\* A message is over.
LEMMA EndsDoes ==
  ASSUME TypeOK, NEW b \in Beat, DepositEnds(b) \/ Discards(b) \/ Aligns(b)
  PROVE  beat[b] # Nothing /\ beat'[b] = Nothing /\ \A c \in Beat \ {b} : beat'[c] = beat[c]
BY DEF TypeOK, DepositEnds, Ingested, Discards, Aligns, BeatAt, BeatEnds

\* A message leaves.
LEMMA SendsDoes ==
  ASSUME TypeOK, NEW b \in Beat, NEW p \in Probe, Sends(b, p) \/ Deposits(b, p)
  PROVE  /\ \A c \in Beat \ {b} : beat'[c] = beat[c]
         /\ beat[b] = Nothing /\ beat'[b] # Nothing
         /\ beat'[b].who = p /\ beat'[b].at = "ingest" /\ beat'[b].floor = 0 /\ beat'[b].rev = 0
         /\ beat'[b].replace = FALSE /\ beat'[b].rows = {}
         /\ \A e \in beat'[b].out : e.id \in Held(p)
         /\ Sends(b, p) => /\ beat'[b].kind = "heartbeat" /\ beat'[b].awaited /\ beat'[b].announced = applied[p]
                           /\ Awaited(p) = {}
         /\ Deposits(b, p) => beat'[b].kind = "deposit" /\ ~beat'[b].awaited /\ beat'[b].announced = 0
<1>1. beat[b] = Nothing /\ beat \in [Beat -> BeatRow \cup {Nothing}]
  BY DEF TypeOK, Sends, Deposits
<1>2. PICK kind \in {"heartbeat", "deposit"}, ids \in SUBSET Held(p) :
        /\ beat' = [beat EXCEPT ![b] = Message(p, kind, Entries(p, ids))]
        /\ Sends(b, p) => kind = "heartbeat" /\ Awaited(p) = {}
        /\ Deposits(b, p) => kind = "deposit"
  <2>1. CASE Sends(b, p)
    <3>1. {i \in Held(p) : held[p][i].own} \in SUBSET Held(p)
      OBVIOUS
    <3>2. ~Deposits(b, p) \/ Deposits(b, p)
      OBVIOUS
    <3>3. Act => acts' # acts
      BY DEF Act, TypeOK
    <3>4. ~Deposits(b, p)
      BY <2>1, <3>3 DEF Sends, Deposits, bounds
    <3> QED BY <2>1, <3>1, <3>4 DEF Sends, Outgoing
  <2>2. CASE Deposits(b, p)
    <3>3. Act => acts' # acts
      BY DEF Act, TypeOK
    <3>4. ~Sends(b, p)
      BY <2>2, <3>3 DEF Sends, Deposits, bounds
    <3> QED BY <2>2, <3>4 DEF Deposits
  <2> QED BY <2>1, <2>2
<1> DEFINE m == Message(p, kind, Entries(p, ids))
<1>3. /\ m.who = p /\ m.at = "ingest" /\ m.floor = 0 /\ m.rev = 0 /\ m.replace = FALSE /\ m.rows = {}
      /\ m.kind = kind /\ m.out = Entries(p, ids)
      /\ m.awaited = (kind = "heartbeat") /\ m.announced = (IF kind = "heartbeat" THEN applied[p] ELSE 0)
  BY DEF Message
<1>4. m \in BeatRow
  BY EntriesAre, MessageNew
<1>5. \A e \in Entries(p, ids) : e.id \in Held(p)
  BY EntriesAre
<1> HIDE DEF m
<1>6. beat'[b] = m /\ \A c \in Beat \ {b} : beat'[c] = beat[c]
  BY <1>1, <1>2 DEF m
<1>7. beat'[b] # Nothing /\ \A e \in beat'[b].out : e.id \in Held(p)
  BY <1>3, <1>4, <1>5, <1>6, ProfilesBounds
<1>8. Sends(b, p) => /\ beat'[b].kind = "heartbeat" /\ beat'[b].awaited /\ beat'[b].announced = applied[p]
                     /\ Awaited(p) = {}
  BY <1>2, <1>3, <1>6
<1>9. Deposits(b, p) => beat'[b].kind = "deposit" /\ ~beat'[b].awaited /\ beat'[b].announced = 0
  BY <1>2, <1>3, <1>6
<1> QED BY <1>1, <1>3, <1>6, <1>7, <1>8, <1>9

-----------------------------------------------------------------------------
(* Messages are awaited one at a time.                                     *)

\* The base, the lists and what is noted stay while messages do, but for
\* absences and people at the probe.
LEMMA QuietMessages ==
  ASSUME [WritingNext]_profilesVars, UNCHANGED beat
  PROVE  /\ UNCHANGED applied \/ \E b \in Beat : Aligns(b)
         /\ UNCHANGED line \/ (\E p \in Probe : FallsSilent(p)) \/ Restores \/ \E b \in Beat : Notes(b)
BY HeldElsewhere, LineElsewhere DEF MakesHere, EditsHere

LEMMA AnswersKept ==
  ASSUME TypeOK, AnswersAreOne, [WritingNext]_profilesVars
  PROVE  AnswersAreOne'
<1>1. ASSUME NEW b \in Beat, BeatSteps(b) \/ GivesUp(b),
             beat'[b] # Nothing =>
               /\ beat'[b].who = beat[b].who /\ beat'[b].kind = beat[b].kind
               /\ beat'[b].awaited => beat[b].awaited
               /\ beat'[b].kind = "deposit" => beat'[b].at = "ingest"
               /\ \A r, q \in beat'[b].rows : r.id = q.id => r = q
               /\ beat'[b].at \notin {"select", "replied"} => beat'[b].rev = 0
               /\ beat'[b].at = "select" => beat'[b].rev # 0
               /\ beat'[b].awaited => /\ beat'[b].at # "ingest" => line'[beat[b].who].counted
                                      /\ beat'[b].at # "replied" => beat'[b].announced = applied[beat[b].who],
             \A p \in Probe : line[p].counted => line'[p].counted,
             UNCHANGED applied
      PROVE  AnswersAreOne'
  <2>1. beat[b] # Nothing /\ \A c \in Beat \ {b} : beat'[c] = beat[c]
    BY <1>1, MessageAfter
  <2>2. \A c, d \in Beat : beat'[c] # Nothing /\ beat'[d] # Nothing /\ beat'[c].awaited /\ beat'[d].awaited
                           /\ beat'[c].who = beat'[d].who => c = d
    BY <1>1, <2>1 DEF AnswersAreOne
  <2>3. ASSUME NEW c \in Beat \ {b}, beat'[c] # Nothing
        PROVE  /\ beat'[c].kind = "deposit" => beat'[c].at = "ingest"
               /\ \A r, q \in beat'[c].rows : r.id = q.id => r = q
               /\ beat'[c].at \notin {"select", "replied"} => beat'[c].rev = 0
               /\ beat'[c].at = "select" => beat'[c].rev # 0
               /\ beat'[c].awaited => /\ beat'[c].kind = "heartbeat"
                                      /\ beat'[c].at # "ingest" => line'[beat'[c].who].counted
                                      /\ beat'[c].at # "replied" => beat'[c].announced = applied'[beat'[c].who]
    <3>1. beat'[c] = beat[c] /\ beat[c].who \in Probe
      BY <2>1, <2>3, MessageIs
    <3> QED BY <1>1, <2>3, <3>1 DEF AnswersAreOne
  <2>4. beat'[b] # Nothing /\ beat'[b].awaited => beat'[b].kind = "heartbeat"
    BY <1>1, <2>1 DEF AnswersAreOne
  <2> QED BY <1>1, <2>2, <2>3, <2>4 DEF AnswersAreOne
<1>2. CASE UNCHANGED beat
  <2>1. CASE UNCHANGED <<line, applied>>
    BY <1>2, <2>1 DEF AnswersAreOne
  <2>2. ASSUME NEW p \in Probe, FallsSilent(p) PROVE AnswersAreOne'
    <3>1. /\ UNCHANGED applied /\ Awaited(p) = {}
          /\ \A q \in Probe \ {p} : line'[q] = line[q]
      BY <2>2 DEF FallsSilent, probes, TypeOK
    <3>2. \A b \in Beat : beat[b] # Nothing /\ beat[b].awaited => beat[b].who \in Probe \ {p}
      BY <3>1, MessageIs DEF Awaited
    <3> QED BY <1>2, <3>1, <3>2 DEF AnswersAreOne
  <2>3. ASSUME NEW b \in Beat, Aligns(b) \/ Notes(b) PROVE FALSE
    BY <1>2, <2>3, EndsDoes, NotesDoes DEF Notes, Ingested, BeatAt
  <2>4. CASE Restores
    <3>1. beat' = [b \in Beat |-> Nothing]
      BY <2>4 DEF Restores, Starts
    <3> QED BY <3>1 DEF AnswersAreOne
  <2> QED BY <1>2, <2>1, <2>2, <2>3, <2>4, QuietMessages
<1>3. ASSUME NEW b \in Beat, Ingests(b) PROVE AnswersAreOne'
  <2>1. UNCHANGED <<line, applied>>
    BY <1>3 DEF Ingests, probes
  <2> QED BY <1>1, <1>3, <2>1, IngestsDoes, MessageIs DEF AnswersAreOne, BeatSteps
<1>4. ASSUME NEW b \in Beat, DepositEnds(b) \/ Discards(b) PROVE AnswersAreOne'
  <2>1. UNCHANGED <<line, applied>>
    BY <1>4 DEF DepositEnds, Discards, hub, probes
  <2> QED BY <1>1, <1>4, <2>1, EndsDoes DEF BeatSteps
<1>5. ASSUME NEW b \in Beat, Notes(b) PROVE AnswersAreOne'
  <2>1. beat[b] # Nothing /\ beat[b].who \in Probe /\ beat[b].kind = "heartbeat" /\ beat[b].at = "ingest"
    BY <1>5, MessageIs DEF Notes, Ingested, BeatAt
  <2>2. UNCHANGED applied /\ line'[beat[b].who].counted /\ \A p \in Probe : line[p].counted => line'[p].counted
    BY <1>5, <2>1 DEF Notes, probes, TypeOK, Line
  <2> QED BY <1>1, <1>5, <2>1, <2>2, NotesDoes DEF AnswersAreOne, BeatSteps
<1>6. ASSUME NEW b \in Beat, Prunes(b) PROVE AnswersAreOne'
  <2>1. UNCHANGED <<line, applied>> /\ beat[b] # Nothing /\ beat[b].at = "prune"
    BY <1>6 DEF Prunes, probes, BeatAt
  <2>2. CASE Prunable(beat[b].floor) = {}
    BY <1>1, <1>6, <2>1, <2>2, PrunesNoneDoes, MessageIs DEF AnswersAreOne, BeatSteps
  <2>3. CASE Prunable(beat[b].floor) # {}
    BY <1>1, <1>6, <2>1, <2>3, PrunesSomeDoes, MessageIs DEF AnswersAreOne, BeatSteps
  <2> QED BY <2>2, <2>3
<1>7. ASSUME NEW b \in Beat, Marks(b) PROVE AnswersAreOne'
  <2>1. UNCHANGED <<line, applied>> /\ beat[b] # Nothing /\ beat[b].at = "mark"
    BY <1>7 DEF Marks, probes, BeatAt
  <2> QED BY <1>1, <1>7, <2>1, MarksDoes, MessageIs DEF AnswersAreOne, BeatSteps
<1>8. ASSUME NEW b \in Beat, Compares(b) PROVE AnswersAreOne'
  <2>1. UNCHANGED <<line, applied>> /\ beat[b] # Nothing /\ beat[b].at = "since"
    BY <1>8 DEF Compares, hub, probes, BeatAt
  <2>2. CASE beat[b].announced = rev
    BY <1>1, <1>8, <2>1, <2>2, ComparesSameDoes, MessageIs DEF AnswersAreOne, BeatSteps
  <2>3. CASE beat[b].announced # rev
    <3>1. rev # 0
      BY DEF TypeOK
    <3> QED BY <1>1, <1>8, <2>1, <2>3, <3>1, ComparesOtherDoes, MessageIs DEF AnswersAreOne, BeatSteps
  <2> QED BY <2>2, <2>3
<1>9. ASSUME NEW b \in Beat, Selects(b) PROVE AnswersAreOne'
  <2>1. UNCHANGED <<line, applied>> /\ beat[b] # Nothing /\ beat[b].at = "select"
    BY <1>9 DEF Selects, hub, probes, BeatAt
  <2> QED BY <1>1, <1>9, <2>1, SelectsDoes, MessageIs DEF AnswersAreOne, BeatSteps
<1>10. ASSUME NEW b \in Beat, GivesUp(b) PROVE AnswersAreOne'
  <2>1. UNCHANGED <<line, applied>> /\ beat[b] # Nothing
    BY <1>10 DEF GivesUp, hub, probes
  <2>2. ~beat'[b].awaited
    BY <1>10, GivesUpDoes
  <2>3. /\ beat'[b].who = beat[b].who /\ beat'[b].kind = beat[b].kind /\ beat'[b].at = beat[b].at
        /\ beat'[b].rev = beat[b].rev /\ beat'[b].rows = beat[b].rows
    BY <1>10, GivesUpDoes
  <2> QED BY <1>1, <1>10, <2>1, <2>2, <2>3 DEF AnswersAreOne
<1>11. ASSUME NEW b \in Beat, Aligns(b) PROVE AnswersAreOne'
  <2>1. UNCHANGED line /\ beat[b] # Nothing /\ beat[b].awaited /\ beat[b].who \in Probe
    BY <1>11, MessageIs DEF Aligns, hub, BeatAt
  <2>2. \A p \in Probe \ {beat[b].who} : applied'[p] = applied[p]
    BY <1>11 DEF Aligns, TypeOK
  <2>3. beat'[b] = Nothing /\ \A c \in Beat \ {b} : beat'[c] = beat[c]
    BY <1>11, EndsDoes
  <2>4. \A c \in Beat \ {b} : beat[c] # Nothing /\ beat[c].awaited => beat[c].who \in Probe \ {beat[b].who}
    BY <2>1, MessageIs DEF AnswersAreOne
  <2> QED BY <2>1, <2>2, <2>3, <2>4 DEF AnswersAreOne
<1>12. ASSUME NEW b \in Beat, NEW p \in Probe, Sends(b, p) \/ Deposits(b, p) PROVE AnswersAreOne'
  <2>1. UNCHANGED <<line, applied>>
    BY <1>12 DEF Sends, Deposits, hub, probes
  <2>2. \A c \in Beat \ {b} : Awaited(p) = {} => ~(beat[c] # Nothing /\ beat[c].awaited /\ beat[c].who = p)
    BY DEF Awaited
  <2>3. \A c \in Beat \ {b} : beat'[c] = beat[c]
    BY <1>12, SendsDoes
  <2>4. \A c, d \in Beat : beat'[c] # Nothing /\ beat'[d] # Nothing /\ beat'[c].awaited /\ beat'[d].awaited
                           /\ beat'[c].who = beat'[d].who => c = d
    <3>1. CASE Sends(b, p)
      <4>1. beat'[b].who = p /\ \A c \in Beat \ {b} : ~(beat[c] # Nothing /\ beat[c].awaited /\ beat[c].who = p)
        BY <2>2, <3>1, SendsDoes
      <4> QED BY <2>3, <4>1 DEF AnswersAreOne
    <3>2. CASE Deposits(b, p)
      <4>1. ~beat'[b].awaited
        BY <3>2, SendsDoes
      <4> QED BY <2>3, <4>1 DEF AnswersAreOne
    <3> QED BY <1>12, <3>1, <3>2
  <2>5. ASSUME NEW c \in Beat, beat'[c] # Nothing
        PROVE  /\ beat'[c].kind = "deposit" => beat'[c].at = "ingest"
               /\ \A r, q \in beat'[c].rows : r.id = q.id => r = q
               /\ beat'[c].at \notin {"select", "replied"} => beat'[c].rev = 0
               /\ beat'[c].at = "select" => beat'[c].rev # 0
               /\ beat'[c].awaited => /\ beat'[c].kind = "heartbeat"
                                      /\ beat'[c].at # "ingest" => line'[beat'[c].who].counted
                                      /\ beat'[c].at # "replied" => beat'[c].announced = applied'[beat'[c].who]
    <3>1. CASE c = b
      <4>1. beat'[b].at = "ingest" /\ beat'[b].rev = 0 /\ beat'[b].rows = {} /\ beat'[b].who = p
        BY <1>12, SendsDoes
      <4>2. beat'[b].awaited => beat'[b].kind = "heartbeat" /\ beat'[b].announced = applied[p]
        BY <1>12, SendsDoes
      <4>3. applied'[beat'[b].who] = applied[p]
        BY <2>1, <4>1
      <4> QED BY <3>1, <4>1, <4>2, <4>3
    <3>2. CASE c # b
      BY <2>1, <2>3, <2>5, <3>2 DEF AnswersAreOne
    <3> QED BY <3>1, <3>2
  <2> QED BY <2>4, <2>5 DEF AnswersAreOne
<1>13. CASE Restarts \/ Restores
  <2>1. beat' = [b \in Beat |-> Nothing]
    BY <1>13 DEF Restarts, Restores, Starts
  <2> QED BY <2>1 DEF AnswersAreOne
<1> QED BY <1>2, <1>3, <1>4, <1>5, <1>6, <1>7, <1>8, <1>9, <1>10, <1>11, <1>12, <1>13, BeatElsewhere

-----------------------------------------------------------------------------
(* The changes under way, in an orderly step.                              *)

\* A revision is read.
LEMMA ReadsDoes ==
  ASSUME TypeOK, NEW a \in Author, ReadsRev(a)
  PROVE  /\ \A c \in Author \ {a} : job'[c] = job[c]
         /\ job'[a] # Nothing /\ job'[a].at = "bump" /\ job'[a].rev = rev + 1
<1>1. job[a] # Nothing /\ job[a] \in ChangeRow /\ job \in [Author -> ChangeRow \cup {Nothing}] /\ rev + 1 \in Nat
  BY ChangeIs DEF TypeOK, ReadsRev, At
<1> DEFINE c == [job[a] EXCEPT !.rev = rev + 1, !.at = "bump"]
<1>2. job' = [job EXCEPT ![a] = c]
  BY <1>1 DEF ReadsRev
<1>3. c \in ChangeRow /\ c.at = "bump" /\ c.rev = rev + 1
  BY <1>1 DEF ChangeRow
<1> HIDE DEF c
<1> QED BY <1>1, <1>2, <1>3, ProfilesBounds

\* It becomes the hub's.  In order, no probe and no message has it.
LEMMA BumpsDoes ==
  ASSUME TypeOK, ChangesAreRead, NEW a \in Author, Bumps(a)
  PROVE  /\ \A c \in Author \ {a} : job'[c] = job[c]
         /\ At(a, "bump") /\ job'[a] # Nothing /\ job'[a].at = "write" /\ job'[a].rev = job[a].rev
         /\ rev' = job[a].rev /\ job[a].rev \in Nat \ {0}
         /\ UNCHANGED <<purged, table, line, beat, held, applied, saved, fresh, acts, faults, erased, astray>>
         /\ ~disturbed' => /\ \A p \in Probe : applied[p] < job[a].rev
                           /\ \A b \in Beat : beat[b] # Nothing => beat[b].announced < job[a].rev
<1>1. job[a] # Nothing /\ job[a] \in ChangeRow /\ job \in [Author -> ChangeRow \cup {Nothing}] /\ job[a].rev \in Nat \ {0}
  BY ChangeIs DEF TypeOK, Bumps, At, ChangesAreRead
<1> DEFINE c == [job[a] EXCEPT !.at = "write"]
<1>2. job' = [job EXCEPT ![a] = c]
  BY <1>1 DEF Bumps
<1>3. c \in ChangeRow /\ c.at = "write" /\ c.rev = job[a].rev
  BY <1>1 DEF ChangeRow
<1>4. ASSUME ~disturbed' PROVE /\ \A p \in Probe : applied[p] < job[a].rev
                               /\ \A b \in Beat : beat[b] # Nothing => beat[b].announced < job[a].rev
  <2>1. ~Reused(job[a].rev)
    BY <1>4 DEF Bumps
  <2>2. \A p \in Probe : applied[p] \in Nat /\ ~(applied[p] >= job[a].rev)
    BY <2>1, LineIs DEF Reused
  <2>3. \A b \in Beat : beat[b] # Nothing => beat[b].announced \in Nat /\ ~(beat[b].announced >= job[a].rev)
    BY <2>1, MessageIs DEF Reused
  <2> HIDE DEF c
  <2> QED BY <1>1, <2>2, <2>3
<1> HIDE DEF c
<1> QED BY <1>1, <1>2, <1>3, <1>4, ProfilesBounds DEF Bumps, probes, bounds

\* No other step puts a change on its way to the table.
LEMMA NoneUnderway ==
  ASSUME TypeOK, ChangesAreRead, [WritingNext]_profilesVars, \A a \in Author : ~ReadsRev(a) /\ ~Bumps(a)
  PROVE  \A c \in Author : job'[c] # Nothing /\ job'[c].at \in {"bump", "write"} => job'[c] = job[c]
<1>0. job \in [Author -> ChangeRow \cup {Nothing}]
  BY DEF TypeOK
<1>1. CASE UNCHANGED job
  BY <1>1
<1>2. ASSUME NEW w \in Writer, Begins(w), NEW c \in Author, job'[c] # Nothing, job'[c].at \in {"bump", "write"}
      PROVE  job'[c] = job[c]
  <2>1. \A kind, at, i, n : Change(kind, at, i, n).at = at
    BY DEF Change
  <2>2. PICK at \in {"look", "read"} : \E kind, i, n : job' = [job EXCEPT ![w] = Change(kind, at, i, n)]
    BY <1>2 DEF Begins
  <2>3. PICK kind, i, n : job' = [job EXCEPT ![w] = Change(kind, at, i, n)]
    BY <2>2
  <2> QED BY <1>0, <1>2, <2>1, <2>3 DEF Author
<1>3. ASSUME NEW a \in Author, Looks(a), NEW c \in Author, job'[c] # Nothing, job'[c].at \in {"bump", "write"}
      PROVE  job'[c] = job[c]
  <2>1. job[a] # Nothing /\ job[a] \in ChangeRow
    BY <1>3, ChangeIs DEF Looks, At
  <2>2. CASE Wanted(job[a])
    <3> DEFINE n == IF job[a].name = Nothing THEN table[job[a].id].name ELSE job[a].name
               d == [job[a] EXCEPT !.at = "read", !.name = n]
    <3>1. job' = [job EXCEPT ![a] = d]
      BY <1>0, <1>3, <2>2 DEF Looks
    <3>2. d.at = "read"
      <4> HIDE DEF n
      <4> QED BY <2>1 DEF ChangeRow
    <3> HIDE DEF d
    <3> QED BY <1>0, <1>3, <3>1, <3>2
  <2>3. CASE ~Wanted(job[a])
    BY <1>0, <1>3, <2>3 DEF Looks, Ends
  <2> QED BY <2>2, <2>3
<1>4. ASSUME NEW a \in Author, Writes(a), NEW c \in Author, job'[c] # Nothing, job'[c].at \in {"bump", "write"}
      PROVE  job'[c] = job[c]
  BY <1>0, <1>4 DEF Writes, Ends
<1>5. ASSUME NEW b \in Beat, Ingests(b), NEW c \in Author, job'[c] # Nothing, job'[c].at \in {"bump", "write"}
      PROVE  job'[c] = job[c]
  <2>1. \A kind, at, i, n : Change(kind, at, i, n).at = at
    BY DEF Change
  <2> QED BY <1>5, <2>1, IngestsDoes
<1>6. CASE job' = [a \in Author |-> Nothing]
  BY <1>6
<1> QED BY <1>1, <1>2, <1>3, <1>4, <1>5, <1>6, JobElsewhere DEF AuthorSteps

-----------------------------------------------------------------------------
(* The backup.                                                             *)

LEMMA BackupKept ==
  ASSUME Always, Orderliness, [WritingNext]_profilesVars, ~disturbed'
  PROVE  BackupIsOlder'
<1>0. TypeOK /\ ChangesAreRead /\ BackupIsOlder /\ RevisionsInOrder
  BY DEF Always, Orderliness
<1>1. CASE Saves
  <2>1. /\ saved'.rev = rev /\ saved'.table = table /\ saved'.line = line /\ Underway = {}
        /\ UNCHANGED <<rev, table, job>>
    BY <1>1 DEF Saves, hub
  <2>2. \A p \in Probe : line[p].rev <= rev
    BY <1>0 DEF RevisionsInOrder
  <2>3. \A a \in Author : ~At(a, "write") /\ ~At(a, "bump")
    BY <2>1 DEF Underway
  <2>4. rev <= rev
    BY <1>0 DEF TypeOK
  <2> QED BY <2>1, <2>2, <2>3, <2>4 DEF BackupIsOlder, Underway, At
<1>2. CASE UNCHANGED saved /\ saved # Nothing
  <2>0. /\ saved.rev \in Nat \ {0} /\ rev \in Nat \ {0} /\ saved.rev <= rev
        /\ \A p \in Probe : saved.line[p].rev <= saved.rev
        /\ \A a \in Underway : saved.rev < job[a].rev
        /\ rev = saved.rev =>
             /\ \A a \in Author : ~At(a, "write")
             /\ \A i \in Id : \/ table[i] = saved.table[i]
                              \/ table[i] = Nothing /\ saved.table[i] # Nothing /\ saved.table[i].dead
    BY <1>0, <1>2, BaseIs DEF BackupIsOlder, TypeOK
  <2>1. ASSUME NEW a \in Author, ReadsRev(a) PROVE BackupIsOlder'
    <3>1. UNCHANGED <<rev, table>>
      BY <2>1 DEF ReadsRev
    <3>2. \A c \in Author \ {a} : job'[c] = job[c]
      BY <1>0, <2>1, ReadsDoes
    <3>3. job'[a] # Nothing /\ job'[a].at = "bump" /\ job'[a].rev = rev + 1
      BY <1>0, <2>1, ReadsDoes
    <3>4. \A c \in Author : job'[c] # Nothing /\ job'[c].at = "write" => At(c, "write")
      BY <3>2, <3>3 DEF At
    <3>5. \A c \in Author : job'[c] # Nothing /\ job'[c].at \in {"bump", "write"} => saved.rev < job'[c].rev
      BY <2>0, <3>2, <3>3 DEF Underway, At
    <3> QED BY <1>2, <2>0, <3>1, <3>4, <3>5 DEF BackupIsOlder, Underway, At
  <2>2. ASSUME NEW a \in Author, Bumps(a) PROVE BackupIsOlder'
    <3>1. /\ \A c \in Author \ {a} : job'[c] = job[c]
          /\ At(a, "bump") /\ job'[a].rev = job[a].rev /\ rev' = job[a].rev /\ job[a].rev \in Nat \ {0}
      BY <1>0, <2>2, BumpsDoes
    <3>2. saved.rev < job[a].rev
      BY <2>0, <3>1 DEF Underway
    <3>3. \A c \in Author : job'[c] # Nothing /\ job'[c].at \in {"bump", "write"} => saved.rev < job'[c].rev
      BY <2>0, <3>1, <3>2 DEF Underway, At
    <3>4. saved.rev <= rev' /\ rev' # saved.rev
      BY <2>0, <3>1, <3>2
    <3> QED BY <1>2, <2>0, <3>3, <3>4 DEF BackupIsOlder, Underway, At
  <2>3. CASE \A a \in Author : ~ReadsRev(a) /\ ~Bumps(a)
    <3>1. \A c \in Author : job'[c] # Nothing /\ job'[c].at \in {"bump", "write"} => job'[c] = job[c]
      BY <1>0, <2>3, NoneUnderway
    <3>2. /\ \A c \in Author : job'[c] # Nothing /\ job'[c].at \in {"bump", "write"} => saved.rev < job'[c].rev
          /\ \A c \in Author : job'[c] # Nothing /\ job'[c].at = "write" => At(c, "write")
      BY <2>0, <3>1 DEF Underway, At
    <3>3. rev' \in Nat /\ saved.rev <= rev' /\ (rev' = saved.rev => rev = saved.rev \/ Restores)
      <4>1. CASE UNCHANGED rev
        BY <2>0, <4>1
      <4>2. CASE Restarts
        <5>1. rev' = Lifted(rev, table)
          BY <4>2 DEF Restarts, Starts
        <5>2. rev \in Nat \ {0} /\ table \in [Id -> Row \cup {Nothing}]
          BY <1>0 DEF TypeOK
        <5>3. Lifted(rev, table) \in Nat \ {0} /\ Lifted(rev, table) >= rev
          BY <5>2, LiftedIs
        <5> QED BY <2>0, <5>1, <5>3
      <4>3. CASE Restores
        <5>1. rev' = Lifted(saved.rev, saved.table)
          BY <4>3 DEF Restores, Starts
        <5> QED BY <1>0, <1>2, <2>0, <4>3, <5>1, LiftedIs, BaseIs
      <4> QED BY <2>3, <4>1, <4>2, <4>3, RevElsewhere
    <3>4. ASSUME rev' = saved.rev
          PROVE  /\ \A c \in Author : ~(job'[c] # Nothing /\ job'[c].at = "write")
                 /\ \A i \in Id : \/ table'[i] = saved.table[i]
                                  \/ table'[i] = Nothing /\ saved.table[i] # Nothing /\ saved.table[i].dead
      <4>1. CASE Restores
        BY <4>1 DEF Restores, Starts
      <4>2. CASE ~Restores
        <5>1. rev = saved.rev
          BY <3>3, <3>4, <4>2
        <5>2. \A c \in Author : ~At(c, "write")
          BY <2>0, <5>1
        <5>3. \A i \in Id : \/ table'[i] = table[i]
                            \/ table'[i] = Nothing /\ table[i] # Nothing /\ table[i].dead
          <6>1. CASE UNCHANGED <<table, erased>>
            BY <6>1
          <6>2. ASSUME NEW a \in Author, Writes(a) PROVE FALSE
            BY <5>2, <6>2 DEF Writes
          <6>3. ASSUME NEW b \in Beat, Prunes(b)
                PROVE  \A i \in Id : \/ table'[i] = table[i]
                                     \/ table'[i] = Nothing /\ table[i] # Nothing /\ table[i].dead
            BY <6>3 DEF Prunes, Prunable
          <6> QED BY <4>2, <6>1, <6>2, <6>3, TableElsewhere
        <5> QED BY <2>0, <3>2, <5>1, <5>2, <5>3
      <4> QED BY <4>1, <4>2
    <3> QED BY <1>2, <2>0, <3>2, <3>3, <3>4 DEF BackupIsOlder, Underway, At
  <2> QED BY <2>1, <2>2, <2>3
<1>3. CASE UNCHANGED saved /\ saved = Nothing
  BY <1>3 DEF BackupIsOlder
<1> QED BY <1>1, <1>2, <1>3, SavedElsewhere

-----------------------------------------------------------------------------
(* What is out of order stays so, and what else an orderly step tells.     *)

LEMMA OrderStays ==
  ASSUME TypeOK, [WritingNext]_profilesVars, ~disturbed'
  PROVE  ~disturbed
<1>0. disturbed \in BOOLEAN
  BY DEF TypeOK
<1>1. CASE UNCHANGED profilesVars
  BY <1>1 DEF profilesVars, ghosts
<1>2. ASSUME NEW w \in Writer, Begins(w) PROVE ~disturbed
  BY <1>2 DEF Begins, ghosts
<1>3. ASSUME NEW a \in Author, AuthorSteps(a) PROVE ~disturbed
  BY <1>3 DEF AuthorSteps, Looks, ReadsRev, Bumps, Writes, ghosts
<1>4. ASSUME NEW b \in Beat, BeatSteps(b) \/ GivesUp(b) PROVE ~disturbed
  BY <1>4 DEF BeatSteps, GivesUp, Ingests, DepositEnds, Notes, Prunes, Marks, Compares, Selects, Aligns, Discards, ghosts
<1>5. ASSUME NEW b \in Beat, NEW p \in Probe, Sends(b, p) \/ Deposits(b, p) PROVE ~disturbed
  BY <1>5 DEF Sends, Deposits, ghosts
<1>6. ASSUME NEW p \in Probe, MakesHere(p) \/ EditsHere(p) \/ FallsSilent(p) PROVE ~disturbed
  BY <1>6 DEF MakesHere, EditsHere, FallsSilent, ghosts
<1>7. CASE Saves \/ Restarts \/ Restores
  BY <1>7 DEF Saves, Restarts, Restores
<1> QED BY <1>1, <1>2, <1>3, <1>4, <1>5, <1>6, <1>7 DEF WritingNext

\* Only the write of a row, the purges, the backups and the starts touch what
\* the lists are compared with.
LEMMA HubElsewhere ==
  ASSUME [WritingNext]_profilesVars
  PROVE  \/ UNCHANGED <<rev, table, saved, erased, astray>>
         \/ \E a \in Author : Bumps(a) \/ Writes(a)
         \/ \E b \in Beat : Prunes(b)
         \/ Saves \/ Restarts \/ Restores
BY RevElsewhere, TableElsewhere, SavedElsewhere, AstrayElsewhere

\* A row takes the revision of the change that leaves it.
LEMMA WritesDoes ==
  ASSUME TypeOK, ChangesAreRead, NEW a \in Author, Writes(a)
  PROVE  /\ At(a, "write") /\ job[a] # Nothing /\ job[a].id \in Id /\ job[a].rev \in Nat
         /\ job'[a] = Nothing /\ \A c \in Author \ {a} : job'[c] = job[c]
         /\ UNCHANGED <<rev, purged, line, beat, held, applied, saved, fresh, acts, faults, astray, disturbed>>
         /\ \A i \in Id \ {job[a].id} : table'[i] = table[i]
         /\ \/ table'[job[a].id] = table[job[a].id]
            \/ table'[job[a].id] # Nothing /\ table'[job[a].id].rev = job[a].rev
         /\ \A i \in Id : table[i] # Nothing => table'[i] # Nothing
         /\ \A i \in erased' : i \in erased \/ table'[i] # Nothing
<1>1. job[a] # Nothing /\ job[a].id \in Id /\ job[a].rev \in Nat /\ At(a, "write")
  BY ChangeIs DEF Writes, At
<1>2. job'[a] = Nothing /\ \A c \in Author \ {a} : job'[c] = job[c]
  BY DEF Writes, Ends, TypeOK
<1>3. CASE Refused(job[a])
  <2>1. UNCHANGED <<table, erased>>
    BY <1>3 DEF Writes
  <2> QED BY <1>1, <1>2, <2>1 DEF Writes, probes, bounds
<1>4. CASE ~Refused(job[a])
  <2>1. Written(job[a]) # Nothing /\ Written(job[a]).rev = job[a].rev
    BY <1>1, <1>4, WrittenIs, ProfilesBounds
  <2>2. table' = [table EXCEPT ![job[a].id] = Written(job[a])]
    BY <1>4 DEF Writes
  <2>3. erased' \subseteq erased \cup {job[a].id}
    BY <1>4 DEF Writes
  <2>4. table'[job[a].id] = Written(job[a]) /\ \A i \in Id \ {job[a].id} : table'[i] = table[i]
    BY <1>1, <2>2 DEF TypeOK
  <2> QED BY <1>1, <1>2, <2>1, <2>3, <2>4 DEF Writes, probes, bounds
<1> QED BY <1>3, <1>4

-----------------------------------------------------------------------------
(* Revisions that were given are not given again.                          *)

LEMMA AheadKept ==
  ASSUME Always, Orderliness, [WritingNext]_profilesVars, NEW x \in Nat, Ahead(x),
         \A a \in Author : Bumps(a) => x < job[a].rev,
         \A a \in Author : At(a, "write") => x < rev
  PROVE  x > rev' =>
           /\ \A i \in Id : table'[i] # Nothing => table'[i].rev <= rev'
           /\ saved' # Nothing /\ saved'.rev <= rev'
           /\ \A i \in Id : saved'.table[i] # Nothing => saved'.table[i].rev <= rev'
           /\ \A a \in Author : job'[a] # Nothing /\ job'[a].at = "bump" => job'[a].rev <= x
<1>0. TypeOK /\ ChangesAreRead /\ BackupIsOlder /\ rev \in Nat \ {0}
  BY DEF Always, Orderliness, TypeOK
<1> SUFFICES ASSUME x > rev'
             PROVE  /\ \A i \in Id : table'[i] # Nothing => table'[i].rev <= rev'
                    /\ saved' # Nothing /\ saved'.rev <= rev'
                    /\ \A i \in Id : saved'.table[i] # Nothing => saved'.table[i].rev <= rev'
                    /\ \A a \in Author : job'[a] # Nothing /\ job'[a].at = "bump" => job'[a].rev <= x
  OBVIOUS
<1>1. CASE Restores
  <2>1. /\ saved # Nothing /\ rev' = Lifted(saved.rev, saved.table) /\ table' = saved.table /\ saved' = saved
        /\ job' = [a \in Author |-> Nothing]
    BY <1>1 DEF Restores, Starts
  <2>2. saved.rev \in Nat \ {0} /\ saved.table \in [Id -> Row \cup {Nothing}]
    BY <1>0, <2>1, BaseIs
  <2>3. /\ Lifted(saved.rev, saved.table) >= saved.rev /\ Lifted(saved.rev, saved.table) \in Nat
        /\ \A i \in Id : saved.table[i] # Nothing => saved.table[i].rev <= Lifted(saved.rev, saved.table)
    BY <2>2, LiftedIs
  <2> QED BY <2>1, <2>2, <2>3
<1>2. CASE Restarts
  <2>1. /\ rev' = Lifted(rev, table) /\ table' = table /\ saved' = saved
        /\ job' = [a \in Author |-> Nothing]
    BY <1>2 DEF Restarts, Starts
  <2>2. rev \in Nat \ {0} /\ table \in [Id -> Row \cup {Nothing}]
    BY <1>0 DEF TypeOK
  <2>3. /\ Lifted(rev, table) >= rev /\ Lifted(rev, table) \in Nat
        /\ \A i \in Id : table[i] # Nothing => table[i].rev <= Lifted(rev, table)
    BY <2>2, LiftedIs
  <2>4. x > rev
    BY <2>1, <2>2, <2>3
  <2>5. /\ saved # Nothing /\ saved.rev <= rev
        /\ \A i \in Id : saved.table[i] # Nothing => saved.table[i].rev <= rev
    BY <2>4 DEF Ahead
  <2>6. saved.rev \in Nat /\ \A i \in Id : saved.table[i] # Nothing => saved.table[i].rev \in Nat
    BY <1>0, <2>5, BaseIs DEF Row
  <2>7. saved.rev <= rev' /\ \A i \in Id : saved.table[i] # Nothing => saved.table[i].rev <= rev'
    BY <2>1, <2>2, <2>3, <2>5, <2>6
  <2> QED BY <2>1, <2>3, <2>5, <2>7
<1>3. ASSUME NEW a \in Author, Bumps(a) PROVE FALSE
  <2>1. rev' = job[a].rev /\ job[a].rev \in Nat
    BY <1>0, <1>3, BumpsDoes
  <2> QED BY <1>3, <2>1
<1>4. CASE UNCHANGED rev
  <2>1. x > rev
    BY <1>4
  <2>2. /\ \A i \in Id : table[i] # Nothing => table[i].rev <= rev
        /\ saved # Nothing /\ saved.rev <= rev
        /\ \A i \in Id : saved.table[i] # Nothing => saved.table[i].rev <= rev
        /\ \A a \in Author : At(a, "bump") => job[a].rev <= x
    BY <2>1 DEF Ahead
  <2>3. \A i \in Id : table'[i] # Nothing => table'[i].rev <= rev
    <3>1. CASE Restores
      <4>1. table' = saved.table
        BY <3>1 DEF Restores, Starts
      <4> QED BY <2>2, <4>1
    <3>2. ASSUME NEW a \in Author, Writes(a) PROVE FALSE
      BY <1>0, <2>1, <3>2 DEF Writes
    <3>3. ASSUME NEW b \in Beat, Prunes(b) PROVE \A i \in Id : table'[i] = Nothing \/ table'[i] = table[i]
      BY <3>3 DEF Prunes
    <3> QED BY <2>2, <3>1, <3>2, <3>3, TableElsewhere
  <2>4. /\ saved' # Nothing /\ saved'.rev <= rev
        /\ \A i \in Id : saved'.table[i] # Nothing => saved'.table[i].rev <= rev
    <3>1. CASE Saves
      <4>1. saved'.rev = rev /\ saved'.table = table /\ saved = Nothing
        BY <3>1 DEF Saves
      <4> QED BY <2>2, <4>1
    <3> QED BY <2>2, <3>1, SavedElsewhere
  <2>5. \A a \in Author : job'[a] # Nothing /\ job'[a].at = "bump" => job'[a].rev <= x
    <3>1. ASSUME NEW a \in Author, ReadsRev(a)
          PROVE  \A c \in Author : job'[c] # Nothing /\ job'[c].at = "bump" => job'[c].rev <= x
      <4>1. /\ \A c \in Author \ {a} : job'[c] = job[c]
            /\ job'[a].rev = rev + 1
        BY <1>0, <3>1, ReadsDoes
      <4>2. rev + 1 <= x
        BY <1>0, <2>1
      <4> QED BY <2>2, <4>1, <4>2 DEF At
    <3>2. CASE \A a \in Author : ~ReadsRev(a) /\ ~Bumps(a)
      <4>1. \A c \in Author : job'[c] # Nothing /\ job'[c].at \in {"bump", "write"} => job'[c] = job[c]
        BY <1>0, <3>2, NoneUnderway
      <4> QED BY <2>2, <4>1 DEF At
    <3> QED BY <1>3, <3>1, <3>2
  <2> QED BY <1>4, <2>3, <2>4, <2>5
<1> QED BY <1>1, <1>2, <1>3, <1>4, RevElsewhere

\* What made a message what it is now.
LEMMA MessageSteps ==
  ASSUME TypeOK, [WritingNext]_profilesVars, NEW b \in Beat, beat'[b] # Nothing
  PROVE  \/ beat'[b] = beat[b]
         \/ GivesUp(b) \/ Ingests(b) \/ Notes(b) \/ Prunes(b) \/ Marks(b) \/ Compares(b) \/ Selects(b)
         \/ \E p \in Probe : Sends(b, p) \/ Deposits(b, p)
<1>1. CASE UNCHANGED beat
  BY <1>1
<1>2. ASSUME NEW c \in Beat, c # b, BeatSteps(c) \/ GivesUp(c) PROVE beat'[b] = beat[b]
  BY <1>2, MessageAfter
<1>3. DepositEnds(b) \/ Aligns(b) \/ Discards(b) => FALSE
  BY EndsDoes
<1>4. ASSUME NEW c \in Beat, c # b, NEW p \in Probe, Sends(c, p) \/ Deposits(c, p) PROVE beat'[b] = beat[b]
  BY <1>4, SendsDoes
<1>5. Restarts \/ Restores => FALSE
  <2>1. Restarts \/ Restores => beat' = [c \in Beat |-> Nothing]
    BY DEF Restarts, Restores, Starts
  <2> QED BY <2>1
<1> QED BY <1>1, <1>2, <1>3, <1>4, <1>5, BeatElsewhere DEF BeatSteps

\* A message announces what it announced, nothing, or what its probe applied
\* when it left.
LEMMA AnnouncedAfter ==
  ASSUME TypeOK, [WritingNext]_profilesVars, NEW b \in Beat, beat'[b] # Nothing
  PROVE  /\ beat'[b].who \in Probe
         /\ \/ beat'[b].announced = 0
            \/ beat[b] # Nothing /\ beat'[b].who = beat[b].who /\ beat'[b].announced = beat[b].announced
            \/ Sends(b, beat'[b].who) /\ beat'[b].announced = applied[beat'[b].who]
<1>1. CASE beat'[b] = beat[b]
  BY <1>1, MessageIs
<1>2. CASE GivesUp(b)
  BY <1>2, GivesUpDoes, MessageIs
<1>3. CASE Ingests(b)
  BY <1>3, IngestsDoes, MessageIs
<1>4. CASE Notes(b)
  BY <1>4, NotesDoes, MessageIs
<1>5. CASE Prunes(b)
  <2>1. CASE Prunable(beat[b].floor) = {}
    BY <1>5, <2>1, PrunesNoneDoes, MessageIs
  <2>2. CASE Prunable(beat[b].floor) # {}
    BY <1>5, <2>2, PrunesSomeDoes, MessageIs
  <2> QED BY <2>1, <2>2
<1>6. CASE Marks(b)
  BY <1>6, MarksDoes, MessageIs
<1>7. CASE Compares(b)
  <2>1. CASE beat[b].announced = rev
    BY <1>7, <2>1, ComparesSameDoes, MessageIs
  <2>2. CASE beat[b].announced # rev
    BY <1>7, <2>2, ComparesOtherDoes, MessageIs
  <2> QED BY <2>1, <2>2
<1>8. CASE Selects(b)
  BY <1>8, SelectsDoes, MessageIs
<1>9. ASSUME NEW p \in Probe, Sends(b, p) \/ Deposits(b, p)
      PROVE  /\ beat'[b].who = p
             /\ beat'[b].announced = 0 \/ (Sends(b, p) /\ beat'[b].announced = applied[p])
  BY <1>9, SendsDoes
<1> QED BY <1>1, <1>2, <1>3, <1>4, <1>5, <1>6, <1>7, <1>8, <1>9, MessageSteps

\* An answer was one, or the hub just compared revisions.
LEMMA AnsweringAfter ==
  ASSUME TypeOK, AnswersAreOne, [WritingNext]_profilesVars, NEW b \in Beat,
         beat'[b] # Nothing, beat'[b].awaited, beat'[b].rev # 0
  PROVE  /\ beat[b] # Nothing /\ beat[b].awaited /\ beat'[b].who = beat[b].who
         /\ \/ /\ beat[b].rev # 0 /\ beat'[b].rev = beat[b].rev /\ beat'[b].replace = beat[b].replace
               /\ \/ beat'[b].at = beat[b].at /\ beat'[b].rows = beat[b].rows /\ beat'[b].announced = beat[b].announced
                  \/ Selects(b) /\ beat'[b].at = "replied"
            \/ Compares(b) /\ beat[b].announced # rev /\ beat'[b].rev = rev /\ beat'[b].at = "select"
<1>0. beat[b] # Nothing => /\ beat[b].at \notin {"select", "replied"} => beat[b].rev = 0
                           /\ beat[b].at = "select" => beat[b].rev # 0
  BY DEF AnswersAreOne
<1>1. CASE beat'[b] = beat[b]
  BY <1>0, <1>1
<1>2. CASE GivesUp(b)
  BY <1>0, <1>2, GivesUpDoes
<1>3. CASE Ingests(b)
  BY <1>0, <1>3, IngestsDoes DEF Ingests, BeatAt
<1>4. CASE Notes(b)
  BY <1>0, <1>4, NotesDoes DEF Notes, Ingested, BeatAt
<1>5. CASE Prunes(b)
  <2>1. CASE Prunable(beat[b].floor) = {}
    BY <1>0, <1>5, <2>1, PrunesNoneDoes DEF Prunes, BeatAt
  <2>2. CASE Prunable(beat[b].floor) # {}
    BY <1>0, <1>5, <2>2, PrunesSomeDoes DEF Prunes, BeatAt
  <2> QED BY <2>1, <2>2
<1>6. CASE Marks(b)
  BY <1>0, <1>6, MarksDoes DEF Marks, BeatAt
<1>7. CASE Compares(b)
  <2>1. CASE beat[b].announced = rev
    <3>1. beat[b] # Nothing /\ beat[b].at = "since"
      BY <1>7 DEF Compares, BeatAt
    <3>2. beat'[b].rev = beat[b].rev
      BY <1>7, <2>1, ComparesSameDoes
    <3> QED BY <1>0, <3>1, <3>2
  <2>2. CASE beat[b].announced # rev
    BY <1>0, <1>7, <2>2, ComparesOtherDoes
  <2> QED BY <2>1, <2>2
<1>8. CASE Selects(b)
  <2>1. beat[b] # Nothing /\ beat[b].at = "select"
    BY <1>8 DEF Selects, BeatAt
  <2>2. /\ beat'[b].rev = beat[b].rev /\ beat'[b].who = beat[b].who /\ beat'[b].awaited = beat[b].awaited
        /\ beat'[b].replace = beat[b].replace /\ beat'[b].at = "replied"
    BY <1>8, SelectsDoes
  <2> QED BY <1>8, <2>1, <2>2
<1>9. ASSUME NEW p \in Probe, Sends(b, p) \/ Deposits(b, p) PROVE FALSE
  BY <1>0, <1>9, SendsDoes
<1> QED BY <1>0, <1>1, <1>2, <1>3, <1>4, <1>5, <1>6, <1>7, <1>8, <1>9, MessageSteps

\* A change on its way to the table was, or took its revision just now.
LEMMA WritesUnderway ==
  ASSUME TypeOK, ChangesAreRead, [WritingNext]_profilesVars, NEW c \in Author, job'[c] # Nothing, job'[c].at = "write"
  PROVE  \/ Bumps(c)
         \/ At(c, "write") /\ job'[c] = job[c] /\ (UNCHANGED rev \/ \E a \in Author : Bumps(a))
<1>1. ASSUME NEW a \in Author, ReadsRev(a) PROVE At(c, "write") /\ job'[c] = job[c] /\ UNCHANGED rev
  <2>1. c # a /\ job'[c] = job[c]
    BY <1>1, ReadsDoes
  <2> QED BY <1>1, <2>1 DEF At, ReadsRev
<1>2. ASSUME NEW a \in Author, a # c, Bumps(a) PROVE At(c, "write") /\ job'[c] = job[c]
  BY <1>2, BumpsDoes DEF At
<1>3. CASE \A a \in Author : ~ReadsRev(a) /\ ~Bumps(a)
  <2>1. At(c, "write") /\ job'[c] = job[c]
    BY <1>3, NoneUnderway DEF At
  <2>2. ~Restarts /\ ~Restores
    BY DEF Restarts, Restores, Starts
  <2> QED BY <1>3, <2>1, <2>2, RevElsewhere
<1> QED BY <1>1, <1>2, <1>3

LEMMA ReusedKept ==
  ASSUME Always, Orderliness, [WritingNext]_profilesVars, ~disturbed'
  PROVE  NothingReused'
<1>0. TypeOK /\ ChangesAreRead /\ AnswersAreOne /\ NothingReused /\ RevisionsInOrder /\ rev \in Nat \ {0}
  BY DEF Always, Orderliness, TypeOK
<1> DEFINE After(x) ==
             x > rev' =>
               /\ \A i \in Id : table'[i] # Nothing => table'[i].rev <= rev'
               /\ saved' # Nothing /\ saved'.rev <= rev'
               /\ \A i \in Id : saved'.table[i] # Nothing => saved'.table[i].rev <= rev'
               /\ \A a \in Author : job'[a] # Nothing /\ job'[a].at = "bump" => job'[a].rev <= x
<1>1. ASSUME NEW p \in Probe PROVE After(applied[p])
  <2>1. applied[p] \in Nat /\ Ahead(applied[p]) /\ Bounded(p, applied[p])
    BY <1>0, LineIs DEF NothingReused, RevisionsInOrder
  <2>2. \A a \in Author : At(a, "write") => applied[p] < rev
    BY <2>1 DEF Bounded
  <2>3. \A a \in Author : Bumps(a) => applied[p] < job[a].rev
    BY <1>0, BumpsDoes
  <2> QED BY <2>1, <2>2, <2>3, AheadKept
<1>2. ASSUME NEW b \in Beat, beat[b] # Nothing PROVE After(beat[b].announced)
  <2>1. beat[b].announced \in Nat /\ Ahead(beat[b].announced)
    BY <1>0, <1>2, MessageIs DEF NothingReused
  <2>2. \A a \in Author : At(a, "write") => beat[b].announced < rev
    BY <1>0, <1>2 DEF NothingReused
  <2>3. \A a \in Author : Bumps(a) => beat[b].announced < job[a].rev
    BY <1>0, <1>2, BumpsDoes
  <2> QED BY <2>1, <2>2, <2>3, AheadKept
<1>3. rev' \in Nat \ {0}
  <2>1. rev' = rev \/ (\E a \in Author : Bumps(a)) \/ Restarts \/ Restores
    BY RevElsewhere
  <2>2. ASSUME NEW a \in Author, Bumps(a) PROVE rev' \in Nat \ {0}
    BY <1>0, <2>2, BumpsDoes
  <2>3. CASE Restarts \/ Restores
    BY <1>0, <2>3, StartTypes DEF TypeOK
  <2> QED BY <1>0, <2>1, <2>2, <2>3
<1>4. After(0)
  BY <1>3
<1>5. ASSUME NEW p \in Probe PROVE After(applied'[p])
  <2>1. CASE UNCHANGED applied
    BY <1>1, <2>1
  <2>2. ASSUME NEW b \in Beat, Aligns(b) PROVE After(applied'[p])
    <3>1. beat[b] # Nothing /\ beat[b].awaited /\ beat[b].who \in Probe /\ UNCHANGED rev /\ applied \in [Probe -> Nat]
      BY <1>0, <2>2, MessageIs DEF Aligns, BeatAt, hub, TypeOK
    <3>2. applied'[p] = applied[p] \/ (applied'[p] = beat[b].rev /\ beat[b].rev # 0)
      BY <2>2, <3>1 DEF Aligns
    <3>3. beat[b].rev # 0 => beat[b].rev <= rev /\ beat[b].rev \in Nat
      BY <1>0, <3>1, MessageIs DEF RevisionsInOrder, Answering
    <3>4. beat[b].rev # 0 => ~(beat[b].rev > rev')
      BY <1>0, <3>1, <3>3
    <3> HIDE DEF After
    <3>5. beat[b].rev # 0 => After(beat[b].rev)
      BY <3>4 DEF After
    <3> QED BY <1>1, <3>2, <3>5
  <2>3. ASSUME NEW q \in Probe, MakesHere(q) \/ EditsHere(q) PROVE UNCHANGED applied
    BY <2>3 DEF MakesHere, EditsHere
  <2> QED BY <2>1, <2>2, <2>3, HeldElsewhere
<1>6. ASSUME NEW b \in Beat, beat'[b] # Nothing PROVE After(beat'[b].announced)
  <2>1. beat'[b].who \in Probe /\ (beat'[b].announced = 0 \/ (beat[b] # Nothing /\ beat'[b].announced = beat[b].announced)
                                   \/ beat'[b].announced = applied[beat'[b].who])
    BY <1>0, <1>6, AnnouncedAfter
  <2> HIDE DEF After
  <2> QED BY <1>1, <1>2, <1>4, <2>1
<1>7. ASSUME NEW b \in Beat, beat'[b] # Nothing, NEW c \in Author, job'[c] # Nothing, job'[c].at = "write"
      PROVE  beat'[b].announced < job'[c].rev /\ beat'[b].announced < rev'
  <2>1. \A p \in Probe : applied[p] < job'[c].rev /\ applied[p] < rev'
    <3>1. CASE Bumps(c)
      BY <1>0, <3>1, BumpsDoes
    <3>2. CASE At(c, "write") /\ job'[c] = job[c]
      <4>1. \A p \in Probe : applied[p] < job[c].rev /\ applied[p] < rev
        BY <1>0, <3>2 DEF RevisionsInOrder, Bounded
      <4>2. ASSUME NEW a \in Author, Bumps(a) PROVE \A p \in Probe : applied[p] < rev'
        BY <1>0, <4>2, BumpsDoes
      <4> QED BY <1>0, <1>7, <3>2, <4>1, <4>2, WritesUnderway
    <3> QED BY <1>0, <1>7, <3>1, <3>2, WritesUnderway
  <2>2. beat[b] # Nothing => beat[b].announced < job'[c].rev /\ beat[b].announced < rev'
    <3>1. CASE Bumps(c)
      BY <1>0, <3>1, BumpsDoes
    <3>2. CASE At(c, "write") /\ job'[c] = job[c]
      <4>1. beat[b] # Nothing => beat[b].announced < job[c].rev /\ beat[b].announced < rev
        BY <1>0, <3>2 DEF NothingReused
      <4>2. ASSUME NEW a \in Author, Bumps(a), beat[b] # Nothing PROVE beat[b].announced < rev'
        BY <1>0, <4>2, BumpsDoes
      <4> QED BY <1>0, <1>7, <3>2, <4>1, <4>2, WritesUnderway
    <3> QED BY <1>0, <1>7, <3>1, <3>2, WritesUnderway
  <2>3. 0 < job'[c].rev /\ 0 < rev'
    <3>1. job'[c].rev \in Nat /\ job'[c].rev # 0
      <4>1. CASE Bumps(c)
        BY <1>0, <4>1, BumpsDoes
      <4>2. CASE At(c, "write") /\ job'[c] = job[c]
        BY <1>0, <4>2, ChangeIs DEF ChangesAreRead, At
      <4> QED BY <1>0, <1>7, <4>1, <4>2, WritesUnderway
    <3> QED BY <1>3, <3>1
  <2>4. beat'[b].who \in Probe /\ (beat'[b].announced = 0 \/ (beat[b] # Nothing /\ beat'[b].announced = beat[b].announced)
                                   \/ beat'[b].announced = applied[beat'[b].who])
    BY <1>0, <1>7, AnnouncedAfter
  <2> QED BY <2>1, <2>2, <2>3, <2>4
<1> HIDE DEF After
<1>8. NothingReused' <=> /\ \A p \in Probe : After(applied'[p])
                         /\ \A b \in Beat : beat'[b] # Nothing => After(beat'[b].announced)
                         /\ \A b \in Beat, a \in Author :
                              beat'[b] # Nothing /\ job'[a] # Nothing /\ job'[a].at = "write"
                                => beat'[b].announced < job'[a].rev /\ beat'[b].announced < rev'
  BY DEF NothingReused, Ahead, After, At
<1> QED BY <1>5, <1>6, <1>7, <1>8

-----------------------------------------------------------------------------
(* Revisions that are noted, counted and announced stay in order.          *)

\* A message on its way to the purge was, or was noted just now.
LEMMA PruningAfter ==
  ASSUME TypeOK, [WritingNext]_profilesVars, NEW b \in Beat, beat'[b] # Nothing, beat'[b].at \in {"prune", "mark"}
  PROVE  /\ beat[b] # Nothing /\ beat'[b].who = beat[b].who /\ beat'[b].announced = beat[b].announced
         /\ \/ Notes(b) /\ beat'[b].floor = Floor(line') /\ beat'[b].at = "prune"
            \/ /\ b \in Pruning /\ beat'[b].floor = beat[b].floor
               /\ beat'[b].at = "mark" => beat[b].at = "mark" \/ Prunes(b)
<1>1. CASE beat'[b] = beat[b]
  BY <1>1 DEF Pruning, BeatAt
<1>2. CASE GivesUp(b)
  BY <1>2, GivesUpDoes DEF Pruning, BeatAt
<1>3. CASE Ingests(b)
  <2>1. beat[b].at = "ingest"
    BY <1>3 DEF Ingests, BeatAt
  <2> QED BY <1>3, <2>1, IngestsDoes
<1>4. CASE Notes(b)
  BY <1>4, NotesDoes
<1>5. CASE Prunes(b)
  <2>1. CASE Prunable(beat[b].floor) = {}
    BY <1>5, <2>1, PrunesNoneDoes
  <2>2. CASE Prunable(beat[b].floor) # {}
    BY <1>5, <2>2, PrunesSomeDoes DEF Prunes, Pruning, BeatAt
  <2> QED BY <2>1, <2>2
<1>6. CASE Marks(b)
  BY <1>6, MarksDoes
<1>7. CASE Compares(b)
  BY <1>7, ComparesSameDoes, ComparesOtherDoes
<1>8. CASE Selects(b)
  BY <1>8, SelectsDoes
<1>9. ASSUME NEW p \in Probe, Sends(b, p) \/ Deposits(b, p) PROVE FALSE
  BY <1>9, SendsDoes
<1> QED BY <1>1, <1>2, <1>3, <1>4, <1>5, <1>6, <1>7, <1>8, <1>9, MessageSteps

\* note_portscan_rev: the lesser of the hub's revision and the one announced.
LEMMA NotesSays ==
  ASSUME TypeOK, NEW b \in Beat, Notes(b)
  PROVE  /\ beat[b] # Nothing /\ beat[b].who \in Probe
         /\ line' \in [Probe -> Line] /\ \A p \in Probe \ {beat[b].who} : line'[p] = line[p]
         /\ line'[beat[b].who].counted /\ line'[beat[b].who].rev \in Nat
         /\ line'[beat[b].who].rev <= rev /\ line'[beat[b].who].rev <= beat[b].announced
         /\ line'[beat[b].who].rev \in {rev, beat[b].announced}
         /\ Floor(line') \in Nat /\ \A p \in Probe : line'[p].counted => Floor(line') <= line'[p].rev
         /\ UNCHANGED <<rev, purged, table, job, held, applied, saved, fresh, erased, astray>>
<1>1. beat[b] # Nothing /\ beat[b].who \in Probe /\ beat[b].announced \in Nat
  BY MessageIs DEF Notes, Ingested, BeatAt
<1>2. /\ Noted(beat[b].announced) \in {rev, beat[b].announced} /\ Noted(beat[b].announced) \in Nat
      /\ Noted(beat[b].announced) <= rev /\ Noted(beat[b].announced) <= beat[b].announced
  BY <1>1, LesserRevision DEF Noted, TypeOK
<1> DEFINE noted == Noted(beat[b].announced)
<1>3. line' = [line EXCEPT ![beat[b].who] = [rev |-> noted, counted |-> TRUE]]
  BY DEF Notes
<1> HIDE DEF noted
<1>4. [rev |-> noted, counted |-> TRUE] \in Line
  BY <1>2 DEF Line, noted
<1>5. line' \in [Probe -> Line]
  BY <1>3, <1>4 DEF TypeOK
<1>6. line'[beat[b].who] = [rev |-> noted, counted |-> TRUE] /\ \A p \in Probe \ {beat[b].who} : line'[p] = line[p]
  BY <1>1, <1>3 DEF TypeOK
<1>7. Floor(line') \in Nat /\ \A p \in Probe : line'[p].counted => Floor(line') <= line'[p].rev
  BY <1>5, FloorIs DEF TypeOK
<1>8. UNCHANGED <<rev, purged, table, job, held, applied, saved, fresh, erased, astray>>
  BY DEF Notes, probes, bounds
<1> QED BY <1>1, <1>2, <1>5, <1>6, <1>7, <1>8 DEF noted

\* The same bound, after a step.
BoundedAfter(p, a) ==
  /\ line'[p].rev <= a
  /\ saved' # Nothing => saved'.line[p].rev <= a
  /\ line'[p].counted =>
       \A b \in Beat : beat'[b] # Nothing /\ beat'[b].at \in {"prune", "mark"} => beat'[b].floor <= a
  /\ \A c \in Author : job'[c] # Nothing /\ job'[c].at = "write" => a < job'[c].rev /\ a < rev'
  /\ \A b \in Beat : beat'[b] # Nothing /\ beat'[b].who = p =>
       beat'[b].announced <= a \/ (rev' < beat'[b].announced /\ rev' <= a)

LEMMA BoundedKept ==
  ASSUME Always, Orderliness, [WritingNext]_profilesVars, ~disturbed', NEW p \in Probe, NEW a \in Nat, Bounded(p, a),
         \A c \in Author : Bumps(c) => a < job[c].rev,
         \A b \in Beat : Sends(b, p) => a = applied[p]
  PROVE  BoundedAfter(p, a)
<1>0. /\ TypeOK /\ ChangesAreRead /\ AnswersAreOne /\ NothingReused /\ RevisionsInOrder /\ BackupIsOlder
      /\ rev \in Nat \ {0} /\ line[p].rev \in Nat /\ line[p].rev <= a
      /\ saved # Nothing => saved.line[p].rev <= a
      /\ line[p].counted => \A b \in Pruning : beat[b].floor <= a
      /\ \A c \in Author : At(c, "write") => a < job[c].rev /\ a < rev
      /\ \A b \in Beat : beat[b] # Nothing /\ beat[b].who = p =>
           beat[b].announced <= a \/ (rev < beat[b].announced /\ rev <= a)
  BY LineIs DEF Always, Orderliness, TypeOK, Bounded
<1>1. line'[p].rev <= a
  <2>1. ASSUME NEW b \in Beat, Notes(b) PROVE line'[p].rev <= a
    <3>1. CASE beat[b].who = p
      <4>1. /\ beat[b] # Nothing /\ line'[p].rev \in Nat
            /\ line'[p].rev <= rev /\ line'[p].rev <= beat[b].announced /\ beat[b].announced \in Nat
        BY <1>0, <2>1, <3>1, NotesSays, MessageIs
      <4>2. beat[b].announced <= a \/ rev <= a
        BY <1>0, <3>1, <4>1
      <4> QED BY <1>0, <4>1, <4>2
    <3>2. CASE beat[b].who # p
      <4>1. line'[p] = line[p]
        BY <1>0, <2>1, <3>2, NotesSays
      <4> QED BY <1>0, <4>1
    <3> QED BY <3>1, <3>2
  <2>2. ASSUME NEW q \in Probe, FallsSilent(q) PROVE line'[p].rev <= a
    <3>1. line'[p].rev = line[p].rev
      BY <1>0, <2>2 DEF FallsSilent, TypeOK, Line
    <3> QED BY <1>0, <3>1
  <2>3. CASE Restores
    BY <1>0, <2>3 DEF Restores, Starts
  <2>4. CASE UNCHANGED line
    BY <1>0, <2>4
  <2> QED BY <2>1, <2>2, <2>3, <2>4, LineElsewhere
<1>2. saved' # Nothing => saved'.line[p].rev <= a
  <2>1. CASE Saves
    <3>1. saved'.line = line
      BY <2>1 DEF Saves
    <3> QED BY <1>0, <3>1
  <2> QED BY <1>0, <2>1, SavedElsewhere
<1>3. ASSUME line'[p].counted, NEW b \in Beat, beat'[b] # Nothing, beat'[b].at \in {"prune", "mark"}
      PROVE  beat'[b].floor <= a
  <2>1. CASE Notes(b)
    <3>1. beat'[b].floor = Floor(line') /\ Floor(line') \in Nat /\ Floor(line') <= line'[p].rev /\ line'[p].rev \in Nat
      BY <1>0, <1>3, <2>1, NotesSays, NotesDoes DEF Line
    <3> QED BY <1>1, <3>1
  <2>2. CASE b \in Pruning /\ beat'[b].floor = beat[b].floor
    <3>1. CASE line[p].counted
      BY <1>0, <2>2, <3>1
    <3>2. CASE ~line[p].counted
      <4>1. ASSUME NEW c \in Beat, Notes(c) PROVE FALSE
        <5>1. beat[c].who = p
          BY <1>0, <1>3, <3>2, <4>1, NotesSays
        <5> QED BY <2>2, <3>2, <4>1, <5>1 DEF Notes
      <4>2. ASSUME NEW q \in Probe, FallsSilent(q) PROVE FALSE
        BY <1>0, <1>3, <3>2, <4>2 DEF FallsSilent, TypeOK, Line
      <4>3. ~Restores
        BY <1>3 DEF Restores, Starts
      <4> QED BY <1>3, <3>2, <4>1, <4>2, <4>3, LineElsewhere
    <3> QED BY <3>1, <3>2
  <2> QED BY <1>0, <1>3, <2>1, <2>2, PruningAfter
<1>4. ASSUME NEW c \in Author, job'[c] # Nothing, job'[c].at = "write"
      PROVE  a < job'[c].rev /\ a < rev'
  <2>1. ASSUME NEW d \in Author, Bumps(d) PROVE a < rev' /\ (c = d => a < job'[c].rev)
    BY <1>0, <2>1, BumpsDoes
  <2> QED BY <1>0, <1>4, <2>1, WritesUnderway
<1>5. ASSUME NEW b \in Beat, beat'[b] # Nothing, beat'[b].who = p
      PROVE  beat'[b].announced <= a \/ (rev' < beat'[b].announced /\ rev' <= a)
  <2>1. CASE beat'[b].announced = 0
    BY <2>1
  <2>2. CASE Sends(b, p) /\ beat'[b].announced = applied[p]
    BY <2>2
  <2>3. CASE beat[b] # Nothing /\ beat[b].who = p /\ beat'[b].announced = beat[b].announced
    <3>1. beat[b].announced \in Nat /\ (beat[b].announced <= a \/ (rev < beat[b].announced /\ rev <= a))
      BY <1>0, <2>3, MessageIs
    <3>2. CASE UNCHANGED rev
      BY <2>3, <3>1, <3>2
    <3>3. ASSUME NEW c \in Author, Bumps(c) PROVE beat[b].announced <= a
      <4>1. beat[b].announced < job[c].rev /\ job[c].rev \in Nat /\ At(c, "bump")
        BY <1>0, <2>3, <3>3, BumpsDoes
      <4>2. Ahead(beat[b].announced)
        BY <1>0, <2>3 DEF NothingReused
      <4>3. beat[b].announced > rev => job[c].rev <= beat[b].announced
        BY <4>1, <4>2 DEF Ahead
      <4> QED BY <1>0, <3>1, <4>1, <4>3
    <3>4. ~Restarts /\ ~Restores
      BY <1>5 DEF Restarts, Restores, Starts
    <3> QED BY <2>3, <3>2, <3>3, <3>4, RevElsewhere
  <2> QED BY <1>0, <1>5, <2>1, <2>2, <2>3, AnnouncedAfter
<1> QED BY <1>1, <1>2, <1>3, <1>4, <1>5 DEF BoundedAfter

\* portscan_profiles_since, the comparison: the probe announced another
\* revision, and nothing is under way.
LEMMA ComparesSays ==
  ASSUME Always, Orderliness, NEW b \in Beat, Compares(b), ~disturbed', beat[b].announced # rev
  PROVE  /\ Underway = {} /\ beat[b] # Nothing /\ beat[b].who \in Probe
         /\ Bounded(beat[b].who, rev)
         /\ UNCHANGED <<rev, purged, table, line, job, held, applied, saved, fresh, erased, astray>>
         /\ ~beat'[b].replace => beat[b].announced <= rev /\ purged <= beat[b].announced
<1>0. TypeOK /\ RevisionsInOrder /\ BackupIsOlder /\ rev \in Nat \ {0} /\ purged \in Nat
  BY DEF Always, Orderliness, TypeOK
<1>1. /\ beat[b] # Nothing /\ beat[b].who \in Probe /\ beat[b].announced \in Nat /\ beat[b].at = "since"
  BY <1>0, MessageIs DEF Compares, BeatAt
<1>2. Underway = {} /\ UNCHANGED <<rev, purged, table, line, job, held, applied, saved, fresh, erased, astray>>
  BY DEF Compares, hub, probes, bounds
<1>3. \A c \in Author : ~At(c, "write")
  BY <1>2 DEF Underway
<1>4. saved # Nothing => saved.line[beat[b].who].rev <= rev
  <2>1. saved # Nothing => /\ saved.line[beat[b].who].rev <= saved.rev /\ saved.rev <= rev
                           /\ saved.line[beat[b].who].rev \in Nat /\ saved.rev \in Nat
    BY <1>0, <1>1, BaseIs DEF BackupIsOlder, Line
  <2> QED BY <1>0, <2>1
<1>5. \A c \in Pruning : beat[c].floor <= rev
  BY <1>0 DEF RevisionsInOrder
<1>6. \A c \in Beat : beat[c] # Nothing => beat[c].announced <= rev \/ (rev < beat[c].announced /\ rev <= rev)
  BY <1>0, MessageIs
<1>7. line[beat[b].who].rev <= rev
  BY <1>0, <1>1 DEF RevisionsInOrder
<1>8. Bounded(beat[b].who, rev)
  BY <1>3, <1>4, <1>5, <1>6, <1>7 DEF Bounded
<1>9. beat'[b].replace = (beat[b].announced > rev \/ beat[b].announced < purged)
  BY <1>0, ComparesOtherDoes
<1>10. ASSUME ~beat'[b].replace PROVE beat[b].announced <= rev /\ purged <= beat[b].announced
  <2>1. ~(beat[b].announced > rev) /\ ~(beat[b].announced < purged)
    BY <1>9, <1>10
  <2> QED BY <1>0, <1>1, <2>1
<1> QED BY <1>1, <1>2, <1>8, <1>10

\* An answer under way is bounded as its probe is, whatever the step.
LEMMA AnswerBounded ==
  ASSUME Always, Orderliness, [WritingNext]_profilesVars, ~disturbed', NEW b \in Beat,
         beat'[b] # Nothing, beat'[b].awaited, beat'[b].rev # 0
  PROVE  /\ BoundedAfter(beat[b].who, beat'[b].rev) /\ beat'[b].rev \in Nat /\ beat[b].who \in Probe
         /\ beat'[b].rev <= rev'
         /\ \A a \in Author : job'[a] # Nothing /\ job'[a].at \in {"bump", "write"} => beat'[b].rev < job'[a].rev
<1>0. TypeOK /\ ChangesAreRead /\ AnswersAreOne /\ RevisionsInOrder /\ rev \in Nat \ {0}
  BY DEF Always, Orderliness, TypeOK
<1>1. /\ beat[b] # Nothing /\ beat[b].awaited /\ beat[b].who \in Probe
      /\ \/ beat[b].rev # 0 /\ beat'[b].rev = beat[b].rev
         \/ Compares(b) /\ beat[b].announced # rev /\ beat'[b].rev = rev
  BY <1>0, AnsweringAfter, MessageIs
<1> DEFINE a == beat'[b].rev
           p == beat[b].who
<1>2. /\ a \in Nat /\ a <= rev /\ Bounded(p, a)
      /\ \A c \in Underway : a < job[c].rev
      /\ \A c \in Author : Bumps(c) => a < job[c].rev
  <2>1. CASE beat[b].rev # 0 /\ beat'[b].rev = beat[b].rev
    <3>1. beat[b].rev \in Nat /\ beat[b].rev <= rev /\ Bounded(beat[b].who, beat[b].rev)
          /\ \A c \in Underway : beat[b].rev < job[c].rev
      BY <1>0, <1>1, <2>1, MessageIs DEF RevisionsInOrder, Answering
    <3> QED BY <2>1, <3>1 DEF Bumps, Underway
  <2>2. CASE Compares(b) /\ beat[b].announced # rev /\ beat'[b].rev = rev
    <3>1. Underway = {} /\ Bounded(beat[b].who, rev)
      BY <2>2, ComparesSays
    <3>2. rev <= rev
      BY <1>0
    <3> QED BY <1>0, <2>2, <3>1, <3>2 DEF Bumps, Underway
  <2> QED BY <1>1, <2>1, <2>2
<1>3. \A c \in Beat : ~Sends(c, p)
  BY <1>1 DEF Sends, Awaited
<1> HIDE DEF a, p
<1>4. BoundedAfter(p, a)
  BY <1>1, <1>2, <1>3, BoundedKept DEF p
<1>5. a <= rev'
  <2>1. ASSUME NEW c \in Author, Bumps(c) PROVE a <= rev'
    BY <1>0, <1>2, <2>1, BumpsDoes
  <2>2. ~Restarts /\ ~Restores
    BY DEF Restarts, Restores, Starts
  <2> QED BY <1>2, <2>1, <2>2, RevElsewhere
<1>6. ASSUME NEW c \in Author, job'[c] # Nothing, job'[c].at \in {"bump", "write"}
      PROVE  a < job'[c].rev
  <2>1. ASSUME NEW d \in Author, ReadsRev(d) PROVE a < job'[c].rev
    <3>1. \/ c = d /\ job'[c].rev = rev + 1
          \/ job'[c] = job[c]
      BY <1>0, <2>1, ReadsDoes
    <3> QED BY <1>0, <1>2, <1>6, <3>1 DEF Underway, At
  <2>2. ASSUME NEW d \in Author, Bumps(d) PROVE a < job'[c].rev
    <3>1. \/ c = d /\ job'[c].rev = job[d].rev
          \/ job'[c] = job[c]
      BY <1>0, <2>2, BumpsDoes
    <3> QED BY <1>2, <1>6, <2>2, <3>1 DEF Underway, At
  <2>3. CASE \A d \in Author : ~ReadsRev(d) /\ ~Bumps(d)
    <3>1. job'[c] = job[c]
      BY <1>0, <1>6, <2>3, NoneUnderway
    <3> QED BY <1>2, <1>6, <3>1 DEF Underway, At
  <2> QED BY <2>1, <2>2, <2>3
<1> QED BY <1>1, <1>2, <1>4, <1>5, <1>6 DEF a, p

LEMMA OrderKept ==
  ASSUME Always, Orderliness, [WritingNext]_profilesVars, ~disturbed'
  PROVE  RevisionsInOrder'
<1>0. /\ TypeOK /\ ChangesAreRead /\ AnswersAreOne /\ RevisionsInOrder /\ BackupIsOlder
      /\ rev \in Nat \ {0} /\ purged \in Nat
  BY DEF Always, Orderliness, TypeOK
<1>1. ASSUME NEW p \in Probe PROVE BoundedAfter(p, applied[p])
  <2>1. applied[p] \in Nat /\ Bounded(p, applied[p])
    BY <1>0, LineIs DEF RevisionsInOrder
  <2>2. \A c \in Author : Bumps(c) => applied[p] < job[c].rev
    BY <1>0, BumpsDoes
  <2> QED BY <2>1, <2>2, BoundedKept
<1>2. ASSUME NEW p \in Probe PROVE BoundedAfter(p, applied'[p])
  <2>1. ASSUME NEW b \in Beat, Aligns(b) PROVE BoundedAfter(p, applied'[p])
    <3>1. beat[b] # Nothing /\ beat[b].awaited /\ beat[b].who \in Probe /\ applied \in [Probe -> Nat]
      BY <1>0, <2>1, MessageIs DEF Aligns, BeatAt, TypeOK
    <3>2. \/ applied'[p] = applied[p]
          \/ p = beat[b].who /\ applied'[p] = beat[b].rev /\ beat[b].rev # 0
      BY <2>1, <3>1 DEF Aligns
    <3>3. CASE p = beat[b].who /\ applied'[p] = beat[b].rev /\ beat[b].rev # 0
      <4>1. Bounded(p, beat[b].rev) /\ beat[b].rev \in Nat
        BY <1>0, <3>1, <3>3, MessageIs DEF RevisionsInOrder, Answering
      <4>2. /\ \A c \in Author : ~Bumps(c)
            /\ \A c \in Beat : ~Sends(c, p)
        <5>1. beat'[b] = Nothing
          BY <1>0, <2>1, EndsDoes
        <5>2. \A c \in Author : Bumps(c) => UNCHANGED beat
          BY <1>0, BumpsDoes
        <5> QED BY <3>1, <3>3, <5>1, <5>2 DEF Sends, Awaited
      <4>3. BoundedAfter(p, beat[b].rev)
        BY <4>1, <4>2, BoundedKept
      <4> QED BY <3>3, <4>3
    <3> QED BY <1>1, <3>2, <3>3
  <2>2. ASSUME NEW q \in Probe, MakesHere(q) \/ EditsHere(q) PROVE UNCHANGED applied
    BY <2>2 DEF MakesHere, EditsHere
  <2> QED BY <1>1, <2>1, <2>2, HeldElsewhere
<1>3. ASSUME NEW p \in Probe PROVE line'[p].rev <= rev'
  <2>0. line[p].rev <= rev /\ line[p].rev \in Nat /\ line[p].rev <= applied[p] /\ applied[p] \in Nat
    BY <1>0, LineIs DEF RevisionsInOrder, Bounded
  <2>1. ASSUME NEW b \in Beat, Notes(b) PROVE line'[p].rev <= rev'
    BY <1>0, <2>0, <2>1, NotesSays
  <2>2. ASSUME NEW q \in Probe, FallsSilent(q) PROVE line'[p].rev <= rev'
    <3>1. line'[p].rev = line[p].rev /\ UNCHANGED rev
      BY <1>0, <2>2 DEF FallsSilent, TypeOK, Line
    <3> QED BY <2>0, <3>1
  <2>3. CASE Restores
    <3>1. saved # Nothing /\ line' = saved.line /\ rev' = Lifted(saved.rev, saved.table)
      BY <2>3 DEF Restores, Starts
    <3>2. /\ saved.rev \in Nat \ {0} /\ saved.table \in [Id -> Row \cup {Nothing}]
          /\ saved.line[p].rev <= saved.rev /\ saved.line[p].rev \in Nat
      BY <1>0, <3>1, BaseIs DEF BackupIsOlder, Line
    <3>3. Lifted(saved.rev, saved.table) >= saved.rev /\ Lifted(saved.rev, saved.table) \in Nat
      BY <3>2, LiftedIs
    <3> QED BY <3>1, <3>2, <3>3
  <2>4. CASE UNCHANGED line
    <3>1. ASSUME NEW a \in Author, Bumps(a) PROVE line[p].rev <= rev'
      BY <1>0, <2>0, <3>1, BumpsDoes
    <3>2. CASE Restarts
      <4>1. rev' = Lifted(rev, table) /\ table \in [Id -> Row \cup {Nothing}]
        BY <1>0, <3>2 DEF Restarts, Starts, TypeOK
      <4>2. Lifted(rev, table) >= rev /\ Lifted(rev, table) \in Nat
        BY <1>0, <4>1, LiftedIs
      <4> QED BY <1>0, <2>0, <2>4, <4>1, <4>2
    <3> QED BY <2>0, <2>3, <2>4, <3>1, <3>2, RevElsewhere
  <2> QED BY <2>1, <2>2, <2>3, <2>4, LineElsewhere
<1>4. ASSUME NEW b \in Beat, beat'[b] # Nothing, beat'[b].awaited, beat'[b].rev # 0
      PROVE  /\ BoundedAfter(beat'[b].who, beat'[b].rev) /\ beat'[b].rev <= rev'
             /\ \A a \in Author : job'[a] # Nothing /\ job'[a].at \in {"bump", "write"} => beat'[b].rev < job'[a].rev
  BY <1>0, <1>4, AnswerBounded, AnsweringAfter
<1>5. ASSUME NEW b \in Beat, beat'[b] # Nothing, beat'[b].at \in {"prune", "mark"}
      PROVE  beat'[b].floor <= rev' /\ beat'[b].floor <= beat'[b].announced
  <2>0. beat[b] # Nothing /\ beat'[b].announced = beat[b].announced /\ beat[b].announced \in Nat /\ beat[b].floor \in Nat
    BY <1>0, <1>5, PruningAfter, MessageIs
  <2>1. CASE Notes(b)
    <3>1. /\ beat'[b].floor = Floor(line') /\ beat[b].who \in Probe /\ UNCHANGED rev
          /\ Floor(line') <= line'[beat[b].who].rev /\ Floor(line') \in Nat /\ line'[beat[b].who].rev \in Nat
          /\ line'[beat[b].who].rev <= rev /\ line'[beat[b].who].rev <= beat[b].announced
      BY <1>0, <2>1, NotesSays, NotesDoes
    <3> QED BY <1>0, <2>0, <3>1
  <2>2. CASE b \in Pruning /\ beat'[b].floor = beat[b].floor
    <3>1. beat[b].floor <= rev /\ beat[b].floor <= beat[b].announced
      BY <1>0, <2>2 DEF RevisionsInOrder
    <3>2. ASSUME NEW a \in Author, Bumps(a) PROVE beat[b].floor <= rev'
      <4>1. beat[b].announced < job[a].rev /\ rev' = job[a].rev /\ job[a].rev \in Nat
        BY <1>0, <2>0, <3>2, BumpsDoes
      <4> QED BY <2>0, <3>1, <4>1
    <3>3. ~Restarts /\ ~Restores
      BY <1>5 DEF Restarts, Restores, Starts
    <3> QED BY <2>0, <2>2, <3>1, <3>2, <3>3, RevElsewhere
  <2> QED BY <1>0, <1>5, <2>1, <2>2, PruningAfter
<1>6. ASSUME NEW b \in Beat, beat'[b] # Nothing, beat'[b].awaited, beat'[b].rev # 0, beat'[b].at = "select", ~beat'[b].replace
      PROVE  beat'[b].announced <= beat'[b].rev /\ purged' <= beat'[b].announced + 1
  <2>0. beat[b] # Nothing /\ beat[b].announced \in Nat /\ beat[b].awaited /\ beat[b].who \in Probe
    BY <1>0, <1>6, AnsweringAfter, MessageIs
  <2>1. CASE Compares(b) /\ beat[b].announced # rev /\ beat'[b].rev = rev
    <3>1. beat[b].announced <= rev /\ purged <= beat[b].announced /\ UNCHANGED purged
      BY <1>6, <2>1, ComparesSays
    <3>2. beat'[b].announced = beat[b].announced
      BY <1>0, <2>1, ComparesOtherDoes
    <3> QED BY <1>0, <2>0, <2>1, <3>1, <3>2
  <2>2. CASE /\ beat[b].rev # 0 /\ beat'[b].rev = beat[b].rev /\ beat'[b].replace = beat[b].replace
             /\ beat'[b].at = beat[b].at /\ beat'[b].announced = beat[b].announced
    <3>1. beat[b].announced <= beat[b].rev /\ purged <= beat[b].announced + 1
      BY <1>0, <1>6, <2>0, <2>2 DEF RevisionsInOrder, Answering
    <3>2. ASSUME NEW c \in Beat, Marks(c) PROVE purged' <= beat[b].announced + 1
      <4>1. c \in Pruning /\ beat[c].floor \in Nat /\ purged' = Marked(beat[c].floor)
        BY <1>0, <3>2, MessageIs DEF Marks, Pruning, BeatAt
      <4>2. beat[b].announced = applied[beat[b].who] /\ line[beat[b].who].counted
        BY <1>0, <1>6, <2>0, <2>2 DEF AnswersAreOne
      <4>3. beat[c].floor <= beat[b].announced
        BY <1>0, <2>0, <4>1, <4>2 DEF RevisionsInOrder, Bounded
      <4>4. purged' \in {purged, beat[c].floor + 1}
        <5>1. beat[c].floor + 1 \in Nat
          BY <4>1
        <5> QED BY <1>0, <4>1, <5>1, GreaterRevision DEF Marked
      <4> QED BY <2>0, <3>1, <4>1, <4>3, <4>4
    <3>3. ~Restores
      BY <1>6 DEF Restores, Starts
    <3>4. purged' <= beat[b].announced + 1
      BY <3>1, <3>2, <3>3, PurgedElsewhere
    <3> QED BY <2>2, <3>1, <3>4
  <2> QED BY <1>0, <1>6, <2>1, <2>2, AnsweringAfter
<1>7. RevisionsInOrder' <=>
        /\ \A p \in Probe : line'[p].rev <= rev' /\ BoundedAfter(p, applied'[p])
        /\ \A b \in Beat : beat'[b] # Nothing /\ beat'[b].awaited /\ beat'[b].rev # 0 =>
             /\ BoundedAfter(beat'[b].who, beat'[b].rev) /\ beat'[b].rev <= rev'
             /\ \A a \in Underway' : beat'[b].rev < job'[a].rev
        /\ \A b \in Pruning' : beat'[b].floor <= rev' /\ beat'[b].floor <= beat'[b].announced
        /\ \A b \in Beat : beat'[b] # Nothing /\ beat'[b].awaited /\ beat'[b].rev # 0
                           /\ beat'[b].at = "select" /\ ~beat'[b].replace =>
             beat'[b].announced <= beat'[b].rev /\ purged' <= beat'[b].announced + 1
  BY DEF RevisionsInOrder, Bounded, BoundedAfter, Answering, Pruning, BeatAt, At
<1>8. /\ \A a \in Underway' : a \in Author /\ job'[a] # Nothing /\ job'[a].at \in {"bump", "write"}
      /\ \A b \in Pruning' : b \in Beat /\ beat'[b] # Nothing /\ beat'[b].at \in {"prune", "mark"}
  BY DEF Underway, Pruning, BeatAt, At
<1> QED BY <1>2, <1>3, <1>4, <1>5, <1>6, <1>7, <1>8

-----------------------------------------------------------------------------
(* Nothing carries what was deleted.                                       *)

\* An insertion was one, is of a new identifier, or comes with a message.
LEMMA InsertAfter ==
  ASSUME TypeOK, ChangesAreRead, [WritingNext]_profilesVars, NEW a \in Author, job'[a] # Nothing, job'[a].kind = "insert"
  PROVE  \/ job[a] # Nothing /\ job[a].kind = "insert" /\ job'[a].id = job[a].id
         \/ job'[a].id \in fresh
         \/ \E b \in Beat : beat[b] # Nothing /\ \E e \in beat[b].out : e.id = job'[a].id
<1>0. job \in [Author -> ChangeRow \cup {Nothing}]
  BY DEF TypeOK
<1>1. CASE UNCHANGED job
  BY <1>1
<1>2. ASSUME NEW w \in Writer, Begins(w)
      PROVE  job'[a] = job[a] \/ job'[a].id \in fresh
  <2>1. \A kind, at, i, n : Change(kind, at, i, n).kind = kind /\ Change(kind, at, i, n).id = i
    BY DEF Change
  <2>2. CASE a # w
    <3>1. PICK c : job' = [job EXCEPT ![w] = c]
      BY <1>2 DEF Begins
    <3> QED BY <1>0, <2>2, <3>1
  <2>3. CASE a = w
    <3>1. w \in Author
      BY DEF Author
    <3>2. ASSUME NEW i, NEW n, NEW at, NEW kind, kind # "insert", job' = [job EXCEPT ![w] = Change(kind, at, i, n)]
          PROVE  FALSE
      BY <1>0, <2>1, <2>3, <3>1, <3>2
    <3>3. ASSUME NEW i \in fresh, NEW n, NEW at, NEW kind, job' = [job EXCEPT ![w] = Change(kind, at, i, n)]
          PROVE  job'[a].id \in fresh
      BY <1>0, <2>1, <2>3, <3>1, <3>3
    <3> QED BY <1>2, <3>2, <3>3 DEF Begins
  <2> QED BY <2>2, <2>3
<1>3. ASSUME NEW c \in Author, AuthorSteps(c)
      PROVE  job[a] # Nothing /\ job[a].kind = "insert" /\ job'[a].id = job[a].id
  BY <1>3, ChangeAfter
<1>4. ASSUME NEW b \in Beat, Ingests(b)
      PROVE  job'[a] = job[a] \/ (beat[b] # Nothing /\ \E e \in beat[b].out : e.id = job'[a].id)
  <2>1. \A kind, at, i, n : Change(kind, at, i, n).id = i
    BY DEF Change
  <2> QED BY <1>4, <2>1, IngestsDoes
<1>5. CASE job' = [c \in Author |-> Nothing]
  BY <1>5
<1> QED BY <1>1, <1>2, <1>3, <1>4, <1>5, JobElsewhere

\* What a message carries it carried, or its probe holds.
LEMMA OutAfter ==
  ASSUME TypeOK, [WritingNext]_profilesVars, NEW b \in Beat, beat'[b] # Nothing, NEW e \in beat'[b].out
  PROVE  (beat[b] # Nothing /\ e \in beat[b].out) \/ \E p \in Probe : e.id \in Held(p)
<1>1. CASE beat'[b] = beat[b]
  BY <1>1
<1>2. CASE Ingests(b) \/ Notes(b) \/ Prunes(b) \/ Marks(b) \/ Compares(b) \/ Selects(b) \/ GivesUp(b)
  <2>1. beat[b] # Nothing /\ beat'[b].out \subseteq beat[b].out
    BY <1>2, MessageAfter DEF BeatSteps
  <2> QED BY <2>1
<1>3. ASSUME NEW p \in Probe, Sends(b, p) \/ Deposits(b, p) PROVE e.id \in Held(p)
  BY <1>3, SendsDoes
<1> QED BY <1>1, <1>2, <1>3, MessageSteps

LEMMA GoneKept ==
  ASSUME Always, Orderliness, [WritingNext]_profilesVars
  PROVE  DeletedIsGone'
<1>0. /\ TypeOK /\ ChangesAreRead /\ FreshIsNew /\ DeletedIsGone
      /\ table \in [Id -> Row \cup {Nothing}] /\ erased \in SUBSET Id
  BY DEF Always, Orderliness, TypeOK
<1>1. \A i \in Id : table[i] # Nothing /\ table[i].dead => i \in erased
  BY <1>0 DEF DeletedIsGone
<1>2. \A i \in Id : saved # Nothing /\ saved.table[i] # Nothing /\ saved.table[i].dead => i \in erased
  BY <1>0 DEF DeletedIsGone
<1>3. \A i \in erased \ astray :
        /\ i \notin Live(table)
        /\ table[i] = Nothing =>
             /\ \A a \in Author : job[a] # Nothing /\ job[a].kind = "insert" => job[a].id # i
             /\ \A b \in Beat : beat[b] # Nothing => \A e \in beat[b].out : e.id # i
  BY <1>0 DEF DeletedIsGone
<1>4. \A p \in Probe, i \in erased \ astray : table[i] = Nothing => i \notin Held(p)
  BY DEF Orderliness, ListsAreSound, Sound, Held
<1>5. CASE Restores
  <2>1. /\ saved # Nothing /\ table' = saved.table /\ saved' = saved
        /\ erased' = {i \in Id : saved.table[i] # Nothing /\ saved.table[i].dead}
    BY <1>5 DEF Restores, Starts
  <2> QED BY <2>1 DEF DeletedIsGone, Live
<1>6. ASSUME ~Restores,
             \A i \in Id : table'[i] # Nothing /\ table'[i].dead => i \in erased',
             erased \subseteq erased',
             \A i \in erased' \ astray' : i \notin Live(table'),
             \A i \in erased' \ astray' : table'[i] = Nothing => i \in erased \ astray,
             \A i \in erased' \ astray' : table'[i] = Nothing /\ table[i] # Nothing =>
               /\ \A a \in Author : job'[a] # Nothing /\ job'[a].kind = "insert" => job'[a].id # i
               /\ \A b \in Beat : beat'[b] # Nothing => \A e \in beat'[b].out : e.id # i
      PROVE  DeletedIsGone'
  <2>1. saved' # Nothing => \A i \in Id : saved'.table[i] # Nothing /\ saved'.table[i].dead => i \in erased'
    <3>1. CASE Saves
      <4>1. saved'.table = table
        BY <3>1 DEF Saves
      <4> QED BY <1>1, <1>6, <4>1
    <3> QED BY <1>2, <1>6, <3>1, SavedElsewhere
  <2>2. ASSUME NEW i \in erased' \ astray', table'[i] = Nothing, table[i] = Nothing
        PROVE  /\ \A a \in Author : job'[a] # Nothing /\ job'[a].kind = "insert" => job'[a].id # i
               /\ \A b \in Beat : beat'[b] # Nothing => \A e \in beat'[b].out : e.id # i
    <3>1. i \in erased \ astray /\ i \notin fresh
      BY <1>0, <1>6, <2>2 DEF FreshIsNew
    <3>2. ASSUME NEW a \in Author, job'[a] # Nothing, job'[a].kind = "insert" PROVE job'[a].id # i
      BY <1>0, <1>3, <2>2, <3>1, <3>2, InsertAfter
    <3>3. ASSUME NEW b \in Beat, beat'[b] # Nothing, NEW e \in beat'[b].out PROVE e.id # i
      BY <1>0, <1>3, <1>4, <2>2, <3>1, <3>3, OutAfter
    <3> QED BY <3>2, <3>3
  <2> QED BY <1>6, <2>1, <2>2 DEF DeletedIsGone
<1>7. ASSUME UNCHANGED <<table, erased, astray>>, ~Restores PROVE DeletedIsGone'
  BY <1>1, <1>3, <1>6, <1>7 DEF Live
<1>8. ASSUME NEW b \in Beat, Prunes(b) PROVE DeletedIsGone'
  <2> DEFINE gone == Prunable(beat[b].floor)
  <2>1. /\ astray' = astray \cup {i \in gone : Carried(i)} /\ UNCHANGED <<erased, job>>
        /\ \A i \in Id : table'[i] = IF i \in gone THEN Nothing ELSE table[i]
    BY <1>8 DEF Prunes
  <2>2. \A i \in gone : table[i] # Nothing
    BY DEF Prunable
  <2>3. ~Restores
    <3>1. Restores => beat' = [c \in Beat |-> Nothing]
      BY DEF Restores, Starts
    <3> QED BY <1>0, <1>8, <3>1, PrunesNoneDoes, PrunesSomeDoes
  <2>4. ASSUME NEW i \in erased' \ astray', table'[i] = Nothing, table[i] # Nothing
        PROVE  /\ \A a \in Author : job'[a] # Nothing /\ job'[a].kind = "insert" => job'[a].id # i
               /\ \A c \in Beat : beat'[c] # Nothing => \A e \in beat'[c].out : e.id # i
    <3>1. i \in gone /\ ~Carried(i)
      BY <1>0, <2>1, <2>4
    <3>2. \A a \in Author : job'[a] # Nothing /\ job'[a].kind = "insert" => job'[a].id # i
      BY <2>1, <3>1 DEF Carried
    <3>3. \A c \in Beat : beat'[c] # Nothing => beat[c] # Nothing /\ beat'[c].out \subseteq beat[c].out
      BY <1>0, <1>8, MessageAfter DEF BeatSteps
    <3>4. \A c \in Beat : beat[c] # Nothing => \A e \in beat[c].out : e.id # i
      BY <3>1 DEF Carried
    <3> QED BY <3>2, <3>3, <3>4
  <2> HIDE DEF gone
  <2>5. \A i \in Id : table'[i] # Nothing => table'[i] = table[i]
    BY <2>1
  <2>6. \A i \in erased' \ astray' : i \in erased \ astray /\ i \notin Live(table')
    BY <1>3, <2>1, <2>5 DEF Live
  <2>7. \A i \in Id : table'[i] # Nothing /\ table'[i].dead => i \in erased'
    BY <1>1, <2>1, <2>5
  <2> QED BY <1>6, <2>1, <2>3, <2>4, <2>6, <2>7
<1>9. ASSUME NEW a \in Author, Writes(a) PROVE DeletedIsGone'
  <2>1. /\ At(a, "write") /\ job[a] # Nothing /\ job[a].id \in Id /\ UNCHANGED astray
        /\ \A i \in Id \ {job[a].id} : table'[i] = table[i]
        /\ \A i \in Id : table[i] # Nothing => table'[i] # Nothing
        /\ \A i \in erased' : i \in erased \/ table'[i] # Nothing
    BY <1>0, <1>9, WritesDoes
  <2>2. ~Restores
    <3>1. faults' = faults /\ faults \in Nat
      BY <1>0, <1>9, WritesDoes DEF TypeOK
    <3>2. Restores => faults' = faults - 1
      BY DEF Restores, Starts, Fault
    <3> QED BY <3>1, <3>2
  <2>3. CASE Refused(job[a])
    BY <1>7, <1>9, <2>2, <2>3 DEF Writes
  <2>4. CASE ~Refused(job[a])
    <3>1. /\ table' = [table EXCEPT ![job[a].id] = Written(job[a])]
          /\ erased' = IF job[a].kind = "delete" THEN erased \cup {job[a].id} ELSE erased
      BY <1>9, <2>4 DEF Writes
    <3>2. table'[job[a].id] = Written(job[a]) /\ Written(job[a]) # Nothing
      BY <1>0, <2>1, <2>4, <3>1, WrittenIs, ProfilesBounds
    <3>3. /\ job[a].kind = "insert" => table[job[a].id] = Nothing /\ ~Written(job[a]).dead
          /\ job[a].kind = "update" => /\ table[job[a].id] # Nothing
                                       /\ Written(job[a]).dead = table[job[a].id].dead
          /\ job[a].kind = "delete" => table[job[a].id] # Nothing /\ Written(job[a]).dead
      BY <1>0, <2>1, <2>4, WrittenSays
    <3>4. job[a].kind \in {"insert", "update", "delete"}
      BY <1>0, <2>1, ChangeIs DEF ChangeRow
    <3>5. \A i \in Id : table'[i] # Nothing /\ table'[i].dead => i \in erased'
      BY <1>1, <2>1, <3>1, <3>2, <3>3, <3>4
    <3>6. ASSUME NEW i \in erased' \ astray', i \in Live(table') PROVE FALSE
      <4>1. CASE i = job[a].id
        <5>1. ~Written(job[a]).dead
          BY <3>2, <3>6, <4>1 DEF Live
        <5>2. job[a].kind # "delete" /\ i \in erased \ astray
          BY <2>1, <3>1, <3>3, <3>6, <5>1
        <5>3. i \notin Live(table) /\ (table[i] = Nothing => job[a].kind # "insert")
          BY <1>3, <2>1, <4>1, <5>2
        <5> QED BY <2>1, <3>3, <3>4, <4>1, <5>1, <5>2, <5>3 DEF Live
      <4>2. CASE i # job[a].id
        <5>1. i \in Id /\ table'[i] = table[i]
          BY <2>1, <3>6, <4>2 DEF Live
        <5>2. i \in erased \ astray
          BY <2>1, <3>1, <3>6, <4>2
        <5> QED BY <1>3, <3>6, <5>1, <5>2 DEF Live
      <4> QED BY <4>1, <4>2
    <3>7. erased' \subseteq Id /\ erased \subseteq erased'
      BY <1>0, <2>1, <3>1
    <3>8. \A i \in erased' \ astray' : table'[i] = Nothing => i \in erased \ astray /\ table[i] = Nothing
      BY <2>1, <3>7
    <3> QED BY <1>6, <2>2, <3>5, <3>6, <3>7, <3>8
  <2> QED BY <2>3, <2>4
<1> QED BY <1>5, <1>7, <1>8, <1>9, TableElsewhere, AstrayElsewhere

-----------------------------------------------------------------------------
(* A list agrees with the table at its revision.                           *)

\* The same, spelled out, now and after a step.
SoundNow(list, a) ==
  /\ a <= rev => \A i \in Id : table[i] # Nothing /\ (table[i].rev <= a \/ a = rev) =>
                   Agrees(list[i], table[i], i \in astray)
  /\ a <= rev /\ saved # Nothing /\ saved.rev = rev =>
       \A i \in Id : saved.table[i] # Nothing /\ (saved.table[i].rev <= a \/ a = rev) =>
         Agrees(list[i], saved.table[i], i \in astray)
  /\ \A i \in Id \ astray : table[i] # Nothing /\ table[i].dead /\ table[i].rev <= a => list[i] = Nothing
  /\ saved # Nothing => \A i \in Id \ astray :
       saved.table[i] # Nothing /\ saved.table[i].dead /\ saved.table[i].rev <= a => list[i] = Nothing
  /\ \A i \in erased \ astray : table[i] = Nothing => list[i] = Nothing

SoundAfter(list, a) ==
  /\ a <= rev' => \A i \in Id : table'[i] # Nothing /\ (table'[i].rev <= a \/ a = rev') =>
                    Agrees(list[i], table'[i], i \in astray')
  /\ a <= rev' /\ saved' # Nothing /\ saved'.rev = rev' =>
       \A i \in Id : saved'.table[i] # Nothing /\ (saved'.table[i].rev <= a \/ a = rev') =>
         Agrees(list[i], saved'.table[i], i \in astray')
  /\ \A i \in Id \ astray' : table'[i] # Nothing /\ table'[i].dead /\ table'[i].rev <= a => list[i] = Nothing
  /\ saved' # Nothing => \A i \in Id \ astray' :
       saved'.table[i] # Nothing /\ saved'.table[i].dead /\ saved'.table[i].rev <= a => list[i] = Nothing
  /\ \A i \in erased' \ astray' : table'[i] = Nothing => list[i] = Nothing

LEMMA SoundIs ==
  ASSUME NEW list, NEW a
  PROVE  Sound(list, a) <=> SoundNow(list, a)
BY DEF Sound, SoundNow, Follows, Learnt

\* What is asked of a list and a revision for a step to keep them sound.
Steady(list, a) ==
  /\ a \in Nat /\ Sound(list, a) /\ Ahead(a)
  /\ \A c \in Author : Bumps(c) => a < job[c].rev
  /\ \A c \in Author : At(c, "write") => a < job[c].rev /\ a < rev
  /\ \A b \in Beat : Prunes(b) =>
       beat[b].floor <= a \/ \A i \in Prunable(beat[b].floor) \ astray' : list[i] = Nothing
  /\ Restores => rev = saved.rev \/ a = 0 \/ a > rev'

\* The rows have revisions.
LEMMA RevisionsThere ==
  ASSUME TypeOK
  PROVE  /\ \A i \in Id : table[i] # Nothing => table[i].rev \in Nat \ {0}
         /\ saved # Nothing => \A i \in Id : saved.table[i] # Nothing => saved.table[i].rev \in Nat \ {0}
BY RowIs, BaseIs DEF Row

\* A probe that is ahead is ahead of what a start leaves.
LEMMA AheadOfStarts ==
  ASSUME Always, NEW a \in Nat, Ahead(a), a > rev
  PROVE  /\ Restarts => rev' = rev
         /\ Restores => rev' < a
<1>0. TypeOK /\ rev \in Nat \ {0} /\ table \in [Id -> Row \cup {Nothing}]
  BY DEF Always, TypeOK
<1>1. /\ \A i \in Id : table[i] # Nothing => table[i].rev <= rev
      /\ saved # Nothing /\ saved.rev <= rev
      /\ \A i \in Id : saved.table[i] # Nothing => saved.table[i].rev <= rev
  BY DEF Ahead
<1>2. CASE Restarts
  <2>1. rev' = Lifted(rev, table)
    BY <1>2 DEF Restarts, Starts
  <2>2. /\ Lifted(rev, table) \in Nat /\ Lifted(rev, table) >= rev
        /\ Lifted(rev, table) = rev \/ \E i \in Id : table[i] # Nothing /\ Lifted(rev, table) = table[i].rev
    BY <1>0, LiftedIs
  <2>3. rev' = rev
    BY <1>0, <1>1, <2>1, <2>2
  <2>4. Restores => rev' < a
    BY <1>0, <2>3
  <2> QED BY <2>3, <2>4
<1>3. CASE Restores
  <2>1. rev' = Lifted(saved.rev, saved.table) /\ saved.rev \in Nat \ {0} /\ saved.table \in [Id -> Row \cup {Nothing}]
    BY <1>0, <1>1, <1>3, BaseIs DEF Restores, Starts
  <2>2. /\ Lifted(saved.rev, saved.table) \in Nat /\ Lifted(saved.rev, saved.table) >= saved.rev
        /\ \/ Lifted(saved.rev, saved.table) = saved.rev
           \/ \E i \in Id : saved.table[i] # Nothing /\ Lifted(saved.rev, saved.table) = saved.table[i].rev
    BY <2>1, LiftedIs
  <2>3. rev' <= rev /\ rev' \in Nat
    BY <1>1, <2>1, <2>2
  <2>4. rev' < a
    BY <1>0, <2>3
  <2>5. Restarts => rev' = rev
    <3>1. Restarts => rev' = Lifted(rev, table)
      BY DEF Restarts, Starts
    <3>2. Lifted(rev, table) \in Nat /\ Lifted(rev, table) >= rev
      BY <1>0, LiftedIs
    <3> QED BY <1>0, <2>3, <3>1, <3>2
  <2> QED BY <2>3, <2>4, <2>5
<1> QED BY <1>2, <1>3

LEMMA SoundKept ==
  ASSUME Always, Orderliness, [WritingNext]_profilesVars, ~disturbed', NEW list \in Lists, NEW a, Steady(list, a)
  PROVE  SoundAfter(list, a)
<1>0. /\ TypeOK /\ ChangesAreRead /\ BackupIsOlder /\ a \in Nat /\ rev \in Nat \ {0}
      /\ table \in [Id -> Row \cup {Nothing}] /\ Ahead(a)
      /\ \A c \in Author : Bumps(c) => a < job[c].rev
      /\ \A c \in Author : At(c, "write") => a < job[c].rev /\ a < rev
      /\ \A i \in Id : table[i] # Nothing => table[i].rev \in Nat \ {0}
      /\ saved # Nothing => /\ saved.rev \in Nat \ {0} /\ saved.rev <= rev
                            /\ \A i \in Id : saved.table[i] # Nothing => saved.table[i].rev \in Nat \ {0}
  BY RevisionsThere, BaseIs DEF Always, Orderliness, Steady, TypeOK, BackupIsOlder
<1>1. SoundNow(list, a)
  BY SoundIs DEF Steady
<1>3. CASE UNCHANGED <<rev, table, saved, erased, astray>>
  BY <1>1, <1>3 DEF SoundNow, SoundAfter
<1>4. ASSUME NEW c \in Author, Bumps(c) PROVE SoundAfter(list, a)
  <2>1. /\ At(c, "bump") /\ rev' = job[c].rev /\ job[c].rev \in Nat /\ a < job[c].rev
        /\ UNCHANGED <<table, saved, erased, astray>>
    BY <1>0, <1>4, BumpsDoes
  <2>2. a <= rev
    BY <1>0, <2>1 DEF Ahead
  <2>3. saved # Nothing => saved.rev < rev'
    BY <1>0, <2>1 DEF BackupIsOlder, Underway
  <2>4. a # rev' /\ (saved # Nothing => saved.rev # rev')
    BY <1>0, <2>1, <2>3
  <2> QED BY <1>1, <2>1, <2>2, <2>4 DEF SoundNow, SoundAfter
<1>5. ASSUME NEW c \in Author, Writes(c) PROVE SoundAfter(list, a)
  <2>1. /\ At(c, "write") /\ job[c].id \in Id /\ job[c].rev \in Nat
        /\ UNCHANGED <<rev, saved, astray>>
        /\ \A i \in Id \ {job[c].id} : table'[i] = table[i]
        /\ \/ table'[job[c].id] = table[job[c].id]
           \/ table'[job[c].id] # Nothing /\ table'[job[c].id].rev = job[c].rev
        /\ \A i \in Id : table[i] # Nothing => table'[i] # Nothing
        /\ \A i \in erased' : i \in erased \/ table'[i] # Nothing
    BY <1>0, <1>5, WritesDoes
  <2>2. a < job[c].rev /\ a < rev
    BY <1>0, <2>1
  <2>3. \A i \in Id : table'[i] = table[i] \/ (table'[i] # Nothing /\ ~(table'[i].rev <= a))
    BY <1>0, <2>1, <2>2
  <2>4. a # rev /\ (saved # Nothing => saved.rev # rev)
    BY <1>0, <2>1, <2>2 DEF BackupIsOlder
  <2>5. \A i \in erased' \ astray' : table'[i] = Nothing => i \in erased \ astray /\ i \in Id /\ table[i] = Nothing
    BY <1>0, <2>1 DEF TypeOK
  <2>6. /\ a <= rev' => \A i \in Id : table'[i] # Nothing /\ (table'[i].rev <= a \/ a = rev') =>
                    Agrees(list[i], table'[i], i \in astray')
        /\ \A i \in Id \ astray' : table'[i] # Nothing /\ table'[i].dead /\ table'[i].rev <= a => list[i] = Nothing
    BY <1>1, <2>1, <2>3, <2>4 DEF SoundNow
  <2>7. \A i \in erased' \ astray' : table'[i] = Nothing => list[i] = Nothing
    BY <1>1, <2>5 DEF SoundNow
  <2>8. saved' # Nothing => \A i \in Id \ astray' :
          saved'.table[i] # Nothing /\ saved'.table[i].dead /\ saved'.table[i].rev <= a => list[i] = Nothing
    BY <1>1, <2>1 DEF SoundNow
  <2> QED BY <2>1, <2>4, <2>6, <2>7, <2>8 DEF SoundAfter
<1>6. ASSUME NEW b \in Beat, Prunes(b) PROVE SoundAfter(list, a)
  <2> DEFINE gone == Prunable(beat[b].floor)
  <2>1. /\ astray \subseteq astray' /\ UNCHANGED <<rev, saved, erased>>
        /\ \A i \in Id : table'[i] = IF i \in gone THEN Nothing ELSE table[i]
    BY <1>6 DEF Prunes, bounds
  <2>2. gone \subseteq Id /\ \A i \in gone : table[i] # Nothing /\ table[i].dead /\ table[i].rev <= beat[b].floor
    BY DEF Prunable
  <2>3. \A i \in gone \ astray' : list[i] = Nothing
    <3>1. CASE beat[b].floor <= a
      <4>1. beat[b].floor \in Nat
        BY <1>0, <1>6, MessageIs DEF Prunes, BeatAt
      <4>2. \A i \in gone : table[i].rev <= a
        BY <1>0, <2>2, <3>1, <4>1
      <4> QED BY <1>1, <2>1, <2>2, <4>2 DEF SoundNow
    <3> QED BY <1>6, <3>1 DEF Steady
  <2> HIDE DEF gone
  <2>4. \A i \in Id : table'[i] # Nothing => table'[i] = table[i]
    BY <2>1
  <2>5. \A row \in Row : \A e, i : Agrees(e, row, i \in astray) => Agrees(e, row, i \in astray')
    BY <2>1 DEF Agrees
  <2>6. /\ \A i \in Id : table[i] # Nothing => table[i] \in Row
        /\ saved # Nothing => \A i \in Id : saved.table[i] # Nothing => saved.table[i] \in Row
    BY <1>0, BaseIs, RowIs
  <2>7. a <= rev' => \A i \in Id : table'[i] # Nothing /\ (table'[i].rev <= a \/ a = rev') =>
                    Agrees(list[i], table'[i], i \in astray')
    BY <1>1, <2>1, <2>4, <2>5, <2>6 DEF SoundNow
  <2>8. a <= rev' /\ saved' # Nothing /\ saved'.rev = rev' =>
       \A i \in Id : saved'.table[i] # Nothing /\ (saved'.table[i].rev <= a \/ a = rev') =>
         Agrees(list[i], saved'.table[i], i \in astray')
    BY <1>1, <2>1, <2>5, <2>6 DEF SoundNow
  <2>9. /\ \A i \in Id \ astray' : table'[i] # Nothing /\ table'[i].dead /\ table'[i].rev <= a => list[i] = Nothing
        /\ saved' # Nothing => \A i \in Id \ astray' :
             saved'.table[i] # Nothing /\ saved'.table[i].dead /\ saved'.table[i].rev <= a => list[i] = Nothing
    BY <1>1, <2>1, <2>4 DEF SoundNow
  <2>10. \A i \in erased' \ astray' : table'[i] = Nothing => list[i] = Nothing
    <3>1. erased \subseteq Id
      BY <1>0 DEF TypeOK
    <3> QED BY <1>1, <2>1, <2>3, <3>1 DEF SoundNow
  <2> QED BY <2>7, <2>8, <2>9, <2>10 DEF SoundAfter
<1>7. CASE Saves
  <2>1. saved'.rev = rev /\ saved'.table = table /\ UNCHANGED <<rev, table, erased, astray>>
    BY <1>7 DEF Saves, hub
  <2> QED BY <1>1, <2>1 DEF SoundNow, SoundAfter
<1>8. CASE Restarts
  <2>1. rev' = Lifted(rev, table) /\ UNCHANGED <<table, saved, erased, astray>>
    BY <1>8 DEF Restarts, Starts
  <2>2. Lifted(rev, table) \in Nat /\ Lifted(rev, table) >= rev
    BY <1>0, LiftedIs
  <2>3. a > rev => rev' = rev
    BY <1>0, <1>8, AheadOfStarts DEF Always
  <2>4. a <= rev' => a <= rev /\ (a = rev' => a = rev)
    BY <1>0, <2>1, <2>2, <2>3
  <2>5. a <= rev' /\ saved # Nothing /\ saved.rev = rev' => saved.rev = rev
    BY <1>0, <2>1, <2>2
  <2> QED BY <1>1, <2>1, <2>4, <2>5 DEF SoundNow, SoundAfter
<1>9. CASE Restores
  <2>1. /\ saved # Nothing /\ rev' = Lifted(saved.rev, saved.table) /\ table' = saved.table
        /\ UNCHANGED <<saved, astray>> /\ erased' = {i \in Id : saved.table[i] # Nothing /\ saved.table[i].dead}
    BY <1>9 DEF Restores, Starts
  <2>2. Lifted(saved.rev, saved.table) \in Nat /\ Lifted(saved.rev, saved.table) >= saved.rev
    BY <1>0, <2>1, BaseIs, LiftedIs
  <2>3. a <= rev' => a = 0 \/ (saved.rev = rev /\ a <= rev /\ (a = rev' => a = rev))
    <3>1. rev = saved.rev \/ a = 0 \/ a > rev'
      BY <1>9 DEF Steady
    <3>2. a > rev => rev' < a
      BY <1>0, <1>9, AheadOfStarts
    <3> QED BY <1>0, <2>1, <2>2, <3>1, <3>2
  <2>4. a <= rev' => \A i \in Id : saved.table[i] # Nothing /\ (saved.table[i].rev <= a \/ a = rev') =>
                    Agrees(list[i], saved.table[i], i \in astray)
    <3>1. CASE a = 0
      <4>1. a # rev' /\ \A i \in Id : saved.table[i] # Nothing => ~(saved.table[i].rev <= a)
        BY <1>0, <2>1, <2>2, <3>1
      <4> QED BY <4>1
    <3>2. CASE saved.rev = rev /\ a <= rev /\ (a = rev' => a = rev)
      BY <1>1, <2>1, <3>2 DEF SoundNow
    <3> QED BY <2>3, <3>1, <3>2
  <2>5. \A i \in Id \ astray : saved.table[i] # Nothing /\ saved.table[i].dead /\ saved.table[i].rev <= a => list[i] = Nothing
    BY <1>1, <2>1 DEF SoundNow
  <2>6. \A i \in erased' : table'[i] # Nothing
    BY <2>1
  <2> QED BY <2>1, <2>4, <2>5, <2>6 DEF SoundAfter
<1> QED BY <1>3, <1>4, <1>5, <1>6, <1>7, <1>8, <1>9, HubElsewhere

-----------------------------------------------------------------------------
(* A list that holds what the hub pruned is to be replaced.                *)

\* Until the threshold is raised, the message that will raise it stays.
LEMMA MarkStays ==
  ASSUME TypeOK, [WritingNext]_profilesVars, NEW b \in Beat, BeatAt(b, "mark"), ~Marks(b), ~Restarts, ~Restores
  PROVE  beat'[b] # Nothing /\ beat'[b].at = "mark" /\ beat'[b].floor = beat[b].floor
<1>0. beat[b] # Nothing /\ beat[b].at = "mark"
  BY DEF BeatAt
<1>1. CASE UNCHANGED beat
  BY <1>0, <1>1
<1>2. ASSUME NEW c \in Beat, c # b, BeatSteps(c) \/ GivesUp(c) PROVE beat'[b] = beat[b]
  BY <1>2, MessageAfter
<1>3. ASSUME NEW c \in Beat, NEW p \in Probe, Sends(c, p) \/ Deposits(c, p) PROVE beat'[b] = beat[b]
  BY <1>0, <1>3, SendsDoes
<1>4. CASE GivesUp(b)
  BY <1>0, <1>4, GivesUpDoes
<1>5. ~(Ingests(b) \/ DepositEnds(b) \/ Notes(b) \/ Prunes(b) \/ Compares(b) \/ Selects(b) \/ Aligns(b) \/ Discards(b))
  BY <1>0 DEF Ingests, DepositEnds, Ingested, Notes, Prunes, Compares, Selects, Aligns, Discards, BeatAt
<1> QED BY <1>0, <1>1, <1>2, <1>3, <1>4, <1>5, BeatElsewhere DEF BeatSteps

OutdatedAfter(p, a) ==
  \/ a + 1 < purged'
  \/ ~line'[p].counted /\ \E b \in Beat : beat'[b] # Nothing /\ beat'[b].at = "mark" /\ a < beat'[b].floor

ReplaceableAfter(p, list, a) ==
  /\ \A i \in Id : a <= rev' /\ table'[i] = Nothing /\ Theirs(list, i) => a < rev' /\ OutdatedAfter(p, a)
  /\ \A i \in Id : a <= rev' /\ saved' # Nothing /\ saved'.rev = rev' /\ saved'.table[i] = Nothing /\ Theirs(list, i)
                     => a < rev' /\ a + 1 < saved'.purged
  /\ a = 0 => \A i \in Id : ~Theirs(list, i)

LEMMA OutdatedKept ==
  ASSUME Always, [WritingNext]_profilesVars, ~disturbed', ~Restores, NEW p \in Probe, NEW a \in Nat, Outdated(p, a)
  PROVE  OutdatedAfter(p, a)
<1>0. TypeOK /\ purged \in Nat /\ line \in [Probe -> Line]
  BY DEF Always, TypeOK
<1>1. ASSUME NEW b \in Beat, Marks(b)
      PROVE  /\ beat[b].floor \in Nat /\ purged' \in Nat
             /\ purged' >= purged /\ purged' >= beat[b].floor + 1
  <2>1. beat[b].floor \in Nat /\ purged' = Marked(beat[b].floor)
    BY <1>0, <1>1, MessageIs DEF Marks, BeatAt
  <2>2. beat[b].floor + 1 \in Nat
    BY <2>1
  <2>3. /\ Marked(beat[b].floor) \in {purged, beat[b].floor + 1}
        /\ Marked(beat[b].floor) >= purged /\ Marked(beat[b].floor) >= beat[b].floor + 1
    BY <1>0, <2>2, GreaterRevision DEF Marked
  <2> QED BY <1>0, <2>1, <2>2, <2>3
<1>2. CASE a + 1 < purged
  <2>1. ASSUME NEW b \in Beat, Marks(b) PROVE a + 1 < purged'
    BY <1>0, <1>1, <1>2, <2>1
  <2> QED BY <1>2, <2>1, PurgedElsewhere DEF OutdatedAfter
<1>3. ASSUME ~line[p].counted, NEW b \in Beat, BeatAt(b, "mark"), a < beat[b].floor
      PROVE  OutdatedAfter(p, a)
  <2>1. CASE Marks(b)
    <3>1. a + 1 < purged'
      BY <1>1, <1>3, <2>1
    <3> QED BY <3>1 DEF OutdatedAfter
  <2>2. CASE ~Marks(b)
    <3>1. ~Restarts
      BY <1>3 DEF Restarts, Unmarked
    <3>2. beat'[b] # Nothing /\ beat'[b].at = "mark" /\ beat'[b].floor = beat[b].floor
      BY <1>0, <1>3, <2>2, <3>1, MarkStays
    <3>3. ~line'[p].counted
      <4>1. ASSUME NEW c \in Beat, Notes(c) PROVE line'[p] = line[p]
        <5>1. b \in Pruning
          BY <1>3 DEF Pruning
        <5>2. beat[c].who # p
          BY <1>3, <4>1, <5>1 DEF Notes
        <5> QED BY <1>0, <4>1, <5>2, NotesSays
      <4>2. ASSUME NEW q \in Probe, FallsSilent(q) PROVE ~line'[p].counted
        <5>1. q # p
          BY <1>3, <4>2 DEF FallsSilent
        <5>2. line'[p] = line[p]
          BY <1>0, <4>2, <5>1 DEF FallsSilent
        <5> QED BY <1>3, <5>2
      <4> QED BY <1>3, <4>1, <4>2, LineElsewhere
    <3> QED BY <1>3, <3>2, <3>3 DEF OutdatedAfter
  <2> QED BY <2>1, <2>2
<1> QED BY <1>2, <1>3 DEF Outdated

LEMMA ReplaceableKept ==
  ASSUME Always, Orderliness, [WritingNext]_profilesVars, ~disturbed', NEW p \in Probe, NEW list \in Lists, NEW a,
         Steady(list, a), Replaceable(p, list, a), line[p].counted => \A b \in Pruning : beat[b].floor <= a
  PROVE  ReplaceableAfter(p, list, a)
<1>0. /\ TypeOK /\ ChangesAreRead /\ BackupIsOlder /\ a \in Nat /\ rev \in Nat \ {0} /\ purged \in Nat
      /\ table \in [Id -> Row \cup {Nothing}] /\ Ahead(a)
      /\ \A c \in Author : Bumps(c) => a < job[c].rev
      /\ \A c \in Author : At(c, "write") => a < job[c].rev /\ a < rev
      /\ saved # Nothing => saved.rev \in Nat \ {0} /\ saved.rev <= rev
  BY BaseIs DEF Always, Orderliness, Steady, TypeOK, BackupIsOlder
<1>1. /\ \A i \in Id : a <= rev /\ table[i] = Nothing /\ Theirs(list, i) => a < rev /\ Outdated(p, a)
      /\ \A i \in Id : a <= rev /\ saved # Nothing /\ saved.rev = rev /\ saved.table[i] = Nothing /\ Theirs(list, i)
                         => a < rev /\ a + 1 < saved.purged
      /\ a = 0 => \A i \in Id : ~Theirs(list, i)
  BY DEF Replaceable
<1>2. ~Restores /\ Outdated(p, a) => OutdatedAfter(p, a)
  BY <1>0, OutdatedKept
\* When the revision, the rows that are missing and the backup are the same.
<1>3. ASSUME ~Restores, UNCHANGED <<rev, saved>>, \A i \in Id : table'[i] = Nothing => table[i] = Nothing
      PROVE  ReplaceableAfter(p, list, a)
  BY <1>1, <1>2, <1>3 DEF ReplaceableAfter
<1>4. CASE Restores
  <2>1. saved # Nothing /\ rev' = Lifted(saved.rev, saved.table) /\ table' = saved.table /\ saved' = saved /\ purged' = saved.purged
    BY <1>4 DEF Restores, Starts
  <2>2. Lifted(saved.rev, saved.table) \in Nat /\ Lifted(saved.rev, saved.table) >= saved.rev
    BY <1>0, <2>1, BaseIs, LiftedIs
  <2>3. a <= rev' => a = 0 \/ (saved.rev = rev /\ a <= rev /\ rev <= rev')
    <3>1. rev = saved.rev \/ a = 0 \/ a > rev'
      BY <1>4 DEF Steady
    <3>2. a > rev => rev' < a
      BY <1>0, <1>4, AheadOfStarts
    <3> QED BY <1>0, <2>1, <2>2, <3>1, <3>2
  <2>4. ASSUME NEW i \in Id, a <= rev', saved.table[i] = Nothing, Theirs(list, i)
        PROVE  a < rev' /\ a + 1 < saved.purged
    <3>1. saved.rev = rev /\ a <= rev /\ rev <= rev'
      BY <1>1, <2>3, <2>4
    <3>2. a < rev /\ a + 1 < saved.purged
      BY <1>1, <2>1, <2>4, <3>1
    <3> QED BY <1>0, <2>1, <2>2, <3>1, <3>2
  <2> QED BY <1>1, <2>1, <2>4 DEF ReplaceableAfter, OutdatedAfter
<1>5. ASSUME ~Restores, NEW c \in Author, Bumps(c) PROVE ReplaceableAfter(p, list, a)
  <2>1. /\ At(c, "bump") /\ rev' = job[c].rev /\ job[c].rev \in Nat /\ a < job[c].rev
        /\ UNCHANGED <<table, saved>>
    BY <1>0, <1>5, BumpsDoes
  <2>2. a <= rev
    BY <1>0, <2>1 DEF Ahead
  <2>3. saved # Nothing => saved.rev < rev'
    BY <1>0, <2>1 DEF BackupIsOlder, Underway
  <2>4. saved # Nothing => saved.rev # rev'
    BY <1>0, <2>1, <2>3
  <2> QED BY <1>1, <1>2, <1>5, <2>1, <2>2, <2>4 DEF ReplaceableAfter
<1>6. ASSUME ~Restores, NEW c \in Author, Writes(c) PROVE ReplaceableAfter(p, list, a)
  <2>1. UNCHANGED <<rev, saved>> /\ \A i \in Id : table[i] # Nothing => table'[i] # Nothing
    BY <1>0, <1>6, WritesDoes
  <2> QED BY <1>3, <1>6, <2>1
<1>7. ASSUME ~Restores, NEW b \in Beat, Prunes(b) PROVE ReplaceableAfter(p, list, a)
  <2> DEFINE gone == Prunable(beat[b].floor)
  <2>1. /\ BeatAt(b, "prune") /\ beat[b] # Nothing /\ beat[b].floor \in Nat /\ UNCHANGED <<rev, saved, line>>
        /\ \A i \in Id : table'[i] = IF i \in gone THEN Nothing ELSE table[i]
    BY <1>0, <1>7, MessageIs DEF Prunes, bounds, BeatAt
  <2>2. ASSUME NEW i \in gone, a <= rev, Theirs(list, i)
        PROVE  a < rev /\ OutdatedAfter(p, a)
    <3>1. i \in Id /\ table[i] # Nothing /\ table[i].dead /\ table[i].rev <= beat[b].floor /\ table[i].rev \in Nat
      BY <1>0, <2>2, RevisionsThere DEF Prunable
    <3>2. ~Agrees(list[i], table[i], i \in astray)
      BY <2>2, <3>1 DEF Agrees, Theirs
    <3>3. ~(table[i].rev <= a) /\ a # rev
      BY <2>2, <3>1, <3>2 DEF Steady, Sound, Follows
    <3>4. a < rev /\ a < beat[b].floor
      BY <1>0, <2>1, <2>2, <3>1, <3>3
    <3>5. ~line[p].counted
      <4>1. b \in Pruning
        BY <2>1 DEF Pruning
      <4> QED BY <1>0, <2>1, <3>4, <4>1
    <3>6. beat'[b] # Nothing /\ beat'[b].at = "mark" /\ beat'[b].floor = beat[b].floor
      BY <1>0, <1>7, <2>2, PrunesSomeDoes
    <3> QED BY <2>1, <3>4, <3>5, <3>6 DEF OutdatedAfter
  <2> HIDE DEF gone
  <2>3. \A i \in Id : a <= rev' /\ table'[i] = Nothing /\ Theirs(list, i) => a < rev' /\ OutdatedAfter(p, a)
    BY <1>1, <1>2, <1>7, <2>1, <2>2
  <2> QED BY <1>1, <2>1, <2>3 DEF ReplaceableAfter
<1>8. ASSUME ~Restores, Saves PROVE ReplaceableAfter(p, list, a)
  <2>1. /\ saved'.rev = rev /\ saved'.table = table /\ saved'.purged = purged /\ UNCHANGED <<rev, table>> /\ ~Unmarked
    BY <1>8 DEF Saves, hub
  <2>2. Outdated(p, a) => a + 1 < purged
    BY <2>1 DEF Outdated, Unmarked
  <2> QED BY <1>1, <1>2, <1>8, <2>1, <2>2 DEF ReplaceableAfter
<1>9. ASSUME ~Restores, Restarts PROVE ReplaceableAfter(p, list, a)
  <2>1. rev' = Lifted(rev, table) /\ UNCHANGED <<table, saved>>
    BY <1>9 DEF Restarts, Starts
  <2>2. Lifted(rev, table) \in Nat /\ Lifted(rev, table) >= rev
    BY <1>0, LiftedIs
  <2>3. a > rev => rev' = rev
    BY <1>0, <1>9, AheadOfStarts
  <2>4. a <= rev' => a <= rev
    BY <1>0, <2>1, <2>2, <2>3
  <2>5. saved # Nothing /\ saved.rev = rev' => saved.rev = rev
    BY <1>0, <2>1, <2>2
  <2>6. a < rev => a < rev'
    BY <1>0, <2>1, <2>2
  <2> QED BY <1>1, <1>2, <1>9, <2>1, <2>4, <2>5, <2>6 DEF ReplaceableAfter
<1> QED BY <1>3, <1>4, <1>5, <1>6, <1>7, <1>8, <1>9, HubElsewhere

-----------------------------------------------------------------------------
(* The list an answer leads to.                                            *)

ExactAfter(list) ==
  /\ \A i \in Id : table'[i] = Nothing => ~Theirs(list, i)
  /\ saved' # Nothing /\ saved'.rev = rev' => \A i \in Id : saved'.table[i] = Nothing => ~Theirs(list, i)

LEMMA ExactKept ==
  ASSUME Always, Orderliness, [WritingNext]_profilesVars, ~Restarts, ~Restores, NEW list \in Lists, NEW a \in Nat,
         Sound(list, a), Exact(list), a <= rev, \A b \in Pruning : beat[b].floor <= a
  PROVE  ExactAfter(list)
<1>0. TypeOK /\ ChangesAreRead /\ BackupIsOlder /\ rev \in Nat \ {0}
  BY DEF Always, Orderliness, TypeOK
<1>1. /\ \A i \in Id : table[i] = Nothing => ~Theirs(list, i)
      /\ saved # Nothing /\ saved.rev = rev => \A i \in Id : saved.table[i] = Nothing => ~Theirs(list, i)
  BY DEF Exact
<1>2. CASE UNCHANGED <<rev, table, saved, erased, astray>>
  BY <1>1, <1>2 DEF ExactAfter
<1>3. ASSUME NEW c \in Author, Bumps(c) PROVE ExactAfter(list)
  <2>1. At(c, "bump") /\ rev' = job[c].rev /\ job[c].rev \in Nat /\ UNCHANGED <<table, saved>>
    BY <1>0, <1>3, BumpsDoes
  <2>2. saved # Nothing => saved.rev < rev' /\ saved.rev \in Nat
    BY <1>0, <2>1, BaseIs DEF BackupIsOlder, Underway
  <2>3. saved # Nothing => saved.rev # rev'
    BY <2>1, <2>2
  <2> QED BY <1>1, <2>1, <2>3 DEF ExactAfter
<1>4. ASSUME NEW c \in Author, Writes(c) PROVE ExactAfter(list)
  <2>1. UNCHANGED <<rev, saved>> /\ \A i \in Id : table[i] # Nothing => table'[i] # Nothing
    BY <1>0, <1>4, WritesDoes
  <2> QED BY <1>1, <2>1 DEF ExactAfter
<1>5. ASSUME NEW b \in Beat, Prunes(b) PROVE ExactAfter(list)
  <2> DEFINE gone == Prunable(beat[b].floor)
  <2>1. /\ BeatAt(b, "prune") /\ beat[b] # Nothing /\ beat[b].floor \in Nat /\ UNCHANGED <<rev, saved>>
        /\ \A i \in Id : table'[i] = IF i \in gone THEN Nothing ELSE table[i]
    BY <1>0, <1>5, MessageIs DEF Prunes, bounds, BeatAt
  <2>2. ASSUME NEW i \in gone PROVE ~Theirs(list, i)
    <3>1. i \in Id /\ table[i] # Nothing /\ table[i].dead /\ table[i].rev <= beat[b].floor /\ table[i].rev \in Nat
      BY <1>0, RevisionsThere DEF Prunable
    <3>2. table[i].rev <= a
      <4>1. beat[b].floor <= a
        BY <2>1 DEF Pruning
      <4> QED BY <2>1, <3>1, <4>1
    <3>3. Agrees(list[i], table[i], i \in astray)
      BY <3>1, <3>2 DEF Sound, Follows
    <3> QED BY <3>1, <3>3 DEF Agrees, Theirs
  <2> HIDE DEF gone
  <2> QED BY <1>1, <2>1, <2>2 DEF ExactAfter
<1>6. CASE Saves
  <2>1. saved'.table = table /\ UNCHANGED <<rev, table>>
    BY <1>6 DEF Saves, hub
  <2> QED BY <1>1, <2>1 DEF ExactAfter
<1> QED BY <1>2, <1>3, <1>4, <1>5, <1>6, HubElsewhere

\* merge, of the rows portscan_profiles_since tells of.
LEMMA SelectsSays ==
  ASSUME TypeOK, NEW b \in Beat, Selects(b), NEW old \in Lists
  PROVE  /\ Merged(old, beat'[b].rows, beat[b].replace) \in Lists
         /\ \A i \in ToldOf(b) : Merged(old, beat'[b].rows, beat[b].replace)[i] =
              IF table[i].dead THEN Nothing ELSE [name |-> table[i].name, own |-> FALSE]
         /\ \A i \in Id \ ToldOf(b) : Merged(old, beat'[b].rows, beat[b].replace)[i] =
              IF beat[b].replace /\ Theirs(old, i) THEN Nothing ELSE old[i]
<1>1. beat[b] # Nothing /\ beat[b].replace \in BOOLEAN
  BY MessageIs DEF Selects, BeatAt
<1> DEFINE rows == beat'[b].rows
<1>2. rows \in SUBSET Told /\ \A r, q \in rows : r.id = q.id => r = q
  BY SelectsDoes
<1>3. /\ \A r \in rows : r.id \in ToldOf(b) /\ r.name = table[r.id].name /\ r.dead = table[r.id].dead
      /\ \A i \in ToldOf(b) : \E r \in rows : r.id = i
  BY SelectsDoes
<1> HIDE DEF rows
<1>4. /\ Merged(old, rows, beat[b].replace) \in Lists
      /\ \A r \in rows : Merged(old, rows, beat[b].replace)[r.id] =
                           IF r.dead THEN Nothing ELSE [name |-> r.name, own |-> FALSE]
      /\ \A i \in Id : (\A r \in rows : r.id # i) =>
           Merged(old, rows, beat[b].replace)[i] = IF beat[b].replace /\ Theirs(old, i) THEN Nothing ELSE old[i]
  BY <1>1, <1>2, MergedIs
<1>5. ASSUME NEW i \in ToldOf(b)
      PROVE  Merged(old, rows, beat[b].replace)[i] =
               IF table[i].dead THEN Nothing ELSE [name |-> table[i].name, own |-> FALSE]
  <2>1. PICK r \in rows : r.id = i
    BY <1>3
  <2> QED BY <1>3, <1>4, <2>1
<1>6. ASSUME NEW i \in Id \ ToldOf(b)
      PROVE  Merged(old, rows, beat[b].replace)[i] = IF beat[b].replace /\ Theirs(old, i) THEN Nothing ELSE old[i]
  BY <1>3, <1>4
<1> QED BY <1>4, <1>5, <1>6 DEF rows

\* portscan_profiles_since: the answer leads to the hub's list.
LEMMA SelectsSound ==
  ASSUME Always, Orderliness, NEW b \in Beat, Selects(b), beat[b].awaited
  PROVE  LET list == Merged(held[beat[b].who], beat'[b].rows, beat[b].replace)
         IN  list \in Lists /\ Sound(list, beat[b].rev) /\ Exact(list)
<1>0. /\ TypeOK /\ AnswersAreOne /\ BackupIsOlder /\ DeletedIsGone /\ RevisionsInOrder /\ ListsAreSound
      /\ rev \in Nat \ {0} /\ purged \in Nat /\ erased \in SUBSET Id
  BY DEF Always, Orderliness, TypeOK
<1>1. /\ beat[b] # Nothing /\ beat[b].at = "select" /\ beat[b].who \in Probe /\ beat[b].announced \in Nat
      /\ beat[b].rev \in Nat /\ beat[b].rev # 0 /\ beat[b].replace \in BOOLEAN
      /\ line[beat[b].who].counted /\ beat[b].announced = applied[beat[b].who]
  BY <1>0, MessageIs DEF Selects, BeatAt, AnswersAreOne
<1> DEFINE p == beat[b].who
           ann == beat[b].announced
           a == beat[b].rev
           old == held[p]
           list == Merged(old, beat'[b].rows, beat[b].replace)
<1>2. old \in Lists /\ Sound(old, ann) /\ Replaceable(p, old, ann)
  BY <1>0, <1>1, LineIs DEF ListsAreSound
<1>3. a <= rev /\ (~beat[b].replace => ann <= a /\ purged <= ann + 1)
  BY <1>0, <1>1 DEF RevisionsInOrder, Answering
<1>4. /\ list \in Lists
      /\ \A i \in ToldOf(b) : list[i] = IF table[i].dead THEN Nothing ELSE [name |-> table[i].name, own |-> FALSE]
      /\ \A i \in Id \ ToldOf(b) : list[i] = IF beat[b].replace /\ Theirs(old, i) THEN Nothing ELSE old[i]
  BY <1>0, <1>2, SelectsSays
<1>5. \A i \in Id : table[i] # Nothing => table[i].rev \in Nat
  BY <1>0, RevisionsThere
<1>6. ASSUME NEW i \in Id \ ToldOf(b)
      PROVE  /\ table[i] # Nothing => ~beat[b].replace /\ table[i].rev <= ann /\ ann <= rev
             /\ old[i] = Nothing => list[i] = Nothing
             /\ ~beat[b].replace => list[i] = old[i]
  <2>1. table[i] # Nothing => ~beat[b].replace /\ ~(table[i].rev > ann)
    BY DEF ToldOf
  <2> QED BY <1>0, <1>1, <1>3, <1>4, <1>5, <2>1
<1> HIDE DEF list
<1>7. ASSUME NEW i \in Id, table[i] # Nothing PROVE Agrees(list[i], table[i], i \in astray)
  <2>1. CASE i \in ToldOf(b)
    BY <1>4, <2>1 DEF Agrees
  <2>2. CASE i \notin ToldOf(b)
    <3>1. ~beat[b].replace /\ table[i].rev <= ann /\ ann <= rev /\ list[i] = old[i]
      BY <1>6, <1>7, <2>2
    <3> QED BY <1>2, <1>7, <3>1 DEF Sound, Follows
  <2> QED BY <2>1, <2>2
<1>8. ASSUME NEW i \in Id, table[i] = Nothing PROVE ~Theirs(list, i)
  <2>1. i \notin ToldOf(b)
    BY <1>8 DEF ToldOf
  <2>2. CASE beat[b].replace
    BY <1>4, <2>1, <2>2 DEF Theirs
  <2>3. CASE ~beat[b].replace
    <3>1. list[i] = old[i] /\ ann <= rev /\ ~(ann + 1 < purged)
      BY <1>0, <1>1, <1>3, <1>6, <2>1, <2>3
    <3>2. ~Outdated(p, ann)
      BY <1>1, <3>1 DEF Outdated
    <3>3. ~Theirs(old, i)
      BY <1>2, <1>8, <3>1, <3>2 DEF Replaceable
    <3> QED BY <3>1, <3>3 DEF Theirs
  <2> QED BY <2>2, <2>3
<1>9. ASSUME NEW i \in erased \ astray, table[i] = Nothing PROVE list[i] = Nothing
  <2>1. i \in Id \ ToldOf(b)
    BY <1>0, <1>9 DEF ToldOf
  <2>2. old[i] = Nothing
    BY <1>2, <1>9 DEF Sound
  <2> QED BY <1>6, <2>1, <2>2
<1>10. ASSUME NEW i \in Id \ astray, table[i] # Nothing, table[i].dead PROVE list[i] = Nothing
  <2>1. CASE i \in ToldOf(b)
    BY <1>4, <1>10, <2>1
  <2>2. CASE i \notin ToldOf(b)
    <3>1. ~beat[b].replace /\ table[i].rev <= ann /\ list[i] = old[i]
      BY <1>6, <1>10, <2>2
    <3> QED BY <1>2, <1>10, <3>1 DEF Sound, Learnt
  <2> QED BY <2>1, <2>2
<1>11. ASSUME saved # Nothing, NEW i \in Id \ astray, saved.table[i] # Nothing, saved.table[i].dead PROVE list[i] = Nothing
  <2>1. i \in erased /\ i \notin Live(table)
    BY <1>0, <1>11 DEF DeletedIsGone
  <2> QED BY <1>9, <1>10, <1>11, <2>1 DEF Live
<1>12. ASSUME saved # Nothing, saved.rev = rev, NEW i \in Id, saved.table[i] # Nothing
       PROVE  Agrees(list[i], saved.table[i], i \in astray)
  <2>1. CASE table[i] = saved.table[i]
    BY <1>7, <1>12, <2>1
  <2>2. CASE table[i] = Nothing /\ saved.table[i].dead
    <3>1. list[i] = Nothing \/ list[i].own
      BY <1>8, <2>2 DEF Theirs
    <3>2. i \notin astray => list[i] = Nothing
      BY <1>11, <1>12, <2>2
    <3> QED BY <2>2, <3>1, <3>2 DEF Agrees
  <2> QED BY <1>0, <1>12, <2>1, <2>2 DEF BackupIsOlder
<1>13. Sound(list, a)
  BY <1>7, <1>9, <1>10, <1>11, <1>12 DEF Sound, Follows, Learnt
<1>14. ASSUME saved # Nothing, saved.rev = rev, NEW i \in Id, saved.table[i] = Nothing PROVE ~Theirs(list, i)
  <2>1. table[i] = Nothing
    BY <1>0, <1>14 DEF BackupIsOlder
  <2> QED BY <1>8, <2>1
<1>15. Exact(list)
  BY <1>8, <1>14 DEF Exact
<1> QED BY <1>4, <1>13, <1>15 DEF list

-----------------------------------------------------------------------------
(* What people do to the profiles of their probe.                          *)

\* Profiles of the probe's own come, change and go.
Edited(before, after) ==
  \A i \in Id : \/ after[i] = before[i]
                \/ /\ after[i] = Nothing \/ after[i].own
                   /\ i \in fresh \/ (before[i] # Nothing /\ before[i].own)

LEMMA SoundEdited ==
  ASSUME TypeOK, FreshIsNew, NEW before, NEW after, NEW a, Edited(before, after), Sound(before, a)
  PROVE  Sound(after, a)
<1>1. \A i \in fresh : table[i] = Nothing /\ i \notin erased /\ (saved # Nothing => saved.table[i] = Nothing)
  BY DEF FreshIsNew
<1>2. ASSUME NEW i \in Id, NEW row, i \notin fresh, Agrees(before[i], row, i \in astray)
      PROVE  Agrees(after[i], row, i \in astray)
  <2>1. CASE after[i] = before[i]
    BY <1>2, <2>1
  <2>2. CASE (after[i] = Nothing \/ after[i].own) /\ before[i] # Nothing /\ before[i].own
    <3>1. row.dead /\ i \in astray
      <4>1. before[i] # [name |-> row.name, own |-> FALSE]
        BY <2>2
      <4> QED BY <1>2, <2>2, <4>1 DEF Agrees
    <3> QED BY <2>2, <3>1 DEF Agrees
  <2> QED BY <1>2, <2>1, <2>2 DEF Edited
<1>3. \A i \in Id : i \notin fresh /\ before[i] = Nothing => after[i] = Nothing
  BY DEF Edited
<1>4. SoundNow(before, a)
  BY SoundIs
<1>5. a <= rev => \A i \in Id : table[i] # Nothing /\ (table[i].rev <= a \/ a = rev) =>
                    Agrees(after[i], table[i], i \in astray)
  BY <1>1, <1>2, <1>4 DEF SoundNow
<1>6. a <= rev /\ saved # Nothing /\ saved.rev = rev =>
       \A i \in Id : saved.table[i] # Nothing /\ (saved.table[i].rev <= a \/ a = rev) =>
         Agrees(after[i], saved.table[i], i \in astray)
  BY <1>1, <1>2, <1>4 DEF SoundNow
<1>7. /\ \A i \in Id \ astray : table[i] # Nothing /\ table[i].dead /\ table[i].rev <= a => after[i] = Nothing
      /\ saved # Nothing => \A i \in Id \ astray :
           saved.table[i] # Nothing /\ saved.table[i].dead /\ saved.table[i].rev <= a => after[i] = Nothing
  BY <1>1, <1>3, <1>4 DEF SoundNow
<1>8. \A i \in erased \ astray : table[i] = Nothing => after[i] = Nothing
  <2>1. erased \subseteq Id
    BY DEF TypeOK
  <2> QED BY <1>1, <1>3, <1>4, <2>1 DEF SoundNow
<1> QED BY <1>5, <1>6, <1>7, <1>8, SoundIs DEF SoundNow

LEMMA TheirsEdited ==
  ASSUME NEW before, NEW after, Edited(before, after), NEW i \in Id, Theirs(after, i)
  PROVE  Theirs(before, i)
BY DEF Edited, Theirs

LEMMA MergedEdited ==
  ASSUME NEW before \in Lists, NEW after \in Lists, Edited(before, after),
         NEW rows \in SUBSET Told, NEW replace \in BOOLEAN, \A r, q \in rows : r.id = q.id => r = q
  PROVE  Edited(Merged(before, rows, replace), Merged(after, rows, replace))
<1> DEFINE x == Merged(before, rows, replace)
           y == Merged(after, rows, replace)
<1>1. /\ \A r \in rows : x[r.id] = IF r.dead THEN Nothing ELSE [name |-> r.name, own |-> FALSE]
      /\ \A i \in Id : (\A r \in rows : r.id # i) =>
           x[i] = IF replace /\ Theirs(before, i) THEN Nothing ELSE before[i]
  BY MergedIs
<1>2. /\ \A r \in rows : y[r.id] = IF r.dead THEN Nothing ELSE [name |-> r.name, own |-> FALSE]
      /\ \A i \in Id : (\A r \in rows : r.id # i) =>
           y[i] = IF replace /\ Theirs(after, i) THEN Nothing ELSE after[i]
  BY MergedIs
<1> HIDE DEF x, y
<1>3. ASSUME NEW i \in Id
      PROVE  \/ y[i] = x[i]
             \/ /\ y[i] = Nothing \/ y[i].own
                /\ i \in fresh \/ (x[i] # Nothing /\ x[i].own)
  <2>1. ASSUME NEW r \in rows, r.id = i PROVE y[i] = x[i]
    BY <1>1, <1>2, <2>1
  <2>2. CASE \A r \in rows : r.id # i
    <3>1. /\ x[i] = IF replace /\ Theirs(before, i) THEN Nothing ELSE before[i]
          /\ y[i] = IF replace /\ Theirs(after, i) THEN Nothing ELSE after[i]
      BY <1>1, <1>2, <2>2
    <3>2. CASE after[i] = before[i]
      BY <3>1, <3>2 DEF Theirs
    <3>3. CASE (after[i] = Nothing \/ after[i].own) /\ (i \in fresh \/ (before[i] # Nothing /\ before[i].own))
      <4>1. ~Theirs(after, i) /\ y[i] = after[i]
        BY <3>1, <3>3 DEF Theirs
      <4>2. i \in fresh \/ x[i] = before[i]
        BY <3>1, <3>3 DEF Theirs
      <4> QED BY <3>3, <4>1, <4>2
    <3> QED BY <3>2, <3>3 DEF Edited
  <2> QED BY <2>1, <2>2
<1>4. Edited(x, y)
  BY <1>3 DEF Edited
<1> QED BY <1>4 DEF x, y

\* add, edit, remove.
LEMMA PeopleDo ==
  ASSUME TypeOK, NEW p \in Probe, MakesHere(p) \/ EditsHere(p), ~disturbed'
  PROVE  /\ \A q \in Probe : Edited(held[q], held'[q]) /\ held'[q] \in Lists
         /\ UNCHANGED <<rev, purged, table, line, job, beat, applied, saved, erased, astray>>
<1>0. held \in [Probe -> Lists]
  BY DEF TypeOK
<1>1. UNCHANGED <<rev, purged, table, line, job, beat, applied, saved, erased, astray>>
  BY DEF MakesHere, EditsHere, hub, ghosts
<1>2. held' \in [Probe -> Lists]
  BY PeopleTypes DEF TypeOK
<1>3. ASSUME NEW i \in Id, NEW e \in Entry \cup {Nothing}, held' = [held EXCEPT ![p][i] = e],
             e = Nothing \/ e.own, i \in fresh \/ (held[p][i] # Nothing /\ held[p][i].own), NEW q \in Probe
      PROVE  Edited(held[q], held'[q])
  <2>1. CASE q = p
    <3>1. held[p] \in [Id -> Entry \cup {Nothing}]
      BY <1>0 DEF Lists
    <3>2. held'[p] = [held[p] EXCEPT ![i] = e]
      BY <1>0, <1>3
    <3>3. held'[p][i] = e /\ \A j \in Id \ {i} : held'[p][j] = held[p][j]
      BY <3>1, <3>2
    <3> QED BY <1>3, <2>1, <3>3 DEF Edited
  <2>2. CASE q # p
    <3>1. held'[q] = held[q]
      BY <1>0, <1>3, <2>2
    <3> QED BY <3>1 DEF Edited
  <2> QED BY <2>1, <2>2
<1>4. CASE MakesHere(p)
  <2>1. PICK i \in fresh, name \in Name : held' = [held EXCEPT ![p][i] = [name |-> name, own |-> TRUE]]
    BY <1>4 DEF MakesHere
  <2> DEFINE e == [name |-> name, own |-> TRUE]
  <2>2. i \in Id /\ e \in Entry /\ e.own
    BY DEF TypeOK, Entry
  <2> HIDE DEF e
  <2>3. held' = [held EXCEPT ![p][i] = e]
    BY <2>1 DEF e
  <2>4. \A q \in Probe : Edited(held[q], held'[q])
    BY <1>3, <2>2, <2>3
  <2> QED BY <1>1, <1>2, <2>4
<1>5. CASE EditsHere(p)
  <2>1. PICK i \in Held(p) :
          /\ \/ held' = [held EXCEPT ![p][i] = Nothing]
             \/ \E name \in Name \ {held[p][i].name} : held' = [held EXCEPT ![p][i].name = name]
          /\ disturbed' = (disturbed \/ ~held[p][i].own)
    BY <1>5 DEF EditsHere
  <2>2. i \in Id /\ held[p][i] # Nothing /\ held[p][i].own /\ held[p][i] \in Entry
    BY <2>1, EntryIs DEF Held
  <2>3. CASE held' = [held EXCEPT ![p][i] = Nothing]
    BY <1>1, <1>2, <1>3, <2>2, <2>3
  <2>4. ASSUME NEW name \in Name, held' = [held EXCEPT ![p][i].name = name]
        PROVE  \A q \in Probe : Edited(held[q], held'[q])
    <3> DEFINE e == [held[p][i] EXCEPT !.name = name]
    <3>1. e \in Entry /\ e.own
      BY <2>2 DEF Entry
    <3>2. held' = [held EXCEPT ![p][i] = e]
      BY <2>4
    <3> HIDE DEF e
    <3> QED BY <1>3, <2>2, <3>1, <3>2
  <2> QED BY <1>1, <1>2, <2>1, <2>3, <2>4
<1> QED BY <1>4, <1>5

-----------------------------------------------------------------------------
(* The lists stay sound.                                                   *)

LEMMA ProbeSteady ==
  ASSUME Always, Orderliness, ~disturbed', NEW p \in Probe
  PROVE  /\ Steady(held[p], applied[p]) /\ held[p] \in Lists /\ applied[p] \in Nat
         /\ Replaceable(p, held[p], applied[p])
         /\ line[p].counted => \A b \in Pruning : beat[b].floor <= applied[p]
<1>0. /\ TypeOK /\ ChangesAreRead /\ NothingReused /\ RevisionsInOrder /\ ListsAreSound /\ BackupIsOlder
      /\ applied[p] \in Nat /\ held[p] \in Lists /\ rev \in Nat \ {0}
  BY LineIs DEF Always, Orderliness, TypeOK
<1>1. /\ Sound(held[p], applied[p]) /\ Ahead(applied[p]) /\ Replaceable(p, held[p], applied[p])
      /\ Bounded(p, applied[p])
  BY <1>0 DEF ListsAreSound, NothingReused, RevisionsInOrder
<1>2. /\ line[p].counted => \A b \in Pruning : beat[b].floor <= applied[p]
      /\ \A c \in Author : At(c, "write") => applied[p] < job[c].rev /\ applied[p] < rev
  BY <1>1 DEF Bounded
<1>3. \A c \in Author : Bumps(c) => applied[p] < job[c].rev
  BY <1>0, BumpsDoes
<1>4. ASSUME NEW b \in Beat, Prunes(b)
      PROVE  beat[b].floor <= applied[p] \/ \A i \in Prunable(beat[b].floor) \ astray' : held[p][i] = Nothing
  <2>1. CASE line[p].counted
    BY <1>2, <1>4, <2>1 DEF Prunes, Pruning
  <2>2. CASE ~line[p].counted
    <3>1. ASSUME NEW i \in Prunable(beat[b].floor) \ astray' PROVE held[p][i] = Nothing
      <4>1. i \in Id /\ ~Carried(i)
        BY <1>4 DEF Prunes, Prunable
      <4> QED BY <2>2, <4>1 DEF Carried, Held
    <3> QED BY <3>1
  <2> QED BY <2>1, <2>2
<1>5. ASSUME Restores PROVE rev = saved.rev \/ applied[p] = 0 \/ applied[p] > rev'
  <2>1. saved # Nothing /\ ~(rev > saved.rev /\ applied[p] \in 1..rev')
    BY <1>5 DEF Restores
  <2>2. saved.rev <= rev /\ saved.rev \in Nat
    BY <1>0, <2>1, BaseIs DEF BackupIsOlder
  <2>3. rev' \in Nat
    BY <1>0, <1>5, StartTypes DEF TypeOK
  <2> QED BY <1>0, <2>1, <2>2, <2>3
<1> QED BY <1>0, <1>1, <1>2, <1>3, <1>4, <1>5 DEF Steady

LEMMA AnswerSteady ==
  ASSUME Always, Orderliness, NEW b \in Beat, Answering(b), beat[b].at = "replied", ~Restores
  PROVE  /\ Steady(Result(b), beat[b].rev) /\ Result(b) \in Lists /\ beat[b].rev \in Nat
         /\ Exact(Result(b)) /\ beat[b].rev <= rev /\ beat[b].who \in Probe
         /\ \A c \in Pruning : beat[c].floor <= beat[b].rev
<1>0. /\ TypeOK /\ ChangesAreRead /\ AnswersAreOne /\ RevisionsInOrder /\ ListsAreSound /\ rev \in Nat \ {0}
      /\ beat[b] # Nothing /\ beat[b].awaited /\ beat[b].rev # 0
  BY DEF Always, Orderliness, TypeOK, Answering
<1>1. beat[b].rev \in Nat /\ beat[b].who \in Probe /\ line[beat[b].who].counted
  BY <1>0, MessageIs DEF AnswersAreOne
<1>2. /\ Sound(Result(b), beat[b].rev) /\ Exact(Result(b)) /\ Bounded(beat[b].who, beat[b].rev)
      /\ beat[b].rev <= rev /\ \A a \in Underway : beat[b].rev < job[a].rev
  BY <1>0 DEF ListsAreSound, RevisionsInOrder
<1>3. Result(b) \in Lists
  <2>1. beat[b].rows \in SUBSET Told /\ held[beat[b].who] \in Lists
    BY <1>0, <1>1, LineIs, MessageIs
  <2> QED BY <2>1, MergedType DEF Result
<1>4. Ahead(beat[b].rev)
  <2>1. ~(beat[b].rev > rev)
    BY <1>0, <1>1, <1>2
  <2> QED BY <2>1 DEF Ahead
<1>5. /\ \A c \in Author : Bumps(c) => beat[b].rev < job[c].rev
      /\ \A c \in Author : At(c, "write") => beat[b].rev < job[c].rev /\ beat[b].rev < rev
  BY <1>2 DEF Bumps, Underway, Bounded
<1>6. \A c \in Pruning : beat[c].floor <= beat[b].rev
  BY <1>1, <1>2 DEF Bounded
<1>7. \A c \in Beat : Prunes(c) => c \in Pruning
  BY DEF Prunes, Pruning
<1> QED BY <1>1, <1>2, <1>3, <1>4, <1>5, <1>6, <1>7 DEF Steady

LEMMA ListsKept ==
  ASSUME Always, Orderliness, [WritingNext]_profilesVars, ~disturbed'
  PROVE  ListsAreSound'
<1>0. /\ TypeOK /\ ChangesAreRead /\ FreshIsNew /\ AnswersAreOne /\ held \in [Probe -> Lists] /\ applied \in [Probe -> Nat]
  BY DEF Always, TypeOK
<1> DEFINE Same == UNCHANGED <<rev, purged, table, line, saved, erased, astray>>
           Led(b) == Merged(held'[beat'[b].who], beat'[b].rows, beat'[b].replace)
\* Where nothing else changes, what holds of a list now holds of it after.
<1>1. ASSUME Same, NEW list, NEW a PROVE Sound(list, a) => SoundAfter(list, a)
  BY <1>1, SoundIs DEF SoundNow, SoundAfter
<1>2. ASSUME Same, NEW list PROVE Exact(list) => ExactAfter(list)
  BY <1>2 DEF Exact, ExactAfter
<1>3. ASSUME NEW p \in Probe PROVE SoundAfter(held[p], applied[p]) /\ ReplaceableAfter(p, held[p], applied[p])
  <2>1. /\ Steady(held[p], applied[p]) /\ held[p] \in Lists /\ Replaceable(p, held[p], applied[p])
        /\ line[p].counted => \A b \in Pruning : beat[b].floor <= applied[p]
    BY ProbeSteady
  <2> QED BY <2>1, SoundKept, ReplaceableKept
<1>4. ASSUME NEW p \in Probe PROVE SoundAfter(held'[p], applied'[p]) /\ ReplaceableAfter(p, held'[p], applied'[p])
  <2>1. CASE UNCHANGED <<held, applied>>
    BY <1>3, <2>1
  <2>2. ASSUME NEW q \in Probe, MakesHere(q) \/ EditsHere(q)
        PROVE  SoundAfter(held'[p], applied'[p]) /\ ReplaceableAfter(p, held'[p], applied'[p])
    <3>1. Edited(held[p], held'[p]) /\ Same /\ UNCHANGED <<applied, beat>>
      BY <1>0, <2>2, PeopleDo
    <3>2. Sound(held[p], applied[p])
      BY ProbeSteady DEF Steady
    <3>3. Sound(held'[p], applied[p])
      BY <1>0, <3>1, <3>2, SoundEdited
    <3>4. \A i \in Id : Theirs(held'[p], i) => Theirs(held[p], i)
      BY <3>1, TheirsEdited
    <3>5. ReplaceableAfter(p, held'[p], applied[p])
      BY <1>3, <3>4 DEF ReplaceableAfter
    <3> QED BY <1>1, <3>1, <3>3, <3>5
  <2>3. ASSUME NEW b \in Beat, Aligns(b)
        PROVE  SoundAfter(held'[p], applied'[p]) /\ ReplaceableAfter(p, held'[p], applied'[p])
    <3>1. /\ beat[b] # Nothing /\ beat[b].awaited /\ beat[b].at = "replied" /\ beat[b].who \in Probe
          /\ UNCHANGED <<rev, purged, table, line, saved, erased, astray>>
      BY <1>0, <2>3, MessageIs DEF Aligns, BeatAt, hub, ghosts
    <3>2. \/ held'[p] = held[p] /\ applied'[p] = applied[p]
          \/ /\ p = beat[b].who /\ beat[b].rev # 0
             /\ held'[p] = Result(b) /\ applied'[p] = beat[b].rev
      BY <1>0, <2>3, <3>1 DEF Aligns, Result
    <3>3. CASE p = beat[b].who /\ beat[b].rev # 0 /\ held'[p] = Result(b) /\ applied'[p] = beat[b].rev
      <4>1. Answering(b)
        BY <3>1, <3>3 DEF Answering
      <4>2. Sound(Result(b), beat[b].rev) /\ Exact(Result(b))
        BY <3>1, <4>1 DEF Orderliness, ListsAreSound
      <4>3. SoundAfter(Result(b), beat[b].rev) /\ ExactAfter(Result(b))
        BY <1>1, <1>2, <3>1, <4>2
      <4>4. ReplaceableAfter(p, Result(b), beat[b].rev)
        BY <3>3, <4>3 DEF ExactAfter, ReplaceableAfter
      <4> QED BY <3>3, <4>3, <4>4
    <3> QED BY <1>3, <3>2, <3>3
  <2> QED BY <2>1, <2>2, <2>3, HeldElsewhere
<1>5. ASSUME NEW b \in Beat, beat'[b] # Nothing, beat'[b].awaited, beat'[b].rev # 0, beat'[b].at = "replied"
      PROVE  SoundAfter(Led(b), beat'[b].rev) /\ ExactAfter(Led(b))
  <2>0. /\ beat[b] # Nothing /\ beat[b].awaited /\ beat[b].who \in Probe /\ beat'[b].who = beat[b].who
        /\ held[beat[b].who] \in Lists
    BY <1>0, <1>5, AnsweringAfter, MessageIs, LineIs
  <2>1. ~Restarts /\ ~Restores
    BY <1>5 DEF Restarts, Restores, Starts
  <2>2. CASE /\ beat[b].rev # 0 /\ beat'[b].rev = beat[b].rev /\ beat'[b].replace = beat[b].replace
             /\ beat'[b].at = beat[b].at /\ beat'[b].rows = beat[b].rows
    <3>1. Answering(b) /\ beat[b].at = "replied"
      BY <1>5, <2>0, <2>2 DEF Answering
    <3>2. /\ Steady(Result(b), beat[b].rev) /\ Result(b) \in Lists /\ beat[b].rev \in Nat
          /\ Exact(Result(b)) /\ beat[b].rev <= rev
          /\ \A c \in Pruning : beat[c].floor <= beat[b].rev
      BY <2>1, <3>1, AnswerSteady
    <3>3. SoundAfter(Result(b), beat[b].rev) /\ ExactAfter(Result(b))
      <4>1. Sound(Result(b), beat[b].rev)
        BY <3>2 DEF Steady
      <4> QED BY <2>1, <3>2, <4>1, SoundKept, ExactKept
    <3>4. CASE held'[beat[b].who] = held[beat[b].who]
      BY <2>0, <2>2, <3>3, <3>4 DEF Result
    <3>5. ASSUME NEW q \in Probe, MakesHere(q) \/ EditsHere(q)
          PROVE  SoundAfter(Led(b), beat'[b].rev) /\ ExactAfter(Led(b))
      <4>1. /\ Edited(held[beat[b].who], held'[beat[b].who]) /\ held'[beat[b].who] \in Lists
            /\ Same /\ UNCHANGED beat
        BY <1>0, <2>0, <3>5, PeopleDo
      <4>2. /\ beat[b].rows \in SUBSET Told /\ beat[b].replace \in BOOLEAN
            /\ \A r, s \in beat[b].rows : r.id = s.id => r = s
        BY <1>0, <2>0, MessageIs DEF AnswersAreOne
      <4> HIDE DEF Same
      <4>3. Edited(Result(b), Led(b))
        BY <2>0, <4>1, <4>2, MergedEdited DEF Result
      <4> HIDE DEF Led
      <4>4. Sound(Result(b), beat[b].rev)
        BY <3>2 DEF Steady
      <4>5. Sound(Led(b), beat[b].rev)
        BY <1>0, <4>3, <4>4, SoundEdited
      <4>6. \A i \in Id : Theirs(Led(b), i) => Theirs(Result(b), i)
        BY <4>3, TheirsEdited
      <4>7. ExactAfter(Led(b))
        BY <3>3, <4>6 DEF ExactAfter
      <4> QED BY <1>1, <2>2, <4>1, <4>5, <4>7
    <3>6. ASSUME NEW c \in Beat, Aligns(c) PROVE held'[beat[b].who] = held[beat[b].who]
      <4>1. /\ beat[c] # Nothing /\ beat[c].awaited /\ beat[c].who \in Probe /\ beat'[c] = Nothing
        BY <1>0, <3>6, EndsDoes, MessageIs DEF Aligns, BeatAt
      <4>2. beat[c].who # beat[b].who
        <5>1. c # b
          BY <1>5, <4>1
        <5>2. \A d \in Beat : beat[d] # Nothing /\ beat[d].awaited /\ beat[d].who = beat[b].who => d = b
          BY <1>0, <2>0 DEF AnswersAreOne
        <5> QED BY <4>1, <5>1, <5>2
      <4>3. PICK new : held' = held \/ held' = [held EXCEPT ![beat[c].who] = new]
        <5> DEFINE new == Merged(held[beat[c].who], beat[c].rows, beat[c].replace)
        <5>1. held' = held \/ held' = [held EXCEPT ![beat[c].who] = new]
          BY <3>6 DEF Aligns
        <5> HIDE DEF new
        <5> QED BY <5>1
      <4>4. held \in [Probe -> Lists] /\ beat[b].who \in Probe
        BY <1>0, <2>0 DEF TypeOK
      <4> QED BY <4>2, <4>3, <4>4
    <3> HIDE DEF Led
    <3>7. UNCHANGED held \/ held'[beat[b].who] = held[beat[b].who] \/ \E q \in Probe : MakesHere(q) \/ EditsHere(q)
      BY <3>6, HeldElsewhere
    <3> QED BY <3>4, <3>5, <3>7
  <2>3. CASE Selects(b)
    <3>1. /\ Same /\ UNCHANGED held
      BY <2>3 DEF Selects, hub, probes, bounds, ghosts
    <3>2. /\ Sound(Led(b), beat[b].rev) /\ Exact(Led(b))
          /\ beat'[b].rev = beat[b].rev /\ beat'[b].replace = beat[b].replace
      <4>1. beat'[b].rev = beat[b].rev /\ beat'[b].replace = beat[b].replace
        BY <1>0, <2>3, SelectsDoes
      <4>2. Led(b) = Merged(held[beat[b].who], beat'[b].rows, beat[b].replace)
        BY <2>0, <3>1, <4>1
      <4> QED BY <2>0, <2>3, <4>1, <4>2, SelectsSound
    <3> HIDE DEF Led, Same
    <3> QED BY <1>1, <1>2, <3>1, <3>2
  <2>4. CASE Compares(b) /\ beat'[b].at = "select"
    BY <1>5, <2>4
  <2> HIDE DEF Led
  <2> QED BY <1>0, <1>5, <2>2, <2>3, <2>4, AnsweringAfter
<1> HIDE DEF Led
<1>6. ListsAreSound' <=>
        /\ \A p \in Probe : SoundAfter(held'[p], applied'[p]) /\ ReplaceableAfter(p, held'[p], applied'[p])
        /\ \A b \in Beat : beat'[b] # Nothing /\ beat'[b].awaited /\ beat'[b].rev # 0 /\ beat'[b].at = "replied" =>
             SoundAfter(Led(b), beat'[b].rev) /\ ExactAfter(Led(b))
  BY DEF ListsAreSound, Sound, SoundAfter, Follows, Learnt, Replaceable, ReplaceableAfter, Outdated,
         OutdatedAfter, Exact, ExactAfter, Answering, Result, Led, BeatAt
<1> QED BY <1>4, <1>5, <1>6

-----------------------------------------------------------------------------
(* The invariant, and what it gives.                                       *)

LEMMA ProfilesStart ==
  ASSUME ProfilesInit
  PROVE  ProfilesInv
<1>1. rev \in Nat \ {0}
  <2>1. IsFiniteSet(Seeded)
    BY ProfilesBounds, FS_Subset
  <2>2. Cardinality(Seeded) \in Nat /\ Cardinality(Seeded) # 0
    BY <2>1, ProfilesBounds, FS_CardinalityType, FS_EmptySet
  <2> QED BY <2>2 DEF ProfilesInit
<1>2. /\ \A i \in Id : table[i] = Nothing \/ (i \in Seeded /\ table[i] \in Row /\ ~table[i].dead)
      /\ table \in [Id -> Row \cup {Nothing}]
  <2>1. PICK order \in [Seeded -> 1..Cardinality(Seeded)], name \in [Seeded -> Name] :
          table = [i \in Id |-> IF i \in Seeded
                                THEN [name |-> name[i], dead |-> FALSE, rev |-> order[i]]
                                ELSE Nothing]
    BY DEF ProfilesInit
  <2>2. \A i \in Seeded : order[i] \in Nat \ {0} /\ name[i] \in Name
    BY <1>1 DEF ProfilesInit
  <2>3. ASSUME NEW i \in Seeded
        PROVE  [name |-> name[i], dead |-> FALSE, rev |-> order[i]] \in Row
    BY <2>2 DEF Row
  <2>4. ASSUME NEW i \in Id PROVE table[i] = Nothing \/ (i \in Seeded /\ table[i] \in Row /\ ~table[i].dead)
    <3>1. CASE i \in Seeded
      BY <2>1, <2>3, <3>1
    <3>2. CASE i \notin Seeded
      BY <2>1, <3>2
    <3> QED BY <3>1, <3>2
  <2> QED BY <2>1, <2>4
<1>3. /\ purged = 0 /\ line = [p \in Probe |-> [rev |-> 0, counted |-> TRUE]]
      /\ job = [a \in Author |-> Nothing] /\ beat = [b \in Beat |-> Nothing]
      /\ held = [p \in Probe |-> [i \in Id |-> Nothing]] /\ applied = [p \in Probe |-> 0]
      /\ saved = Nothing /\ fresh = Id \ Seeded /\ acts = MaxEdits /\ faults = MaxFaults
      /\ erased = {} /\ astray = {} /\ disturbed = FALSE
  BY DEF ProfilesInit
<1>4. TypeOK
  <2>1. line \in [Probe -> Line]
    BY <1>3 DEF Line
  <2>2. held \in [Probe -> Lists]
    BY <1>3 DEF Lists
  <2> QED BY <1>1, <1>2, <1>3, <2>1, <2>2, ProfilesBounds DEF TypeOK
<1>5. ChangesAreRead /\ AnswersAreOne
  BY <1>3 DEF ChangesAreRead, AnswersAreOne, At
<1>6. FreshIsNew
  BY <1>2, <1>3 DEF FreshIsNew
<1>7. BackupIsOlder /\ NothingReused
  BY <1>1, <1>3 DEF BackupIsOlder, NothingReused, Ahead, At
<1>8. RevisionsInOrder
  BY <1>1, <1>3 DEF RevisionsInOrder, Bounded, Pruning, BeatAt, At, Answering
<1>9. ListsAreSound
  <2>1. \A i \in Id : table[i] # Nothing => table[i].rev \in Nat \ {0} /\ ~table[i].dead
    BY <1>2 DEF Row
  <2>2. \A p \in Probe : applied[p] = 0 /\ \A i \in Id : held[p][i] = Nothing /\ ~Theirs(held[p], i)
    BY <1>3 DEF Theirs
  <2>3. \A p \in Probe : Sound(held[p], applied[p])
    BY <1>1, <1>3, <2>1, <2>2 DEF Sound, Follows, Learnt
  <2>4. \A p \in Probe : Replaceable(p, held[p], applied[p])
    BY <2>2 DEF Replaceable
  <2> QED BY <1>3, <2>3, <2>4 DEF ListsAreSound, Answering
<1>10. DeletedIsGone
  BY <1>2, <1>3 DEF DeletedIsGone
<1> QED BY <1>4, <1>5, <1>6, <1>7, <1>8, <1>9, <1>10 DEF ProfilesInv, Always, Orderliness

LEMMA AlwaysKept ==
  ASSUME Always, [WritingNext]_profilesVars
  PROVE  Always'
<1>0. TypeOK /\ ChangesAreRead /\ FreshIsNew /\ AnswersAreOne
  BY DEF Always
<1>1. TypeOK'
  <2>1. CASE UNCHANGED profilesVars
    BY <1>0, <2>1 DEF profilesVars, hub, probes, bounds, ghosts, TypeOK
  <2>2. ASSUME NEW a \in Author, AuthorSteps(a) PROVE TypeOK'
    BY <1>0, <2>2, AuthorTypes
  <2>3. ASSUME NEW b \in Beat, BeatSteps(b) \/ GivesUp(b) PROVE TypeOK'
    BY <1>0, <2>3, MessageTypes
  <2>4. CASE Restarts \/ Restores
    BY <1>0, <2>4, StartTypes
  <2> QED BY <1>0, <2>1, <2>2, <2>3, <2>4, PeopleTypes DEF WritingNext
<1> QED BY <1>0, <1>1, ReadKept, FreshKept, AnswersKept DEF Always

\* A threshold that is not raised disturbs, and breaks nothing else.
LEMMA LeftUnmarked ==
  ASSUME ProfilesInv, NEW b \in Beat, LeavesMark(b)
  PROVE  ProfilesInv'
<1>0. TypeOK /\ ChangesAreRead /\ FreshIsNew /\ AnswersAreOne
  BY DEF ProfilesInv, Always
<1> DEFINE m == [beat[b] EXCEPT !.at = "since", !.floor = 0]
<1>1. /\ beat[b] \in BeatRow /\ beat[b] # Nothing /\ beat[b].at = "mark"
  BY <1>0, MessageIs DEF LeavesMark, BeatAt
<1>2. /\ m \in BeatRow /\ m.who = beat[b].who /\ m.kind = beat[b].kind /\ m.awaited = beat[b].awaited
      /\ m.out = beat[b].out /\ m.at = "since" /\ m.announced = beat[b].announced
      /\ m.rev = beat[b].rev /\ m.rows = beat[b].rows
  BY <1>1 DEF BeatRow
<1>3. beat' = [beat EXCEPT ![b] = m]
  BY DEF LeavesMark
<1>4. /\ beat'[b] = m /\ m # Nothing /\ \A c \in Beat \ {b} : beat'[c] = beat[c]
      /\ beat' \in [Beat -> BeatRow \cup {Nothing}]
  BY <1>0, <1>2, <1>3, ProfilesBounds DEF TypeOK
<1>5. /\ UNCHANGED <<rev, purged, table, line, job, held, applied, saved, fresh, acts, erased, astray>>
      /\ disturbed' = TRUE /\ faults' \in Nat
  BY <1>0 DEF LeavesMark, Fault, TypeOK, hub, probes
<1> HIDE DEF m
<1>6. TypeOK'
  BY <1>0, <1>4, <1>5 DEF TypeOK
<1>7. ChangesAreRead'
  BY <1>0, <1>5 DEF ChangesAreRead, At
<1>8. FreshIsNew'
  BY <1>0, <1>1, <1>2, <1>4, <1>5 DEF FreshIsNew
<1>9. AnswersAreOne'
  BY <1>0, <1>1, <1>2, <1>4, <1>5 DEF AnswersAreOne
<1> QED BY <1>5, <1>6, <1>7, <1>8, <1>9 DEF ProfilesInv, Always

LEMMA ProfilesStep ==
  ASSUME ProfilesInv, [ProfilesNext]_profilesVars
  PROVE  ProfilesInv'
<1>1. ASSUME [WritingNext]_profilesVars PROVE ProfilesInv'
  <2>1. Always /\ Always'
    BY <1>1, AlwaysKept DEF ProfilesInv
  <2>2. ASSUME ~disturbed' PROVE Orderliness'
    <3>1. Orderliness
      BY <1>1, <2>1, <2>2, OrderStays DEF ProfilesInv, Always
    <3> QED BY <1>1, <2>1, <2>2, <3>1, BackupKept, ReusedKept, OrderKept, ListsKept, GoneKept DEF Orderliness
  <2> QED BY <2>1, <2>2 DEF ProfilesInv
<1> QED BY <1>1, LeftUnmarked DEF ProfilesNext

\* The invariant holds of the shared profiles.
LEMMA ProfilesAlways == ProfilesSpec => []ProfilesInv
<1> QED BY ProfilesStart, ProfilesStep, PTL DEF ProfilesSpec

\* Every variable of the shared profiles stays in its set.
THEOREM ProfilesTypeCorrect == ProfilesSpec => []TypeOK
<1>1. ProfilesInv => TypeOK
  BY DEF ProfilesInv, Always
<1> QED BY <1>1, ProfilesAlways, PTL

\* portscan_profiles_since tells a probe nothing when it announces the hub's
\* revision: in order, such a probe holds the hub's list.
THEOREM UpToDateIsEnough == ProfilesSpec => []OrderlyUpToDate
<1>1. ASSUME ProfilesInv PROVE OrderlyUpToDate
  <2> SUFFICES ASSUME ~disturbed, NEW p \in Probe, applied[p] = rev
               PROVE  FromHub(p) = Shared
    BY DEF OrderlyUpToDate
  <2>0. TypeOK /\ ListsAreSound /\ rev \in Nat
    BY <1>1 DEF ProfilesInv, Always, Orderliness, TypeOK
  <2>1. Sound(held[p], rev) /\ Replaceable(p, held[p], rev) /\ rev <= rev /\ ~(rev < rev)
    BY <2>0 DEF ListsAreSound
  <2>2. \A i \in Id : table[i] # Nothing => Agrees(held[p][i], table[i], i \in astray)
    BY <2>1 DEF Sound, Follows
  <2>3. \A i \in Id : table[i] = Nothing => ~Theirs(held[p], i)
    BY <2>1 DEF Replaceable
  <2>4. ASSUME NEW i \in Id
        PROVE  /\ i \in Held(p) /\ ~held[p][i].own <=> i \in Live(table)
               /\ i \in Live(table) => held[p][i].name = table[i].name
    <3>1. CASE table[i] = Nothing
      BY <2>3, <3>1 DEF Theirs, Held, Live
    <3>2. CASE table[i] # Nothing /\ table[i].dead
      BY <2>2, <3>2 DEF Agrees, Held, Live
    <3>3. CASE table[i] # Nothing /\ ~table[i].dead
      <4>1. held[p][i] = [name |-> table[i].name, own |-> FALSE]
        BY <2>2, <3>3 DEF Agrees
      <4>2. [name |-> table[i].name, own |-> FALSE] \in Entry
        BY <2>0, <3>3, RowIs DEF Entry
      <4>3. held[p][i] # Nothing
        BY <4>1, <4>2, ProfilesBounds
      <4> QED BY <3>3, <4>1, <4>3 DEF Held, Live
    <3> QED BY <3>1, <3>2, <3>3
  <2>5. \A i : i \in Held(p) \/ i \in Live(table) => i \in Id
    BY DEF Held, Live
  <2> QED BY <2>4, <2>5 DEF FromHub, Shared
<1> QED BY <1>1, ProfilesAlways, PTL

\* prune_portscan_tombstones: in order, only what every probe that counts has
\* learnt is pruned.
THEOREM PruningIsLearnt == ProfilesSpec => PrunedIsLearnt
<1>1. ASSUME ProfilesInv, [WritingNext]_profilesVars, ~disturbed, faults' = faults, NEW p \in Probe, NEW i \in Id \ astray,
             table[i] # Nothing, table'[i] = Nothing, line[p].counted
      PROVE  i \notin Held(p)
  <2>0. /\ TypeOK /\ ChangesAreRead /\ RevisionsInOrder /\ ListsAreSound
        /\ applied[p] \in Nat /\ faults \in Nat
    BY <1>1, LineIs DEF ProfilesInv, Always, Orderliness, TypeOK
  <2>1. ASSUME NEW a \in Author, Writes(a) PROVE FALSE
    BY <1>1, <2>0, <2>1, WritesDoes
  <2>2. ~Restores
    <3>1. Restores => faults' = faults - 1
      BY DEF Restores, Starts, Fault
    <3> QED BY <1>1, <2>0, <3>1
  <2>3. PICK b \in Beat : Prunes(b)
    BY <1>1, <2>1, <2>2, TableElsewhere
  <2>4. b \in Pruning /\ beat[b].floor \in Nat /\ i \in Prunable(beat[b].floor)
    BY <1>1, <2>0, <2>3, MessageIs DEF Prunes, Pruning, BeatAt
  <2>5. beat[b].floor <= applied[p]
    BY <1>1, <2>0, <2>4 DEF RevisionsInOrder, Bounded
  <2>6. table[i].dead /\ table[i].rev <= beat[b].floor /\ table[i].rev \in Nat
    BY <1>1, <2>0, <2>4, RevisionsThere DEF Prunable
  <2>7. table[i].rev <= applied[p]
    BY <2>0, <2>4, <2>5, <2>6
  <2> QED BY <1>1, <2>0, <2>6, <2>7 DEF ListsAreSound, Sound, Learnt, Held
<1>2. ProfilesInv /\ [ProfilesNext]_profilesVars =>
        [~disturbed /\ faults' = faults => \A p \in Probe, i \in Id \ astray :
           table[i] # Nothing /\ table'[i] = Nothing /\ line[p].counted => i \notin Held(p)]_profilesVars
  <2>1. ASSUME NEW b \in Beat, LeavesMark(b) PROVE table' = table
    BY <2>1 DEF LeavesMark, hub
  <2> QED BY <1>1, <2>1 DEF ProfilesNext
<1> QED BY <1>2, ProfilesAlways, PTL DEF ProfilesSpec, PrunedIsLearnt

\* delete_profile, ingest_probe_profiles: undisturbed (an answer crossed no change,
\* no revision was taken twice, no purge was cut short or left unmarked, no shared
\* profile was edited at a probe), a profile deleted on the hub does not come back,
\* but for those pruned while a message or a probe out of the count carried them.
THEOREM DeletedNeverComesBack == ProfilesSpec => NoResurrection
<1>1. ASSUME ProfilesInv, [WritingNext]_profilesVars, ~disturbed, NEW i \in (erased \cap erased') \ (Live(table) \cup astray)
      PROVE  i \notin Live(table')
  <2>0. /\ TypeOK /\ ChangesAreRead /\ DeletedIsGone /\ i \in Id
        /\ \A k \in Id : table[k] # Nothing => table[k].dead \in BOOLEAN
    BY <1>1, RowIs DEF ProfilesInv, Always, Orderliness, TypeOK
  <2>1. CASE UNCHANGED <<table, erased>>
    BY <1>1, <2>1 DEF Live
  <2>2. ASSUME NEW b \in Beat, Prunes(b) PROVE i \notin Live(table')
    <3>1. table'[i] = Nothing \/ table'[i] = table[i]
      BY <2>0, <2>2 DEF Prunes
    <3> QED BY <1>1, <3>1 DEF Live
  <2>3. ASSUME NEW a \in Author, Writes(a) PROVE i \notin Live(table')
    <3>1. Orderliness /\ Always
      BY <1>1 DEF ProfilesInv
    <3>2. UNCHANGED astray
      BY <2>0, <2>3, WritesDoes
    <3>3. DeletedIsGone'
      BY <1>1, <3>1, GoneKept
    <3> QED BY <1>1, <3>2, <3>3 DEF DeletedIsGone, Live
  <2>4. CASE Restores
    <3>1. /\ table' = saved.table
          /\ erased' = {k \in Id : saved.table[k] # Nothing /\ saved.table[k].dead}
      BY <2>4 DEF Restores, Starts
    <3> QED BY <1>1, <3>1 DEF Live
  <2> QED BY <1>1, <2>1, <2>2, <2>3, <2>4, TableElsewhere
<1>2. ProfilesInv /\ [ProfilesNext]_profilesVars =>
        [~disturbed => \A i \in (erased \cap erased') \ (Live(table) \cup astray) : i \notin Live(table')]_profilesVars
  <2>1. ASSUME NEW b \in Beat, LeavesMark(b) PROVE Live(table') = Live(table)
    BY <2>1 DEF LeavesMark, hub
  <2> QED BY <1>1, <2>1 DEF ProfilesNext
<1> QED BY <1>2, ProfilesAlways, PTL DEF ProfilesSpec, NoResurrection

=============================================================================
