------------------------ MODULE ExportPipelineProofs ------------------------
(***************************************************************************)
(* Proofs about ExportPipeline, for any sizes of the bus and of the        *)
(* buffer, any ages and periods, and any mix of faults, then about the     *)
(* public address a probe measures behind (ClientFigures).                 *)
(*                                                                         *)
(* No measure disappears in silence: whatever leaves the bus or the buffer *)
(* goes on, or is counted.  And a point is written to disk in time: each   *)
(* tick that leaves it unwritten is one of the period, and lasts no longer *)
(* than a post does, but for the second that led to it.                    *)
(***************************************************************************)
EXTENDS ExportPipeline, ClientFigures, FiniteSetTheorems, SequenceTheorems, WellFoundedInduction, TLAPS

Point == [id : Nat \ {0}, age : Nat]
Event == [what : Change \cup {"measure"}, id : Nat]

ExportType ==
  /\ measured \in Nat
  /\ bus \in Seq(Event) /\ Len(bus) <= BusSize
  /\ \A i \in DOMAIN bus : bus[i].what \in Change <=> bus[i].id = 0
  /\ buffer \in Seq(Point) /\ Len(buffer) <= MaxPoints
  /\ file \in Seq(Point)
  /\ mode \in {"waiting", "sending", "posting"}
  /\ dirty \in BOOLEAN /\ due \in BOOLEAN
  /\ ticks \in 0..PersistEvery
  /\ elapsed \in 0..Timeout

\* The ticks a point not on disk has seen, at most, and the seconds since.
Ticked == IF ticks < PersistEvery THEN ticks ELSE PersistEvery - 1
Since  == IF mode = "posting" THEN 1 + elapsed ELSE IF due THEN 1 ELSE 0

\* A point not on disk is there to be written, and young enough.
Filing ==
  ~waited /\ "diskfull" \notin kinds =>
    /\ mode # "waiting"
    /\ mode = "posting" /\ elapsed > 0 => due
    /\ \A i \in DOMAIN buffer :
         buffer[i].id \notin Ids(file) =>
           dirty /\ buffer[i].age <= Ticked * Timeout + Since

ExportInv == ExportType /\ NothingLostSilently /\ Filing

-----------------------------------------------------------------------------
(* The operators of the buffer.                                            *)

\* A set of numbers that is not empty has a least one.
LEMMA LeastNumber ==
  ASSUME NEW S \in SUBSET Nat, S # {}
  PROVE  \E n \in S : \A m \in S : n <= m
<1>1. PICK n \in S : \A m \in S : ~(<<m, n>> \in OpToRel(<, Nat))
  BY NatLessThanWellFounded, WFMin
<1>2. \A m \in S : ~(m < n)
  BY <1>1 DEF OpToRel
<1> QED BY <1>2

\* What an identity found in a sequence means.
LEMMA InIds ==
  ASSUME NEW seq, NEW x
  PROVE  x \in Ids(seq) <=> x # 0 /\ \E i \in DOMAIN seq : x = seq[i].id
BY DEF Ids

\* The points too old are some at the head (enforce_bounds).
LEMMA TooOldCounts ==
  ASSUME NEW list \in Seq(Point)
  PROVE  TooOld(list) \in 0..Len(list)
<1> DEFINE Young(n) == n < Len(list) => list[n + 1].age <= MaxAge
           Halts == {n \in 0..Len(list) : Young(n)}
<1>0. MaxAge \in Nat
  BY BoundsAssumption
<1>1. Len(list) \in Nat
  OBVIOUS
<1>2. \A i \in 1..Len(list) : list[i].age \in Nat
  <2> SUFFICES ASSUME NEW i \in 1..Len(list) PROVE list[i].age \in Nat
    OBVIOUS
  <2>1. list[i] \in Point
    OBVIOUS
  <2> QED BY <2>1 DEF Point
<1>3. PICK n \in Halts : \A m \in Halts : n <= m
  <2>1. Len(list) \in Halts /\ Halts \in SUBSET Nat
    BY <1>1
  <2> HIDE DEF Halts
  <2> QED BY <2>1, LeastNumber
<1>4. ASSUME NEW i \in 1..n PROVE list[i].age > MaxAge
  <2>1. i - 1 \in 0..Len(list) /\ i - 1 < n /\ (i - 1) + 1 = i
    BY <1>1, <1>3
  <2>2. i - 1 \notin Halts
    <3>1. ~(n <= i - 1)
      BY <1>1, <1>3, <2>1
    <3> HIDE DEF Halts
    <3> QED BY <1>3, <3>1
  <2>3. i - 1 < Len(list) /\ ~(list[i - 1 + 1].age <= MaxAge)
    BY <2>1, <2>2
  <2>4. list[i - 1 + 1] = list[i] /\ i \in 1..Len(list)
    BY <1>1, <2>1, <2>3
  <2> QED BY <1>0, <1>2, <2>3, <2>4
<1>5. \E k \in 0..Len(list) :
        /\ \A i \in 1..k : list[i].age > MaxAge
        /\ k < Len(list) => list[k + 1].age <= MaxAge
  BY <1>3, <1>4
<1> QED BY <1>5 DEF TooOld

\* What is left without the first points.
LEMMA WithoutFirst ==
  ASSUME NEW list \in Seq(Point), NEW n \in 0..Len(list)
  PROVE  /\ Without(list, n) \in Seq(Point)
         /\ Len(Without(list, n)) = Len(list) - n
         /\ \A i \in DOMAIN Without(list, n) :
              \E k \in DOMAIN list : Without(list, n)[i] = list[k]
<1>1. Len(list) \in Nat /\ \A i \in 1..Len(list) : list[i] \in Point
  OBVIOUS
<1>2. \A i \in (n + 1)..Len(list) : list[i] \in Point
  BY <1>1
<1>3. /\ SubSeq(list, n + 1, Len(list)) \in Seq(Point)
      /\ Len(SubSeq(list, n + 1, Len(list))) =
           IF n + 1 <= Len(list) THEN Len(list) - (n + 1) + 1 ELSE 0
      /\ \A i \in 1..(Len(list) - (n + 1) + 1) :
           SubSeq(list, n + 1, Len(list))[i] = list[n + 1 + i - 1]
  BY <1>1, <1>2, SubSeqProperties
<1>4. Len(SubSeq(list, n + 1, Len(list))) = Len(list) - n
  BY <1>1, <1>3
<1>5. ASSUME NEW i \in 1..(Len(list) - n)
      PROVE  SubSeq(list, n + 1, Len(list))[i] = list[n + i] /\ n + i \in 1..Len(list)
  <2>1. i \in 1..(Len(list) - (n + 1) + 1) /\ n + 1 + i - 1 = n + i
    BY <1>1, <1>5
  <2> QED BY <1>1, <1>3, <1>5, <2>1
<1> QED BY <1>3, <1>4, <1>5 DEF Without

\* The bounds keep points of the buffer, and no more than it can hold.
LEMMA BoundedKeeps ==
  ASSUME NEW list \in Seq(Point)
  PROVE  /\ Bounded(list) \in Seq(Point) /\ Len(Bounded(list)) <= MaxPoints
         /\ \A i \in DOMAIN Bounded(list) :
              \E k \in DOMAIN list : Bounded(list)[i] = list[k]
<1> DEFINE young == Without(list, TooOld(list))
           n     == IF Len(young) > MaxPoints THEN Len(young) - MaxPoints ELSE 0
<1>1. TooOld(list) \in 0..Len(list)
  BY TooOldCounts
<1>2. /\ young \in Seq(Point)
      /\ \A i \in DOMAIN young : \E k \in DOMAIN list : young[i] = list[k]
  BY <1>1, WithoutFirst
<1>3. Bounded(list) = Without(young, n)
  BY DEF Bounded
<1> HIDE DEF young
<1>4. n \in 0..Len(young) /\ Len(young) - n <= MaxPoints
  BY <1>2, BoundsAssumption
<1> HIDE DEF n
<1>5. /\ Without(young, n) \in Seq(Point) /\ Len(Without(young, n)) = Len(young) - n
      /\ \A i \in DOMAIN Without(young, n) : \E k \in DOMAIN young : Without(young, n)[i] = young[k]
  BY <1>2, <1>4, WithoutFirst
<1> QED BY <1>2, <1>3, <1>4, <1>5

-----------------------------------------------------------------------------
(* The bus.                                                                *)

\* An event that is sent is on the bus, and those the bus forgets are noted.
LEMMA Emitted ==
  ASSUME ExportType, NEW what \in Change \cup {"measure"}, NEW id \in Nat,
         what \in Change <=> id = 0, Emits(what, id)
  PROVE  /\ bus' \in Seq(Event) /\ Len(bus') <= BusSize
         /\ \A i \in DOMAIN bus' : bus'[i].what \in Change <=> bus'[i].id = 0
         /\ Ids(bus) \cup ({id} \ {0}) \subseteq Ids(bus') \cup overrun'
         /\ overrun \subseteq overrun'
<1> DEFINE e == [what |-> what, id |-> id]
<1>1. e \in Event /\ e.id = id /\ e.what = what
  BY DEF Event
<1>2. bus \in Seq(Event) /\ Len(bus) \in Nat /\ Len(bus) <= BusSize /\ BusSize \in Nat \ {0}
  BY BoundsAssumption DEF ExportType
<1> HIDE DEF e
<1>3. CASE Len(bus) < BusSize
  <2>1. bus' = Append(bus, e) /\ overrun' = overrun
    BY <1>3 DEF Emits, e
  <2>2. bus' \in Seq(Event) /\ Len(bus') = Len(bus) + 1 /\ DOMAIN bus' = 1..(Len(bus) + 1)
    BY <1>1, <1>2, <2>1
  <2>3. bus'[Len(bus) + 1] = e /\ \A i \in 1..Len(bus) : bus'[i] = bus[i]
    BY <1>1, <1>2, <2>1
  <2>4. \A i \in DOMAIN bus' : bus'[i].what \in Change <=> bus'[i].id = 0
    BY SMTT(20), <1>1, <1>2, <2>2, <2>3 DEF ExportType
  <2>5. Ids(bus) \subseteq Ids(bus') /\ {id} \ {0} \subseteq Ids(bus')
    BY <1>1, <1>2, <2>2, <2>3, InIds
  <2> QED BY <1>2, <1>3, <2>1, <2>2, <2>4, <2>5
<1>4. CASE ~(Len(bus) < BusSize)
  <2>1. bus' = Append(Tail(bus), e) /\ overrun' = overrun \cup {Head(bus).id}
    BY <1>4 DEF Emits, e
  <2>2. /\ bus # <<>> /\ Tail(bus) \in Seq(Event) /\ Len(Tail(bus)) = Len(bus) - 1
        /\ \A i \in 1..(Len(bus) - 1) : Tail(bus)[i] = bus[i + 1]
        /\ Head(bus) = bus[1]
    BY <1>2, <1>4
  <2>3. /\ bus' \in Seq(Event) /\ Len(bus') = Len(bus) /\ DOMAIN bus' = 1..Len(bus)
        /\ bus'[Len(bus)] = e /\ \A i \in 1..(Len(bus) - 1) : bus'[i] = bus[i + 1]
    BY <1>1, <1>2, <2>1, <2>2
  <2>4. ASSUME NEW i \in DOMAIN bus' PROVE bus'[i].what \in Change <=> bus'[i].id = 0
    <3>1. CASE i = Len(bus)
      BY <1>1, <2>3, <2>4, <3>1
    <3>2. CASE i # Len(bus)
      <4>1. i \in 1..(Len(bus) - 1) /\ i + 1 \in DOMAIN bus
        BY <1>2, <2>3, <2>4, <3>2
      <4> QED BY <2>3, <2>4, <4>1 DEF ExportType
    <3> QED BY <3>1, <3>2
  <2>5. {id} \ {0} \subseteq Ids(bus')
    BY <1>1, <1>2, <1>4, <2>3, InIds
  <2>6. ASSUME NEW x \in Ids(bus) PROVE x \in Ids(bus') \cup overrun'
    <3>1. PICK i \in 1..Len(bus) : x = bus[i].id
      BY <1>2, InIds
    <3>2. CASE i = 1
      BY <2>1, <2>2, <3>1, <3>2
    <3>3. CASE i # 1
      <4>1. i - 1 \in 1..(Len(bus) - 1) /\ (i - 1) + 1 = i /\ i - 1 \in 1..Len(bus)
        BY <1>2, <3>1, <3>3
      <4>2. bus'[i - 1] = bus[i]
        BY <2>3, <4>1
      <4> QED BY <2>3, <3>1, <4>1, <4>2, InIds
    <3> QED BY <3>2, <3>3
  <2> QED BY <1>2, <2>1, <2>3, <2>4, <2>5, <2>6
<1> QED BY <1>3, <1>4

\* Reading takes the first event of the bus away, and no other.
LEMMA ReadTakes ==
  ASSUME ExportType, NEW what, Reads(what)
  PROVE  /\ bus' \in Seq(Event) /\ Len(bus') <= BusSize
         /\ \A i \in DOMAIN bus' : bus'[i].what \in Change <=> bus'[i].id = 0
         /\ Head(bus) \in Event /\ Head(bus).what = what
         /\ what \in Change <=> Head(bus).id = 0
         /\ Ids(bus) \subseteq Ids(bus') \cup ({Head(bus).id} \ {0})
<1>1. /\ bus \in Seq(Event) /\ bus # <<>> /\ Len(bus) \in Nat /\ Len(bus) <= BusSize
      /\ BusSize \in Nat /\ bus' = Tail(bus) /\ Head(bus).what = what
  BY BoundsAssumption DEF Reads, ExportType
<1>2. /\ Tail(bus) \in Seq(Event) /\ Len(Tail(bus)) = Len(bus) - 1 /\ Len(bus) > 0
      /\ \A i \in 1..(Len(bus) - 1) : Tail(bus)[i] = bus[i + 1]
      /\ Head(bus) = bus[1] /\ Head(bus) \in Event
  BY <1>1
<1>3. DOMAIN bus' = 1..(Len(bus) - 1) /\ DOMAIN bus = 1..Len(bus)
  BY <1>1, <1>2
<1>4. \A i \in 1..Len(bus) : bus[i].what \in Change <=> bus[i].id = 0
  BY <1>3 DEF ExportType
<1>5. \A i \in DOMAIN bus' : bus'[i].what \in Change <=> bus'[i].id = 0
  BY <1>1, <1>2, <1>3, <1>4
<1>6. what \in Change <=> Head(bus).id = 0
  BY <1>1, <1>2, <1>4
<1>7. ASSUME NEW x \in Ids(bus) PROVE x \in Ids(bus') \cup ({Head(bus).id} \ {0})
  <2>1. x # 0 /\ \E i \in 1..Len(bus) : x = bus[i].id
    BY <1>3, InIds
  <2>2. PICK i \in 1..Len(bus) : x = bus[i].id
    BY <2>1
  <2>3. CASE i = 1
    BY <1>2, <2>1, <2>2, <2>3
  <2>4. CASE i # 1
    <3>1. i - 1 \in 1..(Len(bus) - 1) /\ (i - 1) + 1 = i
      BY <1>1, <2>2, <2>4
    <3>2. bus'[i - 1].id = x
      BY <1>1, <1>2, <2>2, <3>1
    <3> QED BY <1>3, <2>1, <3>1, <3>2, InIds
  <2> QED BY <2>3, <2>4
<1> QED BY <1>1, <1>2, <1>5, <1>6, <1>7

-----------------------------------------------------------------------------
(* The buffer, its file, and time.                                         *)

\* At the end of a tick the file is what the buffer holds, or it stays and the
\* tick is counted if there is something to write.
LEMMA Persisted ==
  ASSUME ExportType, NEW list \in Seq(Point), NEW changed \in BOOLEAN, Persists(list, changed)
  PROVE  /\ file' \in Seq(Point) /\ dirty' \in BOOLEAN /\ ticks' \in 0..PersistEvery
         /\ \/ file' = list
            \/ /\ file' = file
               /\ changed => dirty'
               /\ changed /\ "diskfull" \notin kinds =>
                    ticks + 1 < PersistEvery /\ ticks' = ticks + 1
<1>1. /\ PersistEvery \in Nat \ {0} /\ ticks \in 0..PersistEvery /\ file \in Seq(Point)
  BY BoundsAssumption DEF ExportType
<1>2. CASE ~changed \/ ticks + 1 < PersistEvery
  <2>1. dirty' = changed /\ file' = file
        /\ ticks' = (IF ticks < PersistEvery THEN ticks + 1 ELSE ticks)
    BY <1>2 DEF Persists
  <2> QED BY <1>1, <1>2, <2>1
<1>3. CASE ~(~changed \/ ticks + 1 < PersistEvery)
  <2>1. /\ ticks' = 0
        /\ \/ file' = list /\ dirty' = FALSE
           \/ "diskfull" \in kinds /\ dirty' = TRUE /\ file' = file
    BY <1>3 DEF Persists
  <2>2. ticks' \in 0..PersistEvery
    BY <1>1, <2>1
  <2>3. dirty' \in BOOLEAN
    BY <2>1, Zenon
  <2>4. file' = list \/ (file' = file /\ dirty' /\ "diskfull" \in kinds)
    BY <2>1, Zenon
  <2> QED BY <1>1, <2>2, <2>3, <2>4
<1> QED BY <1>2, <1>3

\* A point whose age is set again.
LEMMA OfAge ==
  ASSUME NEW p \in Point, NEW a \in Nat
  PROVE  /\ [p EXCEPT !.age = a] \in Point
         /\ [p EXCEPT !.age = a].id = p.id /\ [p EXCEPT !.age = a].age = a
BY DEF Point

\* A second makes points older by one, or by less, and changes nothing else.
LEMMA Aged ==
  ASSUME NEW list \in Seq(Point)
  PROVE  /\ Older(list) \in Seq(Point) /\ Len(Older(list)) = Len(list)
         /\ \A i \in DOMAIN list :
              /\ Older(list)[i].id = list[i].id
              /\ Older(list)[i].age <= list[i].age + 1
         /\ DOMAIN Older(list) = DOMAIN list
         /\ Ids(Older(list)) = Ids(list)
<1> DEFINE older(i) == [list[i] EXCEPT !.age = IF @ > MaxAge THEN @ ELSE @ + 1]
<1>0. MaxAge \in Nat
  BY BoundsAssumption
<1>1. Len(list) \in Nat /\ DOMAIN list = 1..Len(list)
  OBVIOUS
<1>2. ASSUME NEW i \in 1..Len(list)
      PROVE  older(i) \in Point /\ older(i).id = list[i].id /\ older(i).age <= list[i].age + 1
  <2> DEFINE age == IF list[i].age > MaxAge THEN list[i].age ELSE list[i].age + 1
  <2>0. list[i] \in Point
    BY <1>2
  <2>1. list[i] \in Point /\ list[i].age \in Nat
    BY <2>0 DEF Point
  <2>2. age \in Nat /\ age <= list[i].age + 1
    BY <1>0, <2>1
  <2>3. older(i) = [list[i] EXCEPT !.age = age]
    OBVIOUS
  <2> HIDE DEF age, older
  <2>4. older(i) \in Point /\ older(i).id = list[i].id /\ older(i).age = age
    BY <2>1, <2>2, <2>3, OfAge
  <2> QED BY <2>2, <2>4
<1>3. Older(list) = [i \in 1..Len(list) |-> older(i)]
  BY <1>1 DEF Older
<1> HIDE DEF older
<1>4. Older(list) \in [1..Len(list) -> Point]
  BY <1>2, <1>3
<1>5. /\ Older(list) \in Seq(Point) /\ Len(Older(list)) = Len(list)
      /\ DOMAIN Older(list) = DOMAIN list
  BY <1>1, <1>4
<1>6. \A i \in DOMAIN list :
        Older(list)[i].id = list[i].id /\ Older(list)[i].age <= list[i].age + 1
  BY <1>1, <1>2, <1>3
<1>7. \A x : x \in Ids(Older(list)) <=> x \in Ids(list)
  BY <1>5, <1>6, InIds
<1>8. Ids(Older(list)) = Ids(list)
  BY <1>7 DEF Ids
<1> QED BY <1>5, <1>6, <1>8

\* A tick that leaves the buffer as it is ends in time: it is counted, and it
\* lasted no longer than a post, but for the second that led to it.
LEMMA TickEnds ==
  ASSUME ExportInv, Persists(buffer, dirty), buffer' = buffer, mode' = "sending",
         mode # "waiting", due' \in BOOLEAN,
         waited' = waited, kinds' = kinds, Since <= Timeout + Since'
  PROVE  Filing'
<1>1. /\ Timeout \in Nat \ {0} /\ PersistEvery \in Nat \ {0} /\ ticks \in 0..PersistEvery
      /\ elapsed \in Nat /\ buffer \in Seq(Point) /\ dirty \in BOOLEAN
  BY BoundsAssumption DEF ExportInv, ExportType
<1>2. SUFFICES ASSUME ~waited, "diskfull" \notin kinds, NEW i \in DOMAIN buffer,
                      buffer[i].id \notin Ids(file')
               PROVE  dirty' /\ buffer[i].age <= Ticked' * Timeout + Since'
  BY DEF Filing
<1>3. buffer[i].id \in Nat \ {0} /\ buffer[i].age \in Nat
  <2>1. buffer[i] \in Point
    BY <1>1, <1>2
  <2> QED BY <2>1 DEF Point
<1>4. file' = file /\ (dirty => dirty' /\ ticks + 1 < PersistEvery /\ ticks' = ticks + 1)
  <2>1. file' # buffer
    BY <1>2, <1>3, InIds
  <2> QED BY <1>1, <1>2, <2>1, Persisted DEF ExportInv
<1>5. dirty /\ buffer[i].age <= Ticked * Timeout + Since
  BY <1>2, <1>4 DEF ExportInv, Filing
<1>6. Ticked = ticks /\ Ticked' = ticks + 1 /\ ticks \in Nat
  BY <1>1, <1>4, <1>5 DEF Ticked
<1>7. (ticks + 1) * Timeout = ticks * Timeout + Timeout /\ ticks * Timeout \in Nat
  BY <1>1, <1>6
<1>8. Since \in Nat /\ Since' \in Nat
  BY <1>1 DEF Since
<1>9. buffer[i].age <= Ticked' * Timeout + Since'
  <2>1. /\ Ticked * Timeout = ticks * Timeout
        /\ Ticked' * Timeout = ticks * Timeout + Timeout
    BY <1>6, <1>7
  <2> DEFINE before == ticks * Timeout
  <2>2. before \in Nat /\ buffer[i].age <= before + Since
    BY <1>5, <1>7, <2>1
  <2>3. Ticked' * Timeout = before + Timeout
    BY <2>1
  <2> HIDE DEF before
  <2>4. buffer[i].age <= before + Timeout + Since'
    <3>1. Since <= Timeout + Since'
      OBVIOUS
    <3>2. Timeout \in Nat
      BY <1>1
    <3>3. \A a, b, c, d, e \in Nat : a <= b + c /\ c <= d + e => a <= b + d + e
      OBVIOUS
    <3> QED BY <1>3, <1>8, <2>2, <3>1, <3>2, <3>3
  <2> QED BY <2>3, <2>4
<1> QED BY <1>4, <1>5, <1>9

-----------------------------------------------------------------------------
(* What each step does.                                                    *)

\* Nothing disappears if what leaves one place arrives at another.
LEMMA NoneLost ==
  ASSUME NothingLostSilently, measured' = measured, measured \in Nat,
         Ids(bus) \cup overrun \cup Ids(buffer) \subseteq
           Ids(bus') \cup overrun' \cup Ids(buffer') \cup received' \cup counted' \cup gone' \cup {0},
         received \subseteq received', counted \subseteq counted', gone \subseteq gone'
  PROVE  NothingLostSilently'
BY DEF NothingLostSilently

\* The file is written in time as long as the buffer and its ticks stay.
LEMMA FilingStays ==
  ASSUME Filing, UNCHANGED <<buffer, dirty, file, ticks, due, elapsed, mode, waited, kinds>>
  PROVE  Filing'
BY DEF Filing, Ticked, Since

\* A measure is taken, or something around the task changes: the bus says so.
LEMMA EmissionKeeps ==
  ASSUME ExportInv, NEW what \in Change \cup {"measure"}, NEW id \in Nat,
         what \in Change <=> id = 0, Emits(what, id),
         UNCHANGED <<task, store, received, ghost, kinds>>,
         measured' = measured \/ (measured' = measured + 1 /\ id = measured')
  PROVE  ExportInv'
<1>1. /\ bus' \in Seq(Event) /\ Len(bus') <= BusSize
      /\ \A i \in DOMAIN bus' : bus'[i].what \in Change <=> bus'[i].id = 0
      /\ Ids(bus) \cup ({id} \ {0}) \subseteq Ids(bus') \cup overrun'
      /\ overrun \subseteq overrun'
  BY Emitted DEF ExportInv
<1>2. ExportType'
  BY <1>1 DEF ExportInv, ExportType, task, store
<1>3. NothingLostSilently'
  <2>1. Ids(buffer') = Ids(buffer) /\ received' = received /\ counted' = counted /\ gone' = gone
    BY DEF store, ghost
  <2>2. 1..measured \subseteq Ids(bus) \cup overrun \cup Ids(buffer) \cup received \cup counted \cup gone
    BY DEF ExportInv, NothingLostSilently
  <2>3. 1..measured' \subseteq 1..measured \cup ({id} \ {0})
    BY DEF ExportInv, ExportType
  <2> QED BY <1>1, <2>1, <2>2, <2>3 DEF NothingLostSilently
<1>4. Filing'
  BY FilingStays DEF ExportInv, task, store, ghost
<1> QED BY <1>2, <1>3, <1>4 DEF ExportInv

\* A measure is taken (broadcast::send).
LEMMA MeasureKeeps == ASSUME ExportInv, TakesMeasure PROVE ExportInv'
<1>1. measured' = measured + 1 /\ measured' \in Nat /\ measured' # 0
  BY DEF TakesMeasure, ExportInv, ExportType
<1>2. "measure" \notin Change
  BY DEF Change
<1> QED BY <1>1, <1>2, EmissionKeeps DEF TakesMeasure, budget

\* The probe is attached or detached, or another interface selected.
LEMMA SurroundingsKeep ==
  ASSUME ExportInv,
         Forgets \/ Enrolls \/ \E kind, choices : Selects(kind, choices)
  PROVE  ExportInv'
<1>1. UNCHANGED <<task, store, received, ghost, kinds, measured>>
  BY DEF Forgets, Enrolls, Selects, Happens
<1>2. \E what \in Change : Emits(what, 0)
  BY DEF Forgets, Enrolls, Selects, Change
<1> QED BY <1>1, <1>2, EmissionKeeps

\* The task learns that the bus forgot events: it counts the measures (Lagged).
LEMMA LaggedKeeps == ASSUME ExportInv, ReadsLagged PROVE ExportInv'
<1>1. ExportType'
  BY DEF ExportInv, ExportType, ReadsLagged, task, store
<1>2. NothingLostSilently'
  BY NoneLost DEF ReadsLagged, store, ExportInv, ExportType
<1>3. Filing'
  BY FilingStays DEF ExportInv, ReadsLagged, task, store, budget
<1> QED BY <1>1, <1>2, <1>3 DEF ExportInv

\* A measure becomes a point at the end of the buffer, whose bounds count what
\* they abandon (push_at).
LEMMA PushKeeps == ASSUME ExportInv, ReadsMeasure PROVE ExportInv'
<1> DEFINE point == [id |-> Head(bus).id, age |-> 0]
           grown == Append(buffer, point)
<1>1. /\ bus' \in Seq(Event) /\ Len(bus') <= BusSize
      /\ \A i \in DOMAIN bus' : bus'[i].what \in Change <=> bus'[i].id = 0
      /\ Head(bus) \in Event /\ Head(bus).id # 0
      /\ Ids(bus) \subseteq Ids(bus') \cup ({Head(bus).id} \ {0})
  <2>1. Reads("measure") /\ "measure" \notin Change
    BY DEF ReadsMeasure, Change
  <2> QED BY <2>1, ReadTakes DEF ExportInv
<1>2. /\ buffer' = Bounded(grown)
      /\ counted' = counted \cup (Ids(grown) \ Ids(buffer')) /\ dirty' = TRUE
  BY DEF ReadsMeasure, Pushes
<1>3. point \in Point /\ point.age = 0 /\ point.id = Head(bus).id
  BY <1>1 DEF Point, Event
<1> HIDE DEF point
<1>4. /\ buffer \in Seq(Point) /\ grown \in Seq(Point) /\ Len(buffer) \in Nat
      /\ DOMAIN buffer = 1..Len(buffer) /\ DOMAIN grown = 1..(Len(buffer) + 1)
      /\ grown[Len(buffer) + 1] = point /\ \A i \in 1..Len(buffer) : grown[i] = buffer[i]
  BY <1>3 DEF ExportInv, ExportType
<1> HIDE DEF grown
<1>5. /\ buffer' \in Seq(Point) /\ Len(buffer') <= MaxPoints
      /\ \A i \in DOMAIN buffer' : \E k \in DOMAIN grown : buffer'[i] = grown[k]
  BY <1>2, <1>4, BoundedKeeps
<1>6. Ids(buffer) \cup {Head(bus).id} \subseteq Ids(grown)
  BY <1>1, <1>3, <1>4, InIds
<1>7. /\ UNCHANGED <<measured, overrun, file, received, gone, waited, task, budget>>
  BY DEF ReadsMeasure, Reads
<1>8. ExportType'
  BY <1>1, <1>2, <1>5, <1>7 DEF ExportInv, ExportType, task
<1>9. NothingLostSilently'
  <2>1. Ids(bus) \cup overrun \cup Ids(buffer) \subseteq
          Ids(bus') \cup overrun' \cup Ids(buffer') \cup counted'
    BY <1>1, <1>2, <1>6, <1>7
  <2>2. counted \subseteq counted' /\ measured \in Nat
    BY <1>2 DEF ExportInv, ExportType
  <2> QED BY <1>7, <2>1, <2>2, NoneLost DEF ExportInv
<1>10. Filing'
  <2>1. Ticked' = Ticked /\ Since' = Since /\ file' = file /\ waited' = waited /\ kinds' = kinds
        /\ mode' = mode /\ elapsed' = elapsed /\ due' = due /\ dirty'
    BY <1>2, <1>7 DEF Ticked, Since, task, budget
  <2>2. 0 <= Ticked * Timeout + Since
    <3>1. Ticked \in Nat /\ Since \in Nat /\ Timeout \in Nat
      BY BoundsAssumption DEF Ticked, Since, ExportInv, ExportType
    <3>2. Ticked * Timeout \in Nat
      BY <3>1
    <3> QED BY <3>1, <3>2
  <2>3. ASSUME ~waited, "diskfull" \notin kinds, NEW i \in DOMAIN buffer',
               buffer'[i].id \notin Ids(file)
        PROVE  buffer'[i].age <= Ticked * Timeout + Since
    <3>1. PICK k \in DOMAIN grown : buffer'[i] = grown[k]
      BY <1>5, <2>3
    <3>2. CASE k = Len(buffer) + 1
      BY <1>3, <1>4, <2>2, <3>1, <3>2
    <3>3. CASE k # Len(buffer) + 1
      BY <1>4, <2>3, <3>1, <3>3 DEF ExportInv, Filing
    <3> QED BY <3>2, <3>3
  <2> QED BY <2>1, <2>3 DEF ExportInv, Filing
<1> QED BY <1>8, <1>9, <1>10 DEF ExportInv

\* A change is read: nothing is lost with it, and the buffer stays.
LEMMA ChangeKeeps ==
  ASSUME ExportInv, NEW what \in Change, ReadsChange(what) \/ ReadsWhileWaiting(what)
  PROVE  ExportInv'
<1>1. /\ Reads(what)
      /\ UNCHANGED <<ticks, elapsed, buffer, dirty, counted>>
      /\ UNCHANGED <<measured, overrun, file, received, gone, waited, budget>>
      /\ \/ mode' = mode /\ due' = due
         \/ mode = "waiting" /\ mode' \in {"waiting", "sending"} /\ due' = (mode' = "sending")
  BY DEF ReadsChange, ReadsWhileWaiting, Reads, Enters
<1>2. /\ bus' \in Seq(Event) /\ Len(bus') <= BusSize
      /\ \A i \in DOMAIN bus' : bus'[i].what \in Change <=> bus'[i].id = 0
      /\ Ids(bus) \subseteq Ids(bus') \cup ({Head(bus).id} \ {0}) /\ Head(bus).id = 0
  BY <1>1, ReadTakes DEF ExportInv
<1>3. mode' \in {"waiting", "sending", "posting"} /\ due' \in BOOLEAN
  BY <1>1 DEF ExportInv, ExportType
<1>4. ExportType'
  BY <1>1, <1>2, <1>3 DEF ExportInv, ExportType
<1>5. NothingLostSilently'
  BY <1>1, <1>2, NoneLost DEF ExportInv, ExportType
<1>6. Filing'
  <2>1. CASE mode' = mode /\ due' = due
    BY <1>1, <2>1, FilingStays DEF ExportInv, budget
  <2>2. CASE mode = "waiting"
    BY <1>1, <2>2 DEF ExportInv, Filing, budget
  <2> QED BY <1>1, <2>1, <2>2
<1> QED BY <1>4, <1>5, <1>6 DEF ExportInv

\* A tick that sends nothing only looks after the file (flush_tick).
LEMMA SkipKeeps == ASSUME ExportInv, TickSkips PROVE ExportInv'
<1>1. /\ mode = "sending" /\ due /\ due' = FALSE /\ Persists(buffer, dirty)
      /\ UNCHANGED <<measured, bus, overrun, mode, elapsed, buffer, received, ghost, kinds>>
  BY DEF TickSkips, budget
<1>2. buffer \in Seq(Point) /\ dirty \in BOOLEAN /\ elapsed \in 0..Timeout /\ Timeout \in Nat \ {0}
  BY BoundsAssumption DEF ExportInv, ExportType
<1>3. file' \in Seq(Point) /\ dirty' \in BOOLEAN /\ ticks' \in 0..PersistEvery
  BY <1>1, <1>2, Persisted DEF ExportInv
<1>4. due' \in BOOLEAN
  BY <1>1, Zenon
<1>5. ExportType'
  BY <1>1, <1>3, <1>4 DEF ExportInv, ExportType
<1>6. NothingLostSilently'
  BY <1>1 DEF ExportInv, NothingLostSilently, ghost
<1>7. Since = 1 /\ Since' = 0
  BY <1>1 DEF Since
<1>8. Filing'
  <2>1. mode' = "sending" /\ mode # "waiting" /\ waited' = waited /\ kinds' = kinds
        /\ buffer' = buffer /\ Since <= Timeout + Since'
    BY <1>1, <1>2, <1>7 DEF ghost
  <2> QED BY <1>1, <1>4, <2>1, TickEnds
<1> QED BY <1>5, <1>6, <1>8 DEF ExportInv

\* The whole buffer leaves, and stays (flush_once).
LEMMA PostKeeps == ASSUME ExportInv, TickPosts PROVE ExportInv'
<1>1. /\ mode = "sending" /\ due /\ mode' = "posting" /\ due' = FALSE /\ elapsed' = 0
      /\ UNCHANGED <<measured, bus, overrun, ticks, store, received, ghost, kinds>>
  BY DEF TickPosts, budget
<1>2. due' \in BOOLEAN
  BY <1>1, Zenon
<1>3. Timeout \in Nat
  BY BoundsAssumption
<1>4. ExportType'
  BY <1>1, <1>2, <1>3 DEF ExportInv, ExportType, store
<1>5. NothingLostSilently'
  BY <1>1 DEF ExportInv, NothingLostSilently, ghost, store
<1>6. Since = 1 /\ Since' = 1 /\ Ticked' = Ticked
  BY <1>1 DEF Since, Ticked
<1>7. Filing'
  BY <1>1, <1>6 DEF ExportInv, Filing, ghost, store
<1> QED BY <1>4, <1>5, <1>7 DEF ExportInv

\* A post that succeeds empties the buffer into the database (write_metrics).
LEMMA SuccessKeeps == ASSUME ExportInv, PostSucceeds PROVE ExportInv'
<1>1. /\ mode = "posting" /\ mode' = "sending" /\ buffer' = <<>> /\ Persists(<<>>, TRUE)
      /\ received' = received \cup Ids(buffer)
      /\ UNCHANGED <<measured, bus, overrun, due, elapsed, ghost, kinds>>
  BY DEF PostSucceeds, Written, budget
<1>2. <<>> \in Seq(Point) /\ TRUE \in BOOLEAN /\ Len(<<>>) = 0 /\ MaxPoints \in Nat
      /\ DOMAIN <<>> = {} /\ Ids(<<>>) = {}
  BY BoundsAssumption DEF Ids
<1>3. file' \in Seq(Point) /\ dirty' \in BOOLEAN /\ ticks' \in 0..PersistEvery
  BY <1>1, <1>2, Persisted DEF ExportInv
<1>4. ExportType'
  BY <1>1, <1>2, <1>3 DEF ExportInv, ExportType
<1>5. NothingLostSilently'
  BY <1>1 DEF ExportInv, NothingLostSilently, ghost
<1>6. Filing'
  BY <1>1, <1>2 DEF Filing
<1> QED BY <1>4, <1>5, <1>6 DEF ExportInv

\* A post that fails leaves the buffer; the database may have written it.
LEMMA FailureKeeps == ASSUME ExportInv, PostFails PROVE ExportInv'
<1>1. /\ mode = "posting" /\ mode' = "sending" /\ buffer' = buffer /\ Persists(buffer, dirty)
      /\ received' \in {received, received \cup Ids(buffer)}
      /\ UNCHANGED <<measured, bus, overrun, due, elapsed, ghost, kinds>>
  BY DEF PostFails, Failing, Written, budget
<1>2. buffer \in Seq(Point) /\ dirty \in BOOLEAN /\ elapsed \in 0..Timeout /\ Timeout \in Nat \ {0}
      /\ due \in BOOLEAN
  BY BoundsAssumption DEF ExportInv, ExportType
<1>3. file' \in Seq(Point) /\ dirty' \in BOOLEAN /\ ticks' \in 0..PersistEvery
  BY <1>1, <1>2, Persisted DEF ExportInv
<1>4. ExportType'
  BY <1>1, <1>3 DEF ExportInv, ExportType
<1>5. NothingLostSilently'
  BY <1>1 DEF ExportInv, NothingLostSilently, ghost
<1>6. Filing'
  <2>1. CASE ~waited /\ "diskfull" \notin kinds
    <3>1. elapsed > 0 => due
      BY <1>1, <2>1 DEF ExportInv, Filing
    <3>2. Since = 1 + elapsed /\ Since' = IF due THEN 1 ELSE 0
      BY <1>1 DEF Since
    <3>3. Since <= Timeout + Since'
      BY <1>2, <3>1, <3>2
    <3>4. mode # "waiting" /\ due' \in BOOLEAN /\ waited' = waited /\ kinds' = kinds
      BY <1>1, <1>2 DEF ghost
    <3> QED BY <1>1, <3>3, <3>4, TickEnds
  <2>2. CASE ~(~waited /\ "diskfull" \notin kinds)
    BY <1>1, <2>2 DEF Filing, ghost
  <2> QED BY <2>1, <2>2
<1> QED BY <1>4, <1>5, <1>6 DEF ExportInv

\* A second passes while the task waits for an answer, or has nothing to do.
LEMMA SecondKeeps == ASSUME ExportInv, SecondPasses PROVE ExportInv'
<1>1. /\ \/ mode = "posting" /\ elapsed < Timeout /\ elapsed' = elapsed + 1
         \/ mode # "posting" /\ ~due /\ elapsed' = elapsed
      /\ due' = (mode # "waiting")
      /\ buffer' = Older(buffer) /\ file' = Older(file)
      /\ UNCHANGED <<measured, bus, overrun, mode, ticks, dirty, received, ghost, kinds>>
  BY DEF SecondPasses, Listens, budget
<1>2. /\ buffer \in Seq(Point) /\ file \in Seq(Point) /\ elapsed \in 0..Timeout /\ Timeout \in Nat \ {0}
      /\ Len(buffer) <= MaxPoints /\ ticks \in 0..PersistEvery /\ PersistEvery \in Nat \ {0}
  BY BoundsAssumption DEF ExportInv, ExportType
<1>3. /\ buffer' \in Seq(Point) /\ Len(buffer') = Len(buffer) /\ DOMAIN buffer' = DOMAIN buffer
      /\ \A i \in DOMAIN buffer :
           buffer'[i].id = buffer[i].id /\ buffer'[i].age <= buffer[i].age + 1
      /\ Ids(buffer') = Ids(buffer)
  BY <1>1, <1>2, Aged
<1>4. file' \in Seq(Point) /\ Ids(file') = Ids(file)
  BY <1>1, <1>2, Aged
<1>5. due' \in BOOLEAN /\ elapsed' \in 0..Timeout
  BY <1>1, <1>2
<1>6. ExportType'
  BY <1>1, <1>2, <1>3, <1>4, <1>5 DEF ExportInv, ExportType
<1>7. NothingLostSilently'
  BY <1>1, <1>3 DEF ExportInv, NothingLostSilently, ghost
<1>8. Filing'
  <2> SUFFICES ASSUME ~waited, "diskfull" \notin kinds PROVE Filing'
    BY <1>1 DEF Filing, ghost
  <2>1. mode # "waiting" /\ due'
    BY <1>1 DEF ExportInv, Filing
  <2>2. Since' = Since + 1 /\ Ticked' = Ticked
    BY <1>1, <1>2, <2>1 DEF Since, Ticked
  <2>3. Since \in Nat /\ Ticked \in Nat /\ Ticked * Timeout \in Nat
    <3>1. Since \in Nat /\ Ticked \in Nat
      BY <1>2 DEF Since, Ticked
    <3> QED BY <1>2, <3>1
  <2> DEFINE before == Ticked * Timeout
  <2>4. ASSUME NEW i \in DOMAIN buffer', buffer'[i].id \notin Ids(file')
        PROVE  dirty /\ buffer'[i].age <= before + Since'
    <3>1. i \in DOMAIN buffer /\ buffer[i].id \notin Ids(file)
      BY <1>3, <1>4, <2>4
    <3>2. dirty /\ buffer[i].age <= before + Since
      BY <3>1 DEF ExportInv, Filing
    <3>3. buffer'[i].age <= buffer[i].age + 1
      BY <1>3, <3>1
    <3>4. buffer[i].age \in Nat /\ buffer'[i].age \in Nat
      <4>1. buffer[i] \in Point /\ buffer'[i] \in Point
        BY <1>2, <1>3, <2>4, <3>1
      <4> QED BY <4>1 DEF Point
    <3>5. before \in Nat
      BY <2>3
    <3> HIDE DEF before
    <3>6. \A a, b, c, d \in Nat : a <= c + d /\ b <= a + 1 => b <= c + (d + 1)
      OBVIOUS
    <3> QED BY <2>2, <2>3, <3>2, <3>3, <3>4, <3>5, <3>6
  <2>5. before = Ticked' * Timeout
    BY <2>2
  <2> HIDE DEF before
  <2> QED BY <1>1, <2>1, <2>4, <2>5 DEF Filing
<1> QED BY <1>6, <1>7, <1>8 DEF ExportInv

\* The probe stops: what is not on disk is lost with it, and what is on disk
\* is in the buffer of the next start, or counted as too old.
LEMMA StopKeeps == ASSUME ExportInv, Stops PROVE ExportInv'
<1> DEFINE expired == [i \in DOMAIN file |-> [file[i] EXCEPT !.age = MaxAge + 1]]
<1>1. PICK found \in {file, expired} : file' = found /\ buffer' = Bounded(found)
  BY DEF Stops
<1>2. /\ counted' = counted \cup (Ids(file') \ Ids(buffer'))
      /\ gone' = gone \cup ((Ids(bus) \cup (overrun \ {0}) \cup Ids(buffer)) \ Ids(file))
      /\ bus' = <<>> /\ overrun' = {} /\ received \subseteq received'
      /\ mode' = Enters /\ ticks' = 0 /\ elapsed' = 0 /\ measured' = measured
  <2>1. received' \in {received} \cup (IF mode = "posting" /\ Known THEN {Written} ELSE {})
    BY Zenon DEF Stops
  <2>2. received \subseteq received'
    BY <2>1 DEF Written
  <2>3. /\ counted' = counted \cup (Ids(file') \ Ids(buffer'))
        /\ gone' = gone \cup ((Ids(bus) \cup (overrun \ {0}) \cup Ids(buffer)) \ Ids(file))
    BY Zenon DEF Stops
  <2>4. bus' = <<>> /\ overrun' = {} /\ mode' = Enters /\ ticks' = 0 /\ elapsed' = 0
        /\ measured' = measured
    BY Zenon DEF Stops
  <2> QED BY <2>2, <2>3, <2>4
<1>2b. /\ dirty' = (buffer' # file') /\ due' = (mode' = "sending")
       /\ waited' = (mode' = "waiting")
  BY Zenon DEF Stops
<1>3. found \in Seq(Point) /\ Ids(found) = Ids(file)
  <2>1. file \in Seq(Point) /\ MaxAge \in Nat
    BY BoundsAssumption DEF ExportInv, ExportType
  <2>2. ASSUME found = expired PROVE found \in Seq(Point) /\ Ids(found) = Ids(file)
    <3>1. Len(file) \in Nat /\ DOMAIN file = 1..Len(file)
      BY <2>1
    <3>2. ASSUME NEW i \in 1..Len(file)
          PROVE  /\ [file[i] EXCEPT !.age = MaxAge + 1] \in Point
                 /\ [file[i] EXCEPT !.age = MaxAge + 1].id = file[i].id
      <4>1. file[i] \in Point
        BY <2>1, <3>2
      <4>2. MaxAge + 1 \in Nat
        BY <2>1
      <4> QED BY <4>1, <4>2, OfAge
    <3>3. expired \in [1..Len(file) -> Point]
      BY <3>1, <3>2
    <3>4. expired \in Seq(Point) /\ DOMAIN expired = DOMAIN file
      BY <3>1, <3>3
    <3>5. \A i \in DOMAIN file : expired[i].id = file[i].id
      BY <3>1, <3>2
    <3> HIDE DEF expired
    <3>6. \A x : x \in Ids(expired) <=> x \in Ids(file)
      BY <3>4, <3>5, InIds
    <3>7. Ids(expired) = Ids(file)
      BY <3>6 DEF Ids
    <3> QED BY <2>2, <3>4, <3>7
  <2> QED BY <2>1, <2>2
<1> HIDE DEF expired
<1>4. /\ buffer' \in Seq(Point) /\ Len(buffer') <= MaxPoints
      /\ \A i \in DOMAIN buffer' : \E k \in DOMAIN found : buffer'[i] = found[k]
  BY <1>1, <1>3, BoundedKeeps
<1>5. ASSUME NEW i \in DOMAIN buffer' PROVE buffer'[i].id \in Ids(file')
  <2>1. PICK k \in DOMAIN found : buffer'[i] = found[k]
    BY <1>4, <1>5
  <2>2. found[k] \in Point
    BY <1>3
  <2>3. found[k].id # 0
    BY <2>2 DEF Point
  <2> QED BY <1>1, <2>1, <2>3, InIds
<1>6. mode' \in {"waiting", "sending"}
  BY <1>2 DEF Enters
<1>7. ExportType'
  <2>1. <<>> \in Seq(Event) /\ Len(<<>>) = 0 /\ DOMAIN <<>> = {}
    OBVIOUS
  <2>2. BusSize \in Nat /\ Timeout \in Nat /\ PersistEvery \in Nat
    BY BoundsAssumption
  <2>3. dirty' \in BOOLEAN /\ due' \in BOOLEAN
    BY <1>2b, Zenon
  <2> QED BY <1>1, <1>2, <1>3, <1>4, <1>6, <2>1, <2>2, <2>3 DEF ExportInv, ExportType
<1>8. NothingLostSilently'
  <2>1. Ids(file) \subseteq Ids(buffer') \cup counted'
    BY <1>1, <1>2, <1>3
  <2>2. Ids(bus) \cup overrun \cup Ids(buffer) \subseteq Ids(buffer') \cup counted' \cup gone' \cup {0}
    BY <1>2, <2>1
  <2>3. counted \subseteq counted' /\ gone \subseteq gone' /\ measured \in Nat
    BY <1>2 DEF ExportInv, ExportType
  <2> QED BY <1>2, <2>2, <2>3, NoneLost DEF ExportInv
<1>9. Filing'
  BY <1>2, <1>2b, <1>5, <1>6 DEF Filing
<1> QED BY <1>7, <1>8, <1>9 DEF ExportInv

-----------------------------------------------------------------------------
(* The invariant, and what it gives.                                       *)

\* At the start nothing is measured and nothing is on disk.
LEMMA ExportInitially == ASSUME Init PROVE ExportInv
<1>1. <<>> \in Seq(Event) /\ <<>> \in Seq(Point) /\ Len(<<>>) = 0 /\ DOMAIN <<>> = {}
  OBVIOUS
<1>2. BusSize \in Nat /\ MaxPoints \in Nat /\ Timeout \in Nat /\ PersistEvery \in Nat
  BY BoundsAssumption
<1>3. mode \in {"waiting", "sending"} /\ (mode = "waiting" => waited)
  BY DEF Init, Enters
<1>4. dirty \in BOOLEAN /\ due \in BOOLEAN
  BY Zenon DEF Init
<1>5. ExportType
  BY <1>1, <1>2, <1>3, <1>4 DEF Init, ExportType
<1>6. NothingLostSilently
  BY DEF Init, NothingLostSilently
<1>7. Filing
  BY <1>1, <1>3 DEF Init, Filing
<1> QED BY <1>5, <1>6, <1>7 DEF ExportInv

\* Every step keeps the invariant.
LEMMA ExportStep == ASSUME ExportInv, [Next]_vars PROVE ExportInv'
<1>1. CASE TakesMeasure
  BY <1>1, MeasureKeeps
<1>2. CASE ReadsLagged
  BY <1>2, LaggedKeeps
<1>3. CASE ReadsMeasure
  BY <1>3, PushKeeps
<1>4. ASSUME NEW what \in Change, ReadsChange(what) \/ ReadsWhileWaiting(what) PROVE ExportInv'
  BY <1>4, ChangeKeeps
<1>5. CASE TickSkips
  BY <1>5, SkipKeeps
<1>6. CASE TickPosts
  BY <1>6, PostKeeps
<1>7. CASE PostSucceeds
  BY <1>7, SuccessKeeps
<1>8. CASE PostFails
  BY <1>8, FailureKeeps
<1>9. CASE SecondPasses
  BY <1>9, SecondKeeps
<1>10. CASE Forgets \/ Enrolls \/ \E kind, choices : Selects(kind, choices)
  BY <1>10, SurroundingsKeep
<1>11. CASE Stops
  BY <1>11, StopKeeps
<1>12. CASE UNCHANGED vars
  <2>1. UNCHANGED <<measured, bus, overrun, task, store, received, ghost, kinds>>
    BY <1>12 DEF vars, budget
  <2>2. ExportType' /\ NothingLostSilently'
    BY <2>1 DEF ExportInv, ExportType, NothingLostSilently, task, store, ghost
  <2>3. Filing'
    BY <2>1, FilingStays DEF ExportInv, task, store, ghost
  <2> QED BY <2>2, <2>3 DEF ExportInv
<1> QED BY <1>1, <1>2, <1>3, <1>4, <1>5, <1>6, <1>7, <1>8, <1>9, <1>10, <1>11, <1>12
        DEF Next, TaskSteps

\* So it always holds.
LEMMA ExportInductive == Spec => []ExportInv
<1>1. Init => ExportInv
  BY ExportInitially
<1>2. ExportInv /\ [Next]_vars => ExportInv'
  BY ExportStep
<1> QED BY <1>1, <1>2, PTL DEF Spec

\* The bus and the buffer never grow beyond their capacities, whatever the
\* faults (broadcast::channel, MAX_POINTS), and the rest has its type.
THEOREM ExportTypeCorrect == Spec => []ExportType
<1>1. ExportInv => ExportType
  BY DEF ExportInv
<1> QED BY <1>1, ExportInductive, PTL

\* A measure is on its way, at the hub, counted as lost or lost with a stop,
\* however the bus overflows, posts fail and the probe stops (ExportBuffer).
THEOREM NoMeasureIsLostSilently == Spec => []NothingLostSilently
<1>1. ExportInv => NothingLostSilently
  BY DEF ExportInv
<1> QED BY <1>1, ExportInductive, PTL

\* A point that has waited for the period of persistence is on disk, for every
\* period and every length of a post (persist_buffer).
THEOREM PointsReachTheDisk == Spec => []PersistedInTime
<1>1. ASSUME ExportInv PROVE PersistedInTime
  <2> SUFFICES ASSUME mode # "posting", ~due, ~waited, "diskfull" \notin kinds,
                      NEW i \in DOMAIN buffer, buffer[i].age >= PersistEvery * Timeout,
                      buffer[i].id \notin Ids(file)
               PROVE  FALSE
    BY DEF PersistedInTime, Listens
  <2>1. /\ Timeout \in Nat \ {0} /\ PersistEvery \in Nat \ {0} /\ ticks \in 0..PersistEvery
        /\ buffer \in Seq(Point)
    BY <1>1, BoundsAssumption DEF ExportInv, ExportType
  <2>2. buffer[i].age <= Ticked * Timeout + Since /\ Since = 0
    BY <1>1 DEF ExportInv, Filing, Since
  <2>3. buffer[i].age \in Nat
    <3>1. buffer[i] \in Point
      BY <2>1
    <3> QED BY <3>1 DEF Point
  <2>4. Ticked \in Nat /\ Ticked + 1 <= PersistEvery
    BY <2>1 DEF Ticked
  <2>5. \A a, b, t \in Nat : a + 1 <= b => a * t + t <= b * t
    OBVIOUS
  <2>6. Ticked * Timeout + Timeout <= PersistEvery * Timeout
    BY <2>1, <2>4, <2>5
  <2>7. Ticked * Timeout \in Nat /\ PersistEvery * Timeout \in Nat
    BY <2>1, <2>4
  <2> DEFINE x == Ticked * Timeout
             y == PersistEvery * Timeout
  <2>8. x \in Nat /\ y \in Nat /\ x + Timeout <= y /\ buffer[i].age <= x + Since /\ buffer[i].age >= y
    BY <2>2, <2>6, <2>7
  <2> HIDE DEF x, y
  <2> QED BY <2>1, <2>2, <2>3, <2>8
<1> QED BY <1>1, ExportInductive, PTL

-----------------------------------------------------------------------------
(***************************************************************************)
(* The public address of a probe, for any networks, addresses, delays,     *)
(* moves and faults.  What a heartbeat says is young enough because a      *)
(* lookup that answers is later than the request, and the probe asks again *)
(* before the time to live.  What a report attributes to an address was    *)
(* said around it because every row of the history is a run of heartbeats, *)
(* the one opened last reaching the last heartbeat heard; and what neither *)
(* the cap nor the retention touched is attributed because two rows are    *)
(* two runs.                                                               *)
(***************************************************************************)

Heard == [at : Nat, ip : Address, row : Nat]

AddressType ==
  /\ clock \in Nat /\ place \in Lan \cup {NoLan} /\ exit \in [Lan -> Address]
  /\ setting \in Setting /\ internet \in BOOLEAN
  /\ cache \in Cache \cup {Nobody} /\ recheck \in BOOLEAN /\ wasOut \in BOOLEAN
  /\ asking \in Lookup \cup {Nobody} /\ beatDue \in BOOLEAN
  /\ mail \in SUBSET Message /\ observed \in Networks \cup Address \cup {Nobody}
  /\ lastId \in Nat /\ moves \in Nat /\ faults \in Nat
  /\ sent \in Message \cup {Nobody} /\ had \in Int /\ heard \in Seq(Heard)

\* What was asked was asked before now, and an address that is kept was the
\* network's when it was asked, or once if the lookups fail since.
AskedInThePast ==
  /\ had <= clock
  /\ cache # Nobody /\ cache.ip # Nobody => had >= IF cache.failed THEN 0 ELSE cache.asked
  /\ asking # Nobody => asking.at <= clock /\ (~setting.chosen => asking.net = Undesignated)

-----------------------------------------------------------------------------
(* The types.                                                              *)

LEMMA SettingIs == ASSUME AddressType
                   PROVE /\ setting.chosen \in BOOLEAN /\ setting.inside \in BOOLEAN /\ setting.retention \in Nat
                         /\ Identity \in Networks
BY AddressAssumption DEF AddressType, Identity, Networks

\* A heartbeat read by the hub adds to what was heard.
LEMMA TakesType ==
  ASSUME AddressType, NEW m \in Message, Takes(m)
  PROVE  lastId' \in Nat /\ heard' \in Seq(Heard) /\ observed' \in Networks \cup Address
<1>0. /\ clock \in Nat /\ lastId \in Nat /\ heard \in Seq(Heard)
      /\ m.ip \in Address \cup {Nobody} /\ m.from \in Networks \cup Address
  BY DEF AddressType, Message
<1>1. lastId' \in Nat
  BY <1>0 DEF Takes
<1> DEFINE new == [at |-> clock, ip |-> m.ip, row |-> lastId']
<1>2. m.ip # Nobody => new \in Heard
  BY <1>0, <1>1 DEF Heard
<1>3. heard' = heard \/ (m.ip # Nobody /\ heard' = Append(heard, new))
  BY DEF Takes
<1> HIDE DEF new
<1>4. heard' \in Seq(Heard)
  BY <1>0, <1>2, <1>3
<1> QED BY <1>0, <1>1, <1>4 DEF Takes

\* A heartbeat that leaves is a message, and either the hub reads it or it
\* waits on the way.
LEMMA SendsType ==
  ASSUME AddressType, NEW id \in Networks, NEW c \in Cache, Sends(id, c)
  PROVE  /\ sent' \in Message \cup {Nobody} /\ recheck' \in BOOLEAN
         /\ mail' \in SUBSET Message /\ faults' \in Nat
         /\ lastId' \in Nat /\ heard' \in Seq(Heard) /\ observed' \in Networks \cup Address \cup {Nobody}
         /\ sent' # Nobody => /\ sent'.ip = c.ip /\ sent'.net = id /\ sent'.failed = c.failed /\ sent'.at = clock
                              /\ UNCHANGED <<history, lastId, heard>> \/ Takes(sent')
         /\ sent' = Nobody => UNCHANGED <<history, lastId, heard>>
<1>0. /\ place \in Lan \cup {NoLan} /\ exit \in [Lan -> Address] /\ clock \in Nat /\ setting.inside \in BOOLEAN
      /\ recheck \in BOOLEAN /\ mail \in SUBSET Message /\ faults \in Nat
      /\ lastId \in Nat /\ heard \in Seq(Heard) /\ observed \in Networks \cup Address \cup {Nobody}
  BY SettingIs DEF AddressType
<1>1. CASE place = NoLan
  BY <1>0, <1>1 DEF Sends, hub
<1>2. CASE place # NoLan
  <2> DEFINE m == [ip |-> c.ip, net |-> id, failed |-> c.failed, at |-> clock,
                   from |-> IF setting.inside THEN place ELSE exit[place]]
  <2>1. m.ip = c.ip /\ m.net = id /\ m.failed = c.failed /\ m.at = clock
    OBVIOUS
  <2>2. m \in Message
    BY <1>0, <1>2 DEF Message, Cache, Networks
  <2>3. sent' = m /\ Exchanged(m)
    BY <1>2 DEF Sends
  <2> HIDE DEF m
  <2>4. sent' # Nobody
    BY <2>2, <2>3, AddressAssumption
  <2>5. CASE Takes(m)
    <3>1. lastId' \in Nat /\ heard' \in Seq(Heard) /\ observed' \in Networks \cup Address
      BY <2>2, <2>5, TakesType
    <3>2. CASE recheck' = ComesFromElsewhere(m) /\ UNCHANGED <<mail, faults>>
      <4>1. recheck' \in BOOLEAN
        BY <3>2 DEF ComesFromElsewhere
      <4> QED BY <1>0, <2>1, <2>2, <2>3, <2>4, <2>5, <3>1, <3>2, <4>1
    <3>3. CASE faults' = faults + 1 /\ UNCHANGED recheck /\ (UNCHANGED mail \/ mail' = mail \cup {m})
      <4>1. mail' \in SUBSET Message /\ faults' \in Nat /\ recheck' \in BOOLEAN
        BY <1>0, <2>2, <3>3
      <4> QED BY <2>1, <2>2, <2>3, <2>4, <2>5, <3>1, <4>1
    <3>4. \/ recheck' = ComesFromElsewhere(m) /\ UNCHANGED <<mail, faults>>
          \/ faults' = faults + 1 /\ UNCHANGED recheck /\ (UNCHANGED mail \/ mail' = mail \cup {m})
      BY <2>3 DEF Exchanged
    <3> QED BY <3>2, <3>3, <3>4
  <2>6. CASE ~Takes(m)
    <3>1. /\ recheck' = recheck /\ mail' = mail \cup {m} /\ faults' = faults + 1
          /\ UNCHANGED <<observed, history, lastId, heard>>
      BY <2>3, <2>6 DEF Exchanged, hub
    <3> QED BY <1>0, <2>1, <2>2, <2>3, <2>4, <3>1
  <2> QED BY <2>5, <2>6
<1> QED BY <1>1, <1>2

\* What is stored is of the network that was asked (store).
LEMMA StoreIs ==
  ASSUME cache \in Cache \cup {Nobody}, NEW id \in Networks, NEW ip \in Address \cup {Nobody}, NEW asked \in Nat
  PROVE  LET c == Store(id, ip, asked)
         IN  /\ c \in Cache /\ c.net = id /\ c.asked = asked
             /\ c.failed = (ip = Nobody)
             /\ ip # Nobody => c.ip = ip
             /\ ip = Nobody => c.ip = IF cache # Nobody /\ cache.net = id THEN cache.ip ELSE Nobody
BY DEF Store, Cache

-----------------------------------------------------------------------------
(* The address a heartbeat says.                                           *)

FreshInv == AddressType /\ AskedInThePast /\ BelievedIsFresh

\* The lookup: an answer comes from the network that was asked, now.
LEMMA LookupKeeps == FreshInv /\ LookupEnds => FreshInv'
<1> SUFFICES ASSUME FreshInv, LookupEnds PROVE FreshInv'
  OBVIOUS
<1>0. /\ AddressType /\ AskedInThePast
      /\ clock \in Nat /\ place \in Lan \cup {NoLan} /\ exit \in [Lan -> Address] /\ cache \in Cache \cup {Nobody}
      /\ asking \in Lookup /\ asking.net \in Networks /\ asking.at \in Nat /\ asking.at <= clock /\ had \in Int
  BY DEF FreshInv, AddressType, AskedInThePast, LookupEnds, Lookup
<1>1. PICK ip \in {Nobody} \cup {exit[l] : l \in {place} \cap Lan} :
        /\ ip # Nobody => CanAsk
        /\ cache' = Store(asking.net, ip, asking.at)
        /\ had' = IF Has(exit, asking.net, cache'.ip) THEN clock
                  ELSE IF cache # Nobody /\ <<cache.net, cache.ip>> = <<asking.net, cache'.ip>> THEN had
                  ELSE -1
        /\ Sends(asking.net, cache')
  BY DEF LookupEnds
<1>2. ip \in Address \cup {Nobody} /\ (ip # Nobody => place \in Lan /\ exit[place] = ip)
  BY <1>0, <1>1
<1>3. /\ cache' \in Cache /\ cache'.net = asking.net /\ cache'.asked = asking.at
      /\ cache'.failed = (ip = Nobody)
      /\ ip # Nobody => cache'.ip = ip
      /\ ip = Nobody => cache'.ip = IF cache # Nobody /\ cache.net = asking.net THEN cache.ip ELSE Nobody
  BY <1>0, <1>1, <1>2, StoreIs
<1>4. /\ sent' \in Message \cup {Nobody} /\ recheck' \in BOOLEAN
      /\ mail' \in SUBSET Message /\ faults' \in Nat
      /\ lastId' \in Nat /\ heard' \in Seq(Heard) /\ observed' \in Networks \cup Address \cup {Nobody}
      /\ sent' # Nobody => sent'.ip = cache'.ip /\ sent'.net = asking.net /\ sent'.failed = cache'.failed /\ sent'.at = clock
  BY <1>0, <1>1, <1>3, SendsType
<1>5. /\ UNCHANGED <<clock, place, exit, setting, internet, wasOut, beatDue, moves>> /\ asking' = Nobody
  BY DEF LookupEnds, network
<1>6. had' \in Int /\ had' <= clock
  BY <1>0, <1>1 DEF AskedInThePast
<1>7. AddressType'
  BY <1>0, <1>3, <1>4, <1>5, <1>6 DEF AddressType
<1>8. ip # Nobody => had' = clock
  <2> SUFFICES ASSUME ip # Nobody PROVE Has(exit, asking.net, ip)
    BY <1>1, <1>3
  <2>1. place \in Lan /\ exit[place] = ip /\ (setting.chosen => place = asking.net)
    BY <1>1, <1>2 DEF CanAsk
  <2>2. ~setting.chosen => asking.net = Undesignated
    BY <1>0 DEF AskedInThePast, LookupEnds
  <2> QED BY <2>1, <2>2 DEF Has
<1>9. cache'.ip # Nobody => had' >= IF cache'.failed THEN 0 ELSE asking.at
  <2>1. CASE ip # Nobody
    BY <1>0, <1>3, <1>8, <2>1
  <2>2. CASE ip = Nobody /\ cache'.ip # Nobody
    <3>1. cache # Nobody /\ cache.net = asking.net /\ cache'.ip = cache.ip /\ cache.ip # Nobody
      BY <1>3, <2>2
    <3>2. had >= 0
      BY <1>0, <3>1 DEF AskedInThePast, Cache
    <3>3. <<cache.net, cache.ip>> = <<asking.net, cache'.ip>>
      BY <3>1
    <3>4. had' = clock \/ had' = had
      BY <1>1, <3>1, <3>3
    <3>5. cache'.failed
      BY <1>3, <2>2
    <3>6. had' >= 0
      BY <1>0, <3>2, <3>4
    <3> QED BY <3>5, <3>6
  <2> QED BY <2>1, <2>2
<1>10. AskedInThePast'
  BY <1>3, <1>5, <1>6, <1>9 DEF AskedInThePast
<1>11. BelievedIsFresh'
  <2> SUFFICES ASSUME sent' # Nobody, sent'.ip # Nobody
               PROVE  had' >= IF sent'.failed THEN 0 ELSE sent'.at - Ttl + 1
    BY <1>3, <1>4 DEF BelievedIsFresh
  <2>1. CASE ip # Nobody
    BY <1>0, <1>3, <1>4, <1>8, <2>1, AddressAssumption
  <2>2. CASE ip = Nobody
    BY <1>3, <1>4, <1>9, <2>2
  <2> QED BY <2>1, <2>2
<1> QED BY <1>7, <1>10, <1>11 DEF FreshInv

\* The heartbeat that goes by the cache was asked for less than the time to
\* live before (needs_refresh).
LEMMA BeginsKeeps == FreshInv /\ BeginsBeat => FreshInv'
<1> SUFFICES ASSUME FreshInv, BeginsBeat PROVE FreshInv'
  OBVIOUS
<1>0. /\ AddressType /\ AskedInThePast /\ Identity \in Networks /\ setting.chosen \in BOOLEAN
      /\ clock \in Nat /\ cache \in Cache \cup {Nobody} /\ had \in Int
  BY SettingIs DEF FreshInv, AddressType
<1>1. /\ UNCHANGED <<clock, place, exit, setting, internet, cache, moves, had>>
      /\ beatDue' = FALSE /\ wasOut' \in BOOLEAN
  BY <1>0 DEF BeginsBeat, network, AddressType
<1> DEFINE forced == recheck \/ (wasOut /\ internet)
<1>2. CASE NeedsRefresh(Identity, forced)
  <2>1. asking' = [net |-> Identity, at |-> clock] /\ sent' = Nobody /\ UNCHANGED <<recheck, mail, faults, hub>>
    BY <1>2 DEF BeginsBeat
  <2>2. asking' \in Lookup /\ asking'.net = Identity /\ asking'.at = clock
    BY <1>0, <2>1 DEF Lookup
  <2>3. AddressType'
    BY <1>0, <1>1, <2>1, <2>2 DEF AddressType, hub
  <2>4. AskedInThePast'
    BY <1>0, <1>1, <2>2 DEF AskedInThePast, Identity
  <2> QED BY <2>1, <2>3, <2>4 DEF FreshInv, BelievedIsFresh
<1>3. CASE ~NeedsRefresh(Identity, forced)
  <2>1. Sends(Identity, cache) /\ UNCHANGED asking
    BY <1>3 DEF BeginsBeat
  <2>2. cache \in Cache /\ cache.net = Identity /\ cache.asked \in Nat /\ (cache.failed \in BOOLEAN)
    BY <1>0, <1>3 DEF NeedsRefresh, Cache
  <2>3. clock - cache.asked < Ttl \/ clock - cache.asked < Floor
    BY <1>0, <1>3, <2>2, AddressAssumption DEF NeedsRefresh
  <2>4. /\ sent' \in Message \cup {Nobody} /\ recheck' \in BOOLEAN
        /\ mail' \in SUBSET Message /\ faults' \in Nat
        /\ lastId' \in Nat /\ heard' \in Seq(Heard) /\ observed' \in Networks \cup Address \cup {Nobody}
        /\ sent' # Nobody => sent'.ip = cache.ip /\ sent'.net = Identity /\ sent'.failed = cache.failed /\ sent'.at = clock
    BY <1>0, <2>1, <2>2, SendsType
  <2>5. AddressType'
    BY <1>0, <1>1, <2>1, <2>4 DEF AddressType
  <2>6. AskedInThePast'
    BY <1>0, <1>1, <2>1 DEF AskedInThePast
  <2>7. ASSUME sent' # Nobody, sent'.ip # Nobody
        PROVE  had >= IF sent'.failed THEN 0 ELSE sent'.at - Ttl + 1
    <3>1. had >= IF cache.failed THEN 0 ELSE cache.asked
      BY <1>0, <2>2, <2>4, <2>7, AddressAssumption DEF AskedInThePast
    <3>2. clock - cache.asked < Ttl /\ Ttl \in Nat
      BY <1>0, <2>2, <2>3, AddressAssumption
    <3>3. sent'.failed = cache.failed /\ sent'.at = clock
      BY <2>4, <2>7
    <3>4. CASE cache.failed
      BY <3>1, <3>3, <3>4
    <3>5. CASE ~cache.failed
      <4>1. had >= cache.asked
        BY <3>1, <3>5
      <4>2. had >= clock - Ttl + 1
        BY <1>0, <2>2, <3>2, <4>1
      <4> QED BY <3>3, <3>5, <4>2
    <3> QED BY <3>4, <3>5
  <2>8. BelievedIsFresh'
    BY <1>1, <2>2, <2>4, <2>7 DEF BelievedIsFresh
  <2> QED BY <2>5, <2>6, <2>8 DEF FreshInv
<1> QED BY <1>2, <1>3

\* No other step sends a heartbeat, and none makes what was asked older than
\* it was or the addresses of a network earlier.
LEMMA TheRestKeeps ==
  ASSUME FreshInv, sent' = Nobody,
         \/ Tick \/ (\E l \in Lan \cup {NoLan} : Moves(l)) \/ (\E l \in Lan, a \in Address : Renewed(l, a))
         \/ InternetTurns \/ (\E m \in mail : ArrivesLate(m)) \/ PurgesHistory \/ ProbeRestarts
  PROVE  FreshInv'
<1>0. /\ AddressType /\ AskedInThePast /\ clock \in Nat /\ had \in Int /\ moves \in Nat /\ faults \in Nat
      /\ exit \in [Lan -> Address] /\ cache \in Cache \cup {Nobody} /\ asking \in Lookup \cup {Nobody}
  BY DEF FreshInv, AddressType
<1>1. BelievedIsFresh'
  BY DEF BelievedIsFresh
<1>2. CASE Tick
  <2>1. /\ clock' = clock + 1 /\ beatDue' = TRUE /\ (had' = clock + 1 \/ had' = had)
        /\ UNCHANGED <<network, cache, recheck, wasOut, asking, mail, hub, moves, faults>>
    BY <1>2 DEF Tick
  <2>2. AddressType'
    BY <1>0, <2>1 DEF AddressType, network, hub
  <2>3. \A c \in Cache : c.asked \in Nat /\ c.failed \in BOOLEAN
    BY DEF Cache
  <2>4. cache # Nobody /\ cache.ip # Nobody => had' >= IF cache.failed THEN 0 ELSE cache.asked
    <3> SUFFICES ASSUME cache # Nobody, cache.ip # Nobody PROVE had' >= IF cache.failed THEN 0 ELSE cache.asked
      OBVIOUS
    <3>1. had >= IF cache.failed THEN 0 ELSE cache.asked
      BY <1>0 DEF AskedInThePast
    <3>2. had' >= had /\ had' \in Int
      BY <1>0, <2>1 DEF AskedInThePast
    <3>3. CASE cache.failed
      BY <1>0, <3>1, <3>2, <3>3
    <3>4. CASE ~cache.failed
      BY <1>0, <2>3, <3>1, <3>2, <3>4
    <3> QED BY <3>3, <3>4
  <2>5. had' <= clock' /\ (asking # Nobody => asking.at <= clock' /\ (~setting.chosen => asking.net = Undesignated))
    <3>1. \A q \in Lookup : q.at \in Nat
      BY DEF Lookup
    <3> QED BY <1>0, <2>1, <3>1 DEF AskedInThePast
  <2>6. AskedInThePast'
    BY <2>1, <2>4, <2>5 DEF AskedInThePast, network
  <2> QED BY <1>1, <2>2, <2>6 DEF FreshInv
<1>3. ASSUME NEW l \in Lan, NEW a \in Address, Renewed(l, a)
      PROVE  FreshInv'
  <2>1. /\ exit' = [exit EXCEPT ![l] = a] /\ moves' = moves + 1 /\ (had' = clock \/ had' = had)
        /\ UNCHANGED <<clock, place, setting, internet, probe, mail, hub, faults>>
    BY <1>3 DEF Renewed
  <2>2. AddressType'
    BY <1>0, <2>1 DEF AddressType, probe, hub
  <2>3. cache # Nobody /\ cache.ip # Nobody => had' >= IF cache.failed THEN 0 ELSE cache.asked
    <3> SUFFICES ASSUME cache # Nobody, cache.ip # Nobody PROVE had' >= IF cache.failed THEN 0 ELSE cache.asked
      OBVIOUS
    <3>0. cache.asked \in Nat
      BY <1>0 DEF Cache
    <3>1. had >= IF cache.failed THEN 0 ELSE cache.asked
      BY <1>0 DEF AskedInThePast
    <3>2. had' >= had /\ had' \in Int
      BY <1>0, <2>1 DEF AskedInThePast
    <3>3. CASE cache.failed
      BY <1>0, <3>1, <3>2, <3>3
    <3>4. CASE ~cache.failed
      BY <1>0, <3>0, <3>1, <3>2, <3>4
    <3> QED BY <3>3, <3>4
  <2>4. had' <= clock
    BY <1>0, <2>1 DEF AskedInThePast
  <2>5. AskedInThePast'
    BY <1>0, <2>1, <2>3, <2>4 DEF AskedInThePast, probe
  <2> QED BY <1>1, <2>2, <2>5 DEF FreshInv
<1>4. ASSUME NEW l \in Lan \cup {NoLan}, Moves(l)
      PROVE  FreshInv'
  <2>1. /\ place' = l /\ moves' = moves + 1
        /\ UNCHANGED <<clock, exit, setting, internet, probe, mail, hub, faults, had>>
    BY <1>4 DEF Moves
  <2>2. AddressType' /\ AskedInThePast'
    BY <1>0, <2>1 DEF AddressType, AskedInThePast, probe, hub
  <2> QED BY <1>1, <2>2 DEF FreshInv
<1>5. CASE InternetTurns
  <2>1. /\ internet' = ~internet /\ moves' \in Nat
        /\ UNCHANGED <<clock, place, exit, setting, probe, mail, hub, faults, had>>
    BY <1>0, <1>5 DEF InternetTurns
  <2>2. AddressType' /\ AskedInThePast'
    BY <1>0, <2>1 DEF AddressType, AskedInThePast, probe, hub
  <2> QED BY <1>1, <2>2 DEF FreshInv
<1>6. ASSUME NEW m \in mail, ArrivesLate(m)
      PROVE  FreshInv'
  <2>1. mail' = mail \ {m} /\ Takes(m) /\ UNCHANGED <<clock, network, probe, moves, faults, had>>
    BY <1>6 DEF ArrivesLate
  <2>2. m \in Message /\ mail' \in SUBSET Message
    BY <1>0, <2>1 DEF AddressType
  <2>3. lastId' \in Nat /\ heard' \in Seq(Heard) /\ observed' \in Networks \cup Address
    BY <1>0, <2>1, <2>2, TakesType
  <2>4. AddressType' /\ AskedInThePast'
    BY <1>0, <2>1, <2>2, <2>3 DEF AddressType, AskedInThePast, probe, network
  <2> QED BY <1>1, <2>4 DEF FreshInv
<1>7. CASE PurgesHistory
  <2>1. UNCHANGED <<clock, network, probe, mail, observed, lastId, heard, moves, faults, had>>
    BY <1>7 DEF PurgesHistory
  <2>2. AddressType' /\ AskedInThePast'
    BY <1>0, <2>1 DEF AddressType, AskedInThePast, probe, network
  <2> QED BY <1>1, <2>2 DEF FreshInv
<1>8. CASE ProbeRestarts
  <2>1. /\ cache' = Nobody /\ recheck' = FALSE /\ wasOut' = FALSE /\ asking' = Nobody /\ faults' = faults + 1
        /\ UNCHANGED <<clock, network, beatDue, mail, hub, moves, had>>
    BY <1>8 DEF ProbeRestarts
  <2>2. AskedInThePast'
    BY <1>0, <2>1 DEF AskedInThePast, network
  <2>3. cache' \in Cache \cup {Nobody} /\ asking' \in Lookup \cup {Nobody} /\ recheck' \in BOOLEAN /\ wasOut' \in BOOLEAN
    BY <2>1
  <2>4. faults' \in Nat /\ sent' \in Message \cup {Nobody}
    BY <1>0, <2>1
  <2>5. AddressType'
    BY <1>0, <2>1, <2>3, <2>4 DEF AddressType, network, hub
  <2> QED BY <1>1, <2>2, <2>5 DEF FreshInv
<1> QED BY <1>2, <1>3, <1>4, <1>5, <1>6, <1>7, <1>8

LEMMA AddressBegins == AddressInit => FreshInv
<1> SUFFICES ASSUME AddressInit PROVE FreshInv
  OBVIOUS
<1>1. heard = <<>> /\ heard \in Seq(Heard)
  BY DEF AddressInit
<1>2. clock = 0 /\ had = -1 /\ cache = Nobody /\ asking = Nobody /\ sent = Nobody
  BY DEF AddressInit
<1>3. cache \in Cache \cup {Nobody} /\ asking \in Lookup \cup {Nobody} /\ sent \in Message \cup {Nobody} /\ had \in Int
  BY <1>2
<1>4. /\ recheck \in BOOLEAN /\ wasOut \in BOOLEAN /\ beatDue \in BOOLEAN /\ internet \in BOOLEAN
      /\ mail \in SUBSET Message /\ observed \in Networks \cup Address \cup {Nobody}
  BY DEF AddressInit
<1>5. AddressType
  BY <1>1, <1>3, <1>4 DEF AddressInit, AddressType
<1>6. AskedInThePast /\ BelievedIsFresh
  BY <1>2 DEF AskedInThePast, BelievedIsFresh
<1> QED BY <1>5, <1>6 DEF FreshInv

LEMMA AddressStays == FreshInv /\ UNCHANGED addressVars => FreshInv'
BY DEF FreshInv, AddressType, AskedInThePast, BelievedIsFresh, addressVars, network, probe, hub

LEMMA FreshInductive == FiguresSpec => []FreshInv
<1>1. FiguresInit => FreshInv
  BY AddressBegins DEF FiguresInit
<1>2. FreshInv /\ AddressNext => FreshInv'
  BY BeginsKeeps, LookupKeeps, TheRestKeeps DEF AddressNext
<1>3. FreshInv /\ [FiguresNext]_figuresVars => FreshInv'
  BY <1>2, AddressStays DEF FiguresNext, figuresVars
<1> QED BY <1>1, <1>3, PTL DEF FiguresSpec

\* The addresses' own states: a lookup is of a network, a message carries an
\* address and where it came from, what was heard is dated.
THEOREM FiguresTypeCorrect == FiguresSpec => []AddressType
BY FreshInductive, PTL DEF FreshInv

\* The address a heartbeat says is one its own network had less than the time
\* to live before, or once had if the lookups fail since (needs_refresh,
\* refresh_public_ip and store).
THEOREM AnnouncedIsFresh == FiguresSpec => []BelievedIsFresh
BY FreshInductive, PTL DEF FreshInv

-----------------------------------------------------------------------------
(* The history: what it holds of what was heard.                           *)

\* Opens, of a sequence of heartbeats.
OpensIn(h, retention, k) ==
  \/ k = 1 \/ h[k].ip # h[k - 1].ip
  \/ retention > 0 /\ h[k].at - h[k - 1].at > retention

\* What opened a row after the j-th heartbeat, and the rows after a row.
Openings(h, retention, j) == {k \in (j + 1)..Len(h) : OpensIn(h, retention, k)}
RowsPast(rows, r) == {q \in rows : Before(r, q)}

\* Later heartbeats are in the same row or in later ones, the last one in the
\* row opened last, and those of a row say one address.
InOrder(h, last, now) ==
  /\ \A k \in DOMAIN h : h[k].at <= now /\ h[k].row \in 1..last
  /\ \A k, l \in DOMAIN h : k <= l => h[k].at <= h[l].at /\ h[k].row <= h[l].row
  /\ \A k, l \in DOMAIN h : h[k].row = h[l].row => h[k].ip = h[l].ip
  /\ h # <<>> => h[Len(h)].row = last

\* Another row is opened by another address, or after the hub forgot.
RowsOpen(h, retention) ==
  \A k \in DOMAIN h : k > 1 /\ h[k].row # h[k - 1].row => OpensIn(h, retention, k)

\* A row holds the heartbeats from the a-th to the b-th.
IsRun(h, r, a, b) ==
  /\ a <= b /\ h[a].at = r.from /\ h[b].at = r.until
  /\ h[a].row = r.id /\ h[b].row = r.id /\ h[a].ip = r.ip
  /\ \A k \in DOMAIN h : h[k].row = r.id => k \in a..b

RowsAreRuns(h, rows) ==
  /\ rows \in SUBSET Interval /\ IsFiniteSet(rows)
  /\ \A r \in rows : \E a, b \in DOMAIN h : IsRun(h, r, a, b)
  /\ \A r, q \in rows : r.id = q.id => r = q

\* The row opened last is there unless all are too old, and a row goes with
\* the retention or the cap only.
IsSpared(h, retention, now, j) ==
  /\ retention > 0 => h[j].at >= now - retention
  /\ Cardinality(Openings(h, retention, j)) < MaxIntervals

Remembers(h, retention, rows, last, now) ==
  /\ rows # {} => \E r \in rows : r.id = last
  /\ rows = {} /\ h # <<>> => retention > 0 /\ h[Len(h)].at < now - retention
  /\ \A j \in DOMAIN h : IsSpared(h, retention, now, j) => \E r \in rows : r.id = h[j].row

TellsWhatWasHeard(h, retention, rows, last, now) ==
  /\ InOrder(h, last, now) /\ RowsOpen(h, retention) /\ RowsAreRuns(h, rows)
  /\ Remembers(h, retention, rows, last, now)

RunsAreKept == TellsWhatWasHeard(heard, setting.retention, history, lastId, clock)

RunsInv == AddressType /\ RunsAreKept

\* What is heard is dated, says an address and goes to a row.
LEMMA HeardIs ==
  ASSUME NEW h \in Seq(Heard), NEW k \in DOMAIN h
  PROVE  /\ h[k].at \in Nat /\ h[k].ip \in Address /\ h[k].row \in Nat
         /\ k \in 1..Len(h) /\ Len(h) \in Nat /\ DOMAIN h = 1..Len(h) /\ h # <<>>
<1>1. h[k] \in Heard
  OBVIOUS
<1> QED BY <1>1 DEF Heard

\* The openings after the j-th heartbeat are a finite set.
LEMMA OpeningsFinite ==
  ASSUME NEW h \in Seq(Heard), NEW retention, NEW j \in Nat
  PROVE  /\ IsFiniteSet(Openings(h, retention, j))
         /\ Cardinality(Openings(h, retention, j)) \in Nat
<1>1. IsFiniteSet((j + 1)..Len(h)) /\ Openings(h, retention, j) \in SUBSET ((j + 1)..Len(h))
  BY FS_Interval DEF Openings
<1> QED BY <1>1, FS_Subset, FS_CardinalityType

\* Two rows are two runs: the order of the table is that of the identities,
\* and the later row ends later.
LEMMA BeforeByIds ==
  ASSUME NEW h \in Seq(Heard), NEW rows, NEW last, NEW now,
         InOrder(h, last, now), RowsAreRuns(h, rows), NEW r \in rows, NEW q \in rows
  PROVE  /\ r.id \in Nat /\ r.ip \in Address /\ r.from \in Nat /\ r.until \in Nat /\ r.from <= r.until
         /\ Before(r, q) <=> r.id < q.id
         /\ r.id <= q.id => r.until <= q.until
<1>0. r \in Interval /\ q \in Interval /\ (r.id = q.id => r = q)
  BY DEF RowsAreRuns
<1>1. /\ r.id \in Nat /\ r.ip \in Address /\ r.from \in Nat /\ r.until \in Nat
      /\ q.id \in Nat /\ q.from \in Nat /\ q.until \in Nat
  BY <1>0 DEF Interval
<1>2. PICK a \in DOMAIN h, b \in DOMAIN h : IsRun(h, r, a, b)
  BY DEF RowsAreRuns
<1>3. PICK c \in DOMAIN h, d \in DOMAIN h : IsRun(h, q, c, d)
  BY DEF RowsAreRuns
<1>4. /\ a <= b /\ h[a].at = r.from /\ h[b].at = r.until /\ h[a].row = r.id /\ h[b].row = r.id
      /\ c <= d /\ h[c].at = q.from /\ h[d].at = q.until /\ h[c].row = q.id /\ h[d].row = q.id
  BY <1>2, <1>3 DEF IsRun
<1>5. a \in Nat /\ b \in Nat /\ c \in Nat /\ d \in Nat
  BY HeardIs
<1>6. \A k, l \in DOMAIN h : k <= l => h[k].at <= h[l].at /\ h[k].row <= h[l].row
  BY DEF InOrder
<1>7. r.from <= r.until /\ q.from <= q.until
  BY <1>4, <1>6
<1>8. r.id < q.id => r.until <= q.from
  <2> SUFFICES ASSUME r.id < q.id PROVE r.until <= q.from
    OBVIOUS
  <2>1. ~(c <= b)
    BY <1>1, <1>4, <1>6
  <2>2. b <= c
    BY <1>5, <2>1
  <2> QED BY <1>4, <1>6, <2>2
<1>9. q.id < r.id => q.until <= r.from
  <2> SUFFICES ASSUME q.id < r.id PROVE q.until <= r.from
    OBVIOUS
  <2>1. ~(a <= d)
    BY <1>1, <1>4, <1>6
  <2>2. d <= a
    BY <1>5, <2>1
  <2> QED BY <1>4, <1>6, <2>2
<1>10. CASE r.id < q.id
  <2>1. r.until <= q.from
    BY <1>8, <1>10
  <2>2. r.from <= q.from /\ r.until <= q.until
    BY <1>1, <1>7, <2>1
  <2>3. Before(r, q)
    BY <1>1, <1>10, <2>2 DEF Before
  <2> QED BY <1>1, <1>7, <1>10, <2>2, <2>3
<1>11. CASE q.id < r.id
  <2>1. q.until <= r.from
    BY <1>9, <1>11
  <2>2. q.from <= r.from
    BY <1>1, <1>7, <2>1
  <2>3. ~Before(r, q)
    BY <1>1, <1>11, <2>2 DEF Before
  <2> QED BY <1>1, <1>7, <1>11, <2>3
<1>12. CASE r.id = q.id
  <2>1. r = q
    BY <1>0, <1>12
  <2>2. ~(r.from < r.from) /\ ~(r.id < r.id) /\ r.until <= r.until
    BY <1>1
  <2>3. ~Before(r, q)
    BY <2>1, <2>2 DEF Before
  <2> QED BY <1>1, <1>7, <2>1, <2>2, <2>3
<1>13. r.id < q.id \/ q.id < r.id \/ r.id = q.id
  BY <1>1
<1> QED BY <1>10, <1>11, <1>12, <1>13

\* The row of the greatest identity is the one the hub reads as the newest.
LEMMA NewestIs ==
  ASSUME NEW h \in Seq(Heard), NEW rows, NEW last, NEW now,
         InOrder(h, last, now), RowsAreRuns(h, rows), NEW n \in rows, n.id = last
  PROVE  Newest(rows) = n
<1>1. \A r \in rows : r.id \in Nat /\ r.id <= last /\ (r # n => r.id < last)
  <2> TAKE r \in rows
  <2>1. PICK a \in DOMAIN h, b \in DOMAIN h : IsRun(h, r, a, b)
    BY DEF RowsAreRuns
  <2>2. r.id \in 1..last
    BY <2>1 DEF IsRun, InOrder
  <2>3. r \in Interval /\ n \in Interval /\ (r.id = n.id => r = n)
    BY DEF RowsAreRuns
  <2> QED BY <2>2, <2>3 DEF Interval
<1>2. \A r, q \in rows : Before(r, q) <=> r.id < q.id
  BY BeforeByIds
<1>3. \A r \in rows \ {n} : Before(r, n)
  BY <1>1, <1>2
<1>4. \A w \in rows : (\A r \in rows \ {w} : Before(r, w)) => w = n
  <2> SUFFICES ASSUME NEW w \in rows, \A r \in rows \ {w} : Before(r, w), w # n PROVE FALSE
    OBVIOUS
  <2>1. n.id < w.id
    BY <1>2
  <2> QED BY <1>1, <2>1
<1> QED BY <1>3, <1>4 DEF Newest

\* What one more heartbeat spares, was spared.
LEMMA SparedBefore ==
  ASSUME NEW h \in Seq(Heard), NEW e \in Heard, NEW retention, NEW now, NEW j \in DOMAIN h,
         IsSpared(Append(h, e), retention, now, j)
  PROVE  IsSpared(h, retention, now, j)
<1> DEFINE g == Append(h, e)
           T == Openings(h, retention, j)
           U == Openings(g, retention, j)
<1>1. g \in Seq(Heard) /\ Len(g) = Len(h) + 1 /\ \A k \in 1..Len(h) : g[k] = h[k]
  OBVIOUS
<1>2. j \in 1..Len(h) /\ Len(h) \in Nat
  OBVIOUS
<1>3. IsSpared(g, retention, now, j)
  OBVIOUS
<1> HIDE DEF g
<1>4. T \subseteq U
  <2> SUFFICES ASSUME NEW k \in (j + 1)..Len(h), OpensIn(h, retention, k)
               PROVE  k \in U
    BY DEF Openings
  <2>1. k \in 1..Len(h) /\ k - 1 \in 1..Len(h) /\ k \in (j + 1)..Len(g)
    BY <1>1, <1>2
  <2>2. OpensIn(g, retention, k)
    BY <1>1, <2>1 DEF OpensIn
  <2> QED BY <2>1, <2>2 DEF Openings
<1>5. IsFiniteSet(U) /\ Cardinality(U) \in Nat /\ Cardinality(T) \in Nat
  <2>1. j \in Nat /\ h \in Seq(Heard)
    BY <1>2
  <2>2. Cardinality(T) \in Nat
    BY <2>1, OpeningsFinite
  <2>3. IsFiniteSet(U) /\ Cardinality(U) \in Nat
    BY <1>1, <2>1, OpeningsFinite
  <2> QED BY <2>2, <2>3
<1>6. Cardinality(T) <= Cardinality(U)
  BY <1>4, <1>5, FS_Subset
<1>7. g[j] = h[j] /\ Cardinality(U) < MaxIntervals /\ (retention > 0 => g[j].at >= now - retention)
  BY <1>1, <1>2, <1>3 DEF IsSpared
<1>8. Cardinality(T) < MaxIntervals
  BY <1>5, <1>6, <1>7, AddressAssumption
<1> QED BY <1>7, <1>8 DEF IsSpared

\* The rows after the one of a heartbeat were opened after it.
LEMMA RowsAfter ==
  ASSUME NEW h \in Seq(Heard), NEW rows, NEW last, NEW now, NEW retention,
         InOrder(h, last, now), RowsOpen(h, retention), RowsAreRuns(h, rows),
         NEW j \in DOMAIN h, NEW r \in rows, r.id = h[j].row
  PROVE  /\ Cardinality(RowsPast(rows, r)) \in Nat
         /\ Cardinality(RowsPast(rows, r)) <= Cardinality(Openings(h, retention, j))
<1> DEFINE after == RowsPast(rows, r)
           T == Openings(h, retention, j)
           first(q) == CHOOSE a \in DOMAIN h : \E b \in DOMAIN h : IsRun(h, q, a, b)
           f == [q \in after |-> first(q)]
<1>0. j \in 1..Len(h) /\ Len(h) \in Nat /\ DOMAIN h = 1..Len(h)
  BY HeardIs
<1>1. ASSUME NEW q \in after
      PROVE  first(q) \in T /\ h[first(q)].row = q.id
  <2>1. \E a \in DOMAIN h : \E b \in DOMAIN h : IsRun(h, q, a, b)
    BY DEF RowsAreRuns, RowsPast
  <2>2. PICK b \in DOMAIN h : first(q) \in DOMAIN h /\ IsRun(h, q, first(q), b)
    BY <2>1
  <2> DEFINE a == first(q)
  <2>3. a \in DOMAIN h /\ IsRun(h, q, a, b)
    BY <2>2
  <2> HIDE DEF first
  <2>4. r.id < q.id /\ r.id \in Nat /\ q.id \in Nat
    BY BeforeByIds DEF RowsPast
  <2>5. h[a].row = q.id /\ \A k \in DOMAIN h : h[k].row = q.id => a <= k
    BY <2>3 DEF IsRun
  <2>6. a > j
    <3>1. ~(a <= j)
      BY <2>3, <2>4, <2>5 DEF InOrder
    <3> QED BY <1>0, <2>3, <3>1
  <2>7. a \in (j + 1)..Len(h) /\ a > 1 /\ a - 1 \in DOMAIN h
    BY <1>0, <2>3, <2>6
  <2>8. h[a - 1].row # h[a].row
    BY <1>0, <2>3, <2>5, <2>7
  <2>9. OpensIn(h, retention, a)
    BY <2>3, <2>7, <2>8 DEF RowsOpen
  <2> QED BY <2>5, <2>7, <2>9 DEF Openings
<1>2. IsFiniteSet(T) /\ IsFiniteSet(after) /\ Cardinality(after) \in Nat
  <2>1. IsFiniteSet(rows) /\ after \in SUBSET rows
    BY DEF RowsAreRuns, RowsPast
  <2>2. IsFiniteSet(after) /\ Cardinality(after) \in Nat
    BY <2>1, FS_Subset, FS_CardinalityType
  <2>3. j \in Nat
    BY <1>0
  <2>4. IsFiniteSet(T)
    BY <2>3, OpeningsFinite
  <2> QED BY <2>2, <2>4
<1> HIDE DEF first
<1>3. f \in [after -> T]
  BY <1>1
<1>4. ASSUME NEW q \in after, NEW p \in after, f[q] = f[p]
      PROVE  q = p
  <2>1. q.id = p.id
    BY <1>1, <1>4
  <2> QED BY <2>1 DEF RowsAreRuns, RowsPast
<1>5. f \in Injection(after, T)
  BY <1>3, <1>4 DEF Injection, IsInjective
<1> QED BY <1>2, <1>5, FS_Injection

\* A heartbeat that says the address of the row opened last extends it.
LEMMA RunExtended ==
  ASSUME NEW h \in Seq(Heard), NEW rows, NEW last \in Nat, NEW now \in Nat, NEW retention,
         TellsWhatWasHeard(h, retention, rows, last, now),
         NEW n \in rows, n.id = last,
         NEW e \in Heard, e.at = now, e.ip = n.ip, e.row = last,
         NEW longer \in Interval, longer.id = n.id, longer.ip = n.ip, longer.from = n.from, longer.until = now
  PROVE  LET g == Append(h, e)
             w == (rows \ {n}) \cup {longer}
         IN  TellsWhatWasHeard(g, retention, w, last, now)
<1>0. /\ InOrder(h, last, now) /\ RowsOpen(h, retention) /\ RowsAreRuns(h, rows)
      /\ Remembers(h, retention, rows, last, now)
  BY DEF TellsWhatWasHeard
<1> DEFINE g == Append(h, e)
           w == (rows \ {n}) \cup {longer}
<1>1. /\ g \in Seq(Heard) /\ Len(g) = Len(h) + 1 /\ Len(h) \in Nat
      /\ DOMAIN g = 1..(Len(h) + 1) /\ DOMAIN h = 1..Len(h)
      /\ \A k \in 1..Len(h) : g[k] = h[k]
      /\ g[Len(h) + 1] = e
  OBVIOUS
<1>2. \A j \in DOMAIN h : IsSpared(g, retention, now, j) => IsSpared(h, retention, now, j)
  BY SparedBefore
<1> HIDE DEF g
<1>3. PICK a \in DOMAIN h, b \in DOMAIN h : IsRun(h, n, a, b)
  BY <1>0 DEF RowsAreRuns
<1>4. /\ a \in 1..Len(h) /\ b \in 1..Len(h) /\ a <= b /\ h[a].at = n.from /\ h[a].row = last /\ h[b].row = last
      /\ h[a].ip = n.ip /\ \A k \in 1..Len(h) : h[k].row = last => k \in a..b
  BY <1>1, <1>3 DEF IsRun
<1>5. \A k \in 1..Len(h) : /\ h[k].at \in Nat /\ h[k].row \in Nat /\ h[k].at <= now /\ h[k].row \in 1..last
                           /\ h[k].row = last => h[k].ip = e.ip
  BY <1>0, <1>1, <1>4, HeardIs DEF InOrder
<1>6. h[Len(h)].row = last /\ Len(h) \in 1..Len(h)
  BY <1>0, <1>1, <1>4 DEF InOrder
<1>7. InOrder(g, last, now)
  <2>1. \A k \in DOMAIN g : g[k].at <= now /\ g[k].row \in 1..last
    <3> TAKE k \in DOMAIN g
    <3>1. CASE k \in 1..Len(h)
      BY <1>1, <1>5, <3>1
    <3>2. CASE k = Len(h) + 1
      BY <1>1, <1>5, <1>6, <3>2
    <3> QED BY <1>1, <3>1, <3>2
  <2>2. \A k, l \in DOMAIN g : k <= l => g[k].at <= g[l].at /\ g[k].row <= g[l].row
    <3> SUFFICES ASSUME NEW k \in DOMAIN g, NEW l \in DOMAIN g, k <= l
                 PROVE  g[k].at <= g[l].at /\ g[k].row <= g[l].row
      OBVIOUS
    <3>1. CASE l \in 1..Len(h)
      BY <1>0, <1>1, <3>1 DEF InOrder
    <3>2. CASE l = Len(h) + 1
      BY <1>1, <2>1, <3>2
    <3> QED BY <1>1, <3>1, <3>2
  <2>3. \A k, l \in DOMAIN g : g[k].row = g[l].row => g[k].ip = g[l].ip
    <3> SUFFICES ASSUME NEW k \in DOMAIN g, NEW l \in DOMAIN g, g[k].row = g[l].row
                 PROVE  g[k].ip = g[l].ip
      OBVIOUS
    <3>1. CASE k \in 1..Len(h) /\ l \in 1..Len(h)
      BY <1>0, <1>1, <3>1 DEF InOrder
    <3>2. CASE k = Len(h) + 1 \/ l = Len(h) + 1
      BY <1>1, <1>5, <3>2
    <3> QED BY <1>1, <3>1, <3>2
  <2> QED BY <1>1, <2>1, <2>2, <2>3 DEF InOrder
<1>8. RowsOpen(g, retention)
  <2> SUFFICES ASSUME NEW k \in DOMAIN g, k > 1, g[k].row # g[k - 1].row
               PROVE  OpensIn(g, retention, k)
    BY DEF RowsOpen
  <2>1. k # Len(h) + 1
    BY <1>1, <1>6
  <2>2. k \in 1..Len(h) /\ k - 1 \in 1..Len(h)
    BY <1>1, <2>1
  <2>3. OpensIn(h, retention, k)
    BY <1>0, <1>1, <2>2 DEF RowsOpen
  <2> QED BY <1>1, <2>2, <2>3 DEF OpensIn
<1>9. RowsAreRuns(g, w)
  <2>1. w \in SUBSET Interval /\ IsFiniteSet(w)
    BY <1>0, FS_RemoveElement, FS_AddElement DEF RowsAreRuns
  <2>2. \A r, q \in w : r.id = q.id => r = q
    BY <1>0 DEF RowsAreRuns
  <2>3. ASSUME NEW r \in w
        PROVE  \E c, d \in DOMAIN g : IsRun(g, r, c, d)
    <3>1. CASE r = longer
      <4>1. IsRun(g, r, a, Len(h) + 1)
        BY <1>1, <1>4, <3>1 DEF IsRun
      <4> QED BY <1>1, <1>4, <4>1
    <3>2. CASE r \in rows /\ r # n
      <4>1. r.id # last
        BY <1>0, <3>2 DEF RowsAreRuns
      <4>2. PICK c \in DOMAIN h, d \in DOMAIN h : IsRun(h, r, c, d)
        BY <1>0, <3>2 DEF RowsAreRuns
      <4>3. c \in DOMAIN g /\ d \in DOMAIN g
        BY <1>1
      <4>4. IsRun(g, r, c, d)
        BY <1>1, <4>1, <4>2 DEF IsRun
      <4> QED BY <4>3, <4>4
    <3> QED BY <3>1, <3>2
  <2> QED BY <2>1, <2>2, <2>3 DEF RowsAreRuns
<1>10. Remembers(g, retention, w, last, now)
  <2>1. ASSUME NEW j \in DOMAIN g, IsSpared(g, retention, now, j)
        PROVE  \E r \in w : r.id = g[j].row
    <3>1. CASE j = Len(h) + 1
      BY <1>1, <3>1
    <3>2. CASE j \in 1..Len(h)
      <4>1. PICK r \in rows : r.id = h[j].row
        BY <1>0, <1>1, <1>2, <2>1, <3>2 DEF Remembers
      <4> QED BY <1>1, <3>2, <4>1
    <3> QED BY <1>1, <3>1, <3>2
  <2> QED BY <2>1 DEF Remembers
<1> QED BY <1>7, <1>8, <1>9, <1>10 DEF g, TellsWhatWasHeard

\* Another address, or one after all was forgotten, opens a row, and the
\* oldest goes beyond the cap.
LEMMA RunOpened ==
  ASSUME NEW h \in Seq(Heard), NEW rows, NEW last \in Nat, NEW now \in Nat, NEW retention \in Nat,
         TellsWhatWasHeard(h, retention, rows, last, now),
         NEW e \in Heard, e.at = now, e.row = last + 1,
         \A n \in rows : n.id = last => n.ip # e.ip,
         NEW new \in Interval, new.id = last + 1, new.ip = e.ip, new.from = now, new.until = now
  PROVE  LET g == Append(h, e)
             w == Capped(rows \cup {new})
         IN  TellsWhatWasHeard(g, retention, w, last + 1, now)
<1>0. /\ InOrder(h, last, now) /\ RowsOpen(h, retention) /\ RowsAreRuns(h, rows)
      /\ Remembers(h, retention, rows, last, now)
  BY DEF TellsWhatWasHeard
<1> DEFINE g == Append(h, e)
           all == rows \cup {new}
           w == Capped(all)
<1>1. /\ g \in Seq(Heard) /\ Len(g) = Len(h) + 1 /\ Len(h) \in Nat
      /\ DOMAIN g = 1..(Len(h) + 1) /\ DOMAIN h = 1..Len(h)
      /\ \A k \in 1..Len(h) : g[k] = h[k]
      /\ g[Len(h) + 1] = e
  OBVIOUS
<1>2. \A j \in DOMAIN h : IsSpared(g, retention, now, j) => IsSpared(h, retention, now, j)
  BY SparedBefore
<1> HIDE DEF g
<1>3. \A k \in 1..Len(h) : h[k].at \in Nat /\ h[k].row \in Nat /\ h[k].at <= now /\ h[k].row \in 1..last
  BY <1>0, <1>1, HeardIs DEF InOrder
<1>4. InOrder(g, last + 1, now)
  <2>1. \A k \in DOMAIN g : g[k].at <= now /\ g[k].row \in 1..(last + 1)
    <3> TAKE k \in DOMAIN g
    <3>1. CASE k \in 1..Len(h)
      BY <1>1, <1>3, <3>1
    <3>2. CASE k = Len(h) + 1
      BY <1>1, <3>2
    <3> QED BY <1>1, <3>1, <3>2
  <2>2. \A k, l \in DOMAIN g : k <= l => g[k].at <= g[l].at /\ g[k].row <= g[l].row
    <3> SUFFICES ASSUME NEW k \in DOMAIN g, NEW l \in DOMAIN g, k <= l
                 PROVE  g[k].at <= g[l].at /\ g[k].row <= g[l].row
      OBVIOUS
    <3>1. CASE l \in 1..Len(h)
      BY <1>0, <1>1, <3>1 DEF InOrder
    <3>2. CASE l = Len(h) + 1
      BY <1>1, <2>1, <3>2
    <3> QED BY <1>1, <3>1, <3>2
  <2>3. \A k, l \in DOMAIN g : g[k].row = g[l].row => g[k].ip = g[l].ip
    <3> SUFFICES ASSUME NEW k \in DOMAIN g, NEW l \in DOMAIN g, g[k].row = g[l].row
                 PROVE  g[k].ip = g[l].ip
      OBVIOUS
    <3>1. CASE k \in 1..Len(h) /\ l \in 1..Len(h)
      BY <1>0, <1>1, <3>1 DEF InOrder
    <3>2. CASE k = Len(h) + 1 \/ l = Len(h) + 1
      <4>1. \A i \in 1..Len(h) : g[i].row < last + 1
        BY <1>1, <1>3
      <4>2. k = Len(h) + 1 /\ l = Len(h) + 1
        BY <1>1, <3>2, <4>1
      <4> QED BY <4>2
    <3> QED BY <1>1, <3>1, <3>2
  <2> QED BY <1>1, <2>1, <2>2, <2>3 DEF InOrder
<1>5. Len(h) > 0 => OpensIn(g, retention, Len(h) + 1)
  <2> SUFFICES ASSUME Len(h) > 0 PROVE OpensIn(g, retention, Len(h) + 1)
    OBVIOUS
  <2>1. /\ Len(h) \in 1..Len(h) /\ h # <<>> /\ h[Len(h)].row = last
        /\ g[Len(h)] = h[Len(h)] /\ (Len(h) + 1) - 1 = Len(h)
    BY <1>0, <1>1 DEF InOrder
  <2>2. CASE rows = {}
    <3>1. retention > 0 /\ h[Len(h)].at < now - retention /\ h[Len(h)].at \in Nat
      BY <1>0, <1>3, <2>1, <2>2 DEF Remembers
    <3>2. e.at - h[Len(h)].at > retention
      BY <3>1
    <3> QED BY <1>1, <2>1, <3>1, <3>2 DEF OpensIn
  <2>3. CASE rows # {}
    <3>1. PICK n \in rows : n.id = last
      BY <1>0, <2>3 DEF Remembers
    <3>2. PICK a \in DOMAIN h, b \in DOMAIN h : IsRun(h, n, a, b)
      BY <1>0 DEF RowsAreRuns
    <3>3. h[a].row = last /\ h[a].ip = n.ip
      BY <3>1, <3>2 DEF IsRun
    <3>4. h[Len(h)].ip = n.ip
      BY <1>0, <1>1, <2>1, <3>3 DEF InOrder
    <3> QED BY <1>1, <2>1, <3>1, <3>4 DEF OpensIn
  <2> QED BY <2>2, <2>3
<1>6. RowsOpen(g, retention)
  <2> SUFFICES ASSUME NEW k \in DOMAIN g, k > 1, g[k].row # g[k - 1].row
               PROVE  OpensIn(g, retention, k)
    BY DEF RowsOpen
  <2>1. CASE k = Len(h) + 1
    BY <1>1, <1>5, <2>1
  <2>2. CASE k # Len(h) + 1
    <3>1. k \in 1..Len(h) /\ k - 1 \in 1..Len(h)
      BY <1>1, <2>2
    <3>2. OpensIn(h, retention, k)
      BY <1>0, <1>1, <3>1 DEF RowsOpen
    <3> QED BY <1>1, <3>1, <3>2 DEF OpensIn
  <2> QED BY <2>1, <2>2
<1>7. \A r \in rows : r.id \in 1..last
  <2> TAKE r \in rows
  <2>1. PICK a \in DOMAIN h, b \in DOMAIN h : IsRun(h, r, a, b)
    BY <1>0 DEF RowsAreRuns
  <2> QED BY <1>1, <1>3, <2>1 DEF IsRun
<1>8. RowsAreRuns(g, all)
  <2>1. all \in SUBSET Interval /\ IsFiniteSet(all)
    BY <1>0, FS_AddElement DEF RowsAreRuns
  <2>2. \A r, q \in all : r.id = q.id => r = q
    <3> SUFFICES ASSUME NEW r \in all, NEW q \in all, r.id = q.id PROVE r = q
      OBVIOUS
    <3>1. CASE r \in rows /\ q \in rows
      BY <1>0, <3>1 DEF RowsAreRuns
    <3>2. CASE r = new \/ q = new
      BY <1>7, <3>2
    <3> QED BY <3>1, <3>2
  <2>3. ASSUME NEW r \in all
        PROVE  \E c, d \in DOMAIN g : IsRun(g, r, c, d)
    <3>1. CASE r = new
      <4>1. IsRun(g, r, Len(h) + 1, Len(h) + 1)
        BY <1>1, <1>3, <3>1 DEF IsRun
      <4> QED BY <1>1, <4>1
    <3>2. CASE r \in rows
      <4>1. r.id # last + 1
        BY <1>7, <3>2
      <4>2. PICK c \in DOMAIN h, d \in DOMAIN h : IsRun(h, r, c, d)
        BY <1>0, <3>2 DEF RowsAreRuns
      <4>3. c \in DOMAIN g /\ d \in DOMAIN g
        BY <1>1
      <4>4. IsRun(g, r, c, d)
        BY <1>1, <4>1, <4>2 DEF IsRun
      <4> QED BY <4>3, <4>4
    <3> QED BY <3>1, <3>2
  <2> QED BY <2>1, <2>2, <2>3 DEF RowsAreRuns
<1>9. w \subseteq all /\ IsFiniteSet(all)
  BY <1>0, <1>8 DEF Capped, RowsAreRuns
<1>10. RowsAreRuns(g, w)
  <2>1. IsFiniteSet(w)
    BY <1>9, FS_Subset
  <2> QED BY <1>0, <1>8, <1>9, <2>1 DEF RowsAreRuns
<1>11. \A r, q \in all : Before(r, q) <=> r.id < q.id
  BY <1>1, <1>4, <1>8, BeforeByIds
<1>12. new \in w
  <2>1. {q \in all : Before(new, q)} = {}
    BY <1>7, <1>11
  <2>2. Cardinality({q \in all : Before(new, q)}) < MaxIntervals
    BY <2>1, FS_EmptySet, AddressAssumption
  <2> QED BY <2>2 DEF Capped
<1>13. ASSUME NEW j \in DOMAIN g, IsSpared(g, retention, now, j)
       PROVE  \E r \in w : r.id = g[j].row
  <2>1. CASE j = Len(h) + 1
    BY <1>1, <1>12, <2>1
  <2>2. CASE j \in 1..Len(h)
    <3>1. PICK r \in rows : r.id = h[j].row
      BY <1>0, <1>1, <1>2, <1>13, <2>2 DEF Remembers
    <3>2. r \in all /\ r.id = g[j].row
      BY <1>1, <2>2, <3>1
    <3>3. /\ Cardinality(RowsPast(all, r)) \in Nat
          /\ Cardinality(RowsPast(all, r)) <= Cardinality(Openings(g, retention, j))
      <4>1. /\ g \in Seq(Heard) /\ InOrder(g, last + 1, now) /\ RowsOpen(g, retention) /\ RowsAreRuns(g, all)
            /\ j \in DOMAIN g /\ r \in all /\ r.id = g[j].row
        BY <1>1, <1>4, <1>6, <1>8, <3>2
      <4> HIDE DEF all
      <4> QED BY <4>1, RowsAfter
    <3>4. /\ Cardinality(Openings(g, retention, j)) \in Nat
          /\ Cardinality(Openings(g, retention, j)) < MaxIntervals
      <4>1. j \in Nat
        BY <1>1, <2>2
      <4>2. Cardinality(Openings(g, retention, j)) \in Nat
        BY <1>1, <4>1, OpeningsFinite
      <4> QED BY <1>13, <4>2 DEF IsSpared
    <3>5. Cardinality(RowsPast(all, r)) < MaxIntervals
      BY <3>3, <3>4, AddressAssumption
    <3>6. r \in w
      BY <3>2, <3>5 DEF Capped, RowsPast
    <3> QED BY <3>2, <3>6
  <2>3. j \in 1..Len(h) \/ j = Len(h) + 1
    BY <1>1
  <2> QED BY <2>1, <2>2, <2>3
<1>14. Remembers(g, retention, w, last + 1, now)
  BY <1>12, <1>13 DEF Remembers
<1> QED BY <1>4, <1>6, <1>10, <1>14 DEF g, TellsWhatWasHeard

\* A heartbeat the hub reads (record_heartbeat).
LEMMA TakesRuns ==
  ASSUME RunsInv, NEW m \in Message, Takes(m), UNCHANGED <<clock, setting>>
  PROVE  RunsAreKept'
<1>0. /\ heard \in Seq(Heard) /\ lastId \in Nat /\ clock \in Nat /\ setting.retention \in Nat
      /\ m.ip \in Address \cup {Nobody}
      /\ TellsWhatWasHeard(heard, setting.retention, history, lastId, clock)
      /\ InOrder(heard, lastId, clock) /\ RowsOpen(heard, setting.retention) /\ RowsAreRuns(heard, history)
      /\ Remembers(heard, setting.retention, history, lastId, clock)
  BY SettingIs DEF RunsInv, RunsAreKept, TellsWhatWasHeard, AddressType, Message
<1>1. CASE m.ip = Nobody
  <2>1. UNCHANGED <<history, lastId, heard>>
    BY <1>1 DEF Takes, Recorded
  <2> QED BY <1>0, <2>1 DEF RunsAreKept
<1>2. CASE m.ip # Nobody /\ Confirms(m)
  <2> DEFINE e == [at |-> clock, ip |-> m.ip, row |-> lastId]
             n == Newest(history)
             longer == [n EXCEPT !.until = clock]
  <2>1. history # {} /\ n.ip = m.ip
    BY <1>2 DEF Confirms
  <2>2. PICK q \in history : q.id = lastId
    BY <1>0, <2>1 DEF Remembers
  <2>3. n = q
    BY <1>0, <2>2, NewestIs
  <2>4. n \in history /\ n.id = lastId /\ n \in Interval
    BY <1>0, <2>2, <2>3 DEF RowsAreRuns
  <2>5. lastId' = lastId /\ heard' = Append(heard, e) /\ history' = (history \ {n}) \cup {longer}
    BY <1>2 DEF Takes, Recorded, Prolonged
  <2>6. e \in Heard /\ e.at = clock /\ e.ip = n.ip /\ e.row = lastId
    BY <1>0, <1>2, <2>1 DEF Heard
  <2> HIDE DEF e, n
  <2>7. longer \in Interval /\ longer.id = n.id /\ longer.ip = n.ip /\ longer.from = n.from /\ longer.until = clock
    BY <1>0, <2>4 DEF Interval
  <2> HIDE DEF longer
  <2>8. TellsWhatWasHeard(heard', setting.retention, history', lastId', clock)
    BY <1>0, <2>4, <2>5, <2>6, <2>7, RunExtended
  <2> QED BY <2>8 DEF RunsAreKept
<1>3. CASE m.ip # Nobody /\ ~Confirms(m)
  <2> DEFINE e == [at |-> clock, ip |-> m.ip, row |-> lastId + 1]
             new == Opened(m)
  <2>1. lastId' = lastId + 1 /\ heard' = Append(heard, e) /\ history' = Capped(history \cup {new})
    BY <1>3 DEF Takes, Recorded
  <2>2. e \in Heard /\ e.at = clock /\ e.ip = m.ip /\ e.row = lastId + 1
    BY <1>0, <1>3 DEF Heard
  <2>3. new \in Interval /\ new.id = lastId + 1 /\ new.ip = m.ip /\ new.from = clock /\ new.until = clock
    BY <1>0, <1>3 DEF Opened, Interval
  <2>4. \A n \in history : n.id = lastId => n.ip # m.ip
    <3> SUFFICES ASSUME NEW n \in history, n.id = lastId PROVE n.ip # m.ip
      OBVIOUS
    <3>1. Newest(history) = n
      BY <1>0, NewestIs
    <3> QED BY <1>3, <3>1 DEF Confirms
  <2> HIDE DEF e, new
  <2>5. TellsWhatWasHeard(heard', setting.retention, history', lastId', clock)
    BY <1>0, <2>1, <2>2, <2>3, <2>4, RunOpened
  <2> QED BY <2>5 DEF RunsAreKept
<1> QED BY <1>1, <1>2, <1>3

\* While the hub reads nothing, what it keeps only grows older.
LEMMA RunsAge ==
  ASSUME RunsInv, UNCHANGED <<setting, history, lastId, heard>>, clock' \in Nat, clock' >= clock
  PROVE  RunsAreKept'
<1>0. /\ heard \in Seq(Heard) /\ clock \in Nat /\ setting.retention \in Nat /\ RunsAreKept
  BY SettingIs DEF RunsInv, AddressType
<1>1. InOrder(heard, lastId, clock')
  BY <1>0, HeardIs DEF RunsAreKept, TellsWhatWasHeard, InOrder
<1>2. heard # <<>> => Len(heard) \in DOMAIN heard
  BY <1>0
<1>3. \A j \in DOMAIN heard : IsSpared(heard, setting.retention, clock', j) => IsSpared(heard, setting.retention, clock, j)
  BY <1>0, HeardIs DEF IsSpared
<1>4. history = {} /\ heard # <<>> => setting.retention > 0 /\ heard[Len(heard)].at < clock' - setting.retention
  BY <1>0, <1>2, HeardIs DEF RunsAreKept, TellsWhatWasHeard, Remembers
<1>5. Remembers(heard, setting.retention, history, lastId, clock')
  BY <1>0, <1>3, <1>4 DEF RunsAreKept, TellsWhatWasHeard, Remembers
<1> QED BY <1>0, <1>1, <1>5 DEF RunsAreKept, TellsWhatWasHeard

\* The purge takes the rows that ended before the cutoff, the newest last.
LEMMA PurgeRuns ==
  ASSUME RunsInv, PurgesHistory
  PROVE  RunsAreKept'
<1>0. /\ heard \in Seq(Heard) /\ clock \in Nat /\ setting.retention \in Nat /\ RunsAreKept
      /\ InOrder(heard, lastId, clock) /\ RowsAreRuns(heard, history)
      /\ Remembers(heard, setting.retention, history, lastId, clock)
  BY SettingIs DEF RunsInv, RunsAreKept, TellsWhatWasHeard, AddressType
<1>1. /\ UNCHANGED <<clock, setting, lastId, heard>> /\ history' = {i \in history : i.until >= Cutoff}
      /\ \E i \in history : i.until < Cutoff
  BY DEF PurgesHistory, network
<1>2. \A i \in history : i.until \in Nat
  BY <1>0 DEF RowsAreRuns, Interval
<1>3. setting.retention > 0 /\ Cutoff = clock - setting.retention /\ Cutoff \in Int
  BY <1>0, <1>1, <1>2 DEF Cutoff
<1>4. PICK n \in history : n.id = lastId
  BY <1>0, <1>1 DEF Remembers
<1>5. \A r \in history : r.until <= n.until
  <2> TAKE r \in history
  <2>1. PICK a \in DOMAIN heard, b \in DOMAIN heard : IsRun(heard, r, a, b)
    BY <1>0 DEF RowsAreRuns
  <2>2. r.id <= n.id
    BY <1>0, <1>4, <2>1 DEF IsRun, InOrder
  <2> QED BY <1>0, <2>2, BeforeByIds
<1>6. history' # {} => n \in history'
  BY <1>1, <1>2, <1>3, <1>5
<1>7. history' = {} => heard[Len(heard)].at < clock - setting.retention
  <2> SUFFICES ASSUME history' = {} PROVE heard[Len(heard)].at < clock - setting.retention
    OBVIOUS
  <2>1. n.until < clock - setting.retention
    BY <1>1, <1>2, <1>3
  <2>2. PICK a \in DOMAIN heard, b \in DOMAIN heard : IsRun(heard, n, a, b)
    BY <1>0 DEF RowsAreRuns
  <2>3. Len(heard) \in DOMAIN heard /\ heard[Len(heard)].row = n.id
    BY <1>0, <1>4, <2>2, HeardIs DEF InOrder
  <2>4. Len(heard) <= b /\ heard[b].at = n.until
    BY <2>2, <2>3 DEF IsRun
  <2>5. heard[Len(heard)].at <= n.until /\ heard[Len(heard)].at \in Nat
    BY <1>0, <2>2, <2>3, <2>4, HeardIs DEF InOrder
  <2>6. n.until \in Nat /\ clock - setting.retention \in Int
    BY <1>0, <1>2
  <2> QED BY <2>1, <2>5, <2>6
<1>8. ASSUME NEW j \in DOMAIN heard, IsSpared(heard, setting.retention, clock, j)
      PROVE  \E r \in history' : r.id = heard[j].row
  <2>1. PICK r \in history : r.id = heard[j].row
    BY <1>0, <1>8 DEF Remembers
  <2>2. PICK a \in DOMAIN heard, b \in DOMAIN heard : IsRun(heard, r, a, b)
    BY <1>0 DEF RowsAreRuns
  <2>3. j <= b /\ heard[b].at = r.until
    BY <2>1, <2>2 DEF IsRun
  <2>4. heard[j].at <= r.until /\ heard[j].at \in Nat
    BY <1>0, <2>2, <2>3, HeardIs DEF InOrder
  <2>5. heard[j].at >= clock - setting.retention
    BY <1>3, <1>8 DEF IsSpared
  <2>6. r.until >= Cutoff
    BY <1>0, <1>2, <1>3, <2>4, <2>5
  <2> QED BY <1>1, <2>1, <2>6
<1>9. Remembers(heard, setting.retention, history', lastId, clock)
  BY <1>3, <1>4, <1>6, <1>7, <1>8 DEF Remembers
<1>10. RowsAreRuns(heard, history')
  <2>1. history' \subseteq history /\ IsFiniteSet(history')
    BY <1>0, <1>1, FS_Subset DEF RowsAreRuns
  <2> QED BY <1>0, <2>1 DEF RowsAreRuns
<1> QED BY <1>0, <1>1, <1>9, <1>10 DEF RunsAreKept, TellsWhatWasHeard

LEMMA RunsBegin == AddressInit => RunsAreKept
<1> SUFFICES ASSUME AddressInit PROVE RunsAreKept
  OBVIOUS
<1>1. heard = <<>> /\ DOMAIN heard = {} /\ history = {} /\ IsFiniteSet(history)
  BY FS_EmptySet DEF AddressInit
<1>2. InOrder(heard, lastId, clock) /\ RowsOpen(heard, setting.retention)
  BY <1>1 DEF InOrder, RowsOpen
<1>3. RowsAreRuns(heard, history)
  BY <1>1 DEF RowsAreRuns
<1>4. Remembers(heard, setting.retention, history, lastId, clock)
  BY <1>1 DEF Remembers
<1> QED BY <1>2, <1>3, <1>4 DEF RunsAreKept, TellsWhatWasHeard

LEMMA RunsStay ==
  ASSUME RunsInv, AskedInThePast, [FiguresNext]_figuresVars
  PROVE  RunsAreKept'
<1>0. AddressType /\ clock \in Nat /\ setting.chosen \in BOOLEAN /\ RunsAreKept
  BY SettingIs DEF RunsInv, AddressType
<1>1. CASE UNCHANGED <<setting, history, lastId, heard>> /\ (clock' = clock \/ clock' = clock + 1)
  BY <1>0, <1>1, RunsAge
<1>2. ASSUME NEW m \in Message, Takes(m), UNCHANGED <<clock, setting>>
      PROVE  RunsAreKept'
  BY <1>2, TakesRuns
<1>3. ASSUME NEW id \in Networks, NEW c \in Cache, Sends(id, c), UNCHANGED <<clock, setting>>
      PROVE  RunsAreKept'
  <2>1. /\ sent' # Nobody => UNCHANGED <<history, lastId, heard>> \/ Takes(sent')
        /\ sent' = Nobody => UNCHANGED <<history, lastId, heard>>
        /\ sent' \in Message \cup {Nobody}
    BY <1>0, <1>3, SendsType
  <2> QED BY <1>1, <1>2, <1>3, <2>1
<1>4. CASE BeginsBeat
  <2>1. UNCHANGED <<clock, setting>>
    BY <1>4 DEF BeginsBeat, network
  <2> DEFINE forced == recheck \/ (wasOut /\ internet)
  <2>2. CASE NeedsRefresh(Identity, forced)
    BY <1>1, <1>4, <2>1, <2>2 DEF BeginsBeat, hub
  <2>3. CASE ~NeedsRefresh(Identity, forced)
    <3>1. Sends(Identity, cache)
      BY <1>4, <2>3 DEF BeginsBeat
    <3>2. cache \in Cache /\ Identity \in Networks
      BY <1>0, <2>3, SettingIs DEF NeedsRefresh, AddressType
    <3> QED BY <1>3, <2>1, <3>1, <3>2
  <2> QED BY <2>2, <2>3
<1>5. CASE LookupEnds
  <2>1. UNCHANGED <<clock, setting>> /\ asking \in Lookup /\ asking.net \in Networks /\ asking.at \in Nat
    BY <1>0, <1>5 DEF LookupEnds, network, AddressType, Lookup
  <2>2. PICK ip \in {Nobody} \cup {exit[l] : l \in {place} \cap Lan} :
          cache' = Store(asking.net, ip, asking.at) /\ Sends(asking.net, cache')
    BY <1>5 DEF LookupEnds
  <2>3. ip \in Address \cup {Nobody} /\ cache \in Cache \cup {Nobody}
    BY <1>0, <2>2 DEF AddressType
  <2>4. cache' \in Cache
    BY <2>1, <2>2, <2>3, StoreIs
  <2> QED BY <1>3, <2>1, <2>2, <2>4
<1>6. ASSUME NEW m \in mail, ArrivesLate(m)
      PROVE  RunsAreKept'
  <2>1. Takes(m) /\ UNCHANGED <<clock, setting>> /\ m \in Message
    BY <1>0, <1>6 DEF ArrivesLate, network, AddressType
  <2> QED BY <1>2, <2>1
<1>7. CASE PurgesHistory
  BY <1>7, PurgeRuns
<1>8. CASE \/ Tick \/ (\E l \in Lan \cup {NoLan} : Moves(l)) \/ (\E l \in Lan, a \in Address : Renewed(l, a))
           \/ InternetTurns \/ ProbeRestarts
  <2>1. UNCHANGED <<setting, history, lastId, heard>> /\ (clock' = clock \/ clock' = clock + 1)
    BY <1>8 DEF Tick, Moves, Renewed, InternetTurns, ProbeRestarts, network, hub
  <2> QED BY <1>1, <2>1
<1>9. CASE UNCHANGED addressVars
  BY <1>1, <1>9 DEF addressVars, network, hub
<1>10. AddressNext \/ UNCHANGED addressVars
  BY DEF FiguresNext, figuresVars
<1> QED BY <1>4, <1>5, <1>6, <1>7, <1>8, <1>9, <1>10 DEF AddressNext

\* Of the rows that hold a second, the report reads one.
LEMMA OldestIs ==
  ASSUME RunsInv, NEW rows \in SUBSET history, rows # {}
  PROVE  Oldest(rows) \in rows
<1>0. heard \in Seq(Heard) /\ InOrder(heard, lastId, clock) /\ RowsAreRuns(heard, history)
  BY DEF RunsInv, RunsAreKept, TellsWhatWasHeard, AddressType
<1>1. \A r, q \in history : r.id \in Nat /\ (Before(r, q) <=> r.id < q.id) /\ (r.id = q.id => r = q)
  BY <1>0, BeforeByIds DEF RowsAreRuns
<1> DEFINE ids == {r.id : r \in rows}
<1>2. ids \in SUBSET Nat /\ ids # {}
  BY <1>1
<1>3. PICK n \in ids : \A i \in ids : n <= i
  BY <1>2, LeastNumber
<1>4. PICK o \in rows : o.id = n
  OBVIOUS
<1>5. \A q \in rows \ {o} : Before(o, q)
  <2> TAKE q \in rows \ {o}
  <2>1. n <= q.id /\ q.id # n
    BY <1>1, <1>3, <1>4
  <2> QED BY <1>1, <1>4, <2>1
<1> QED BY <1>5 DEF Oldest

\* Heartbeats that open nothing are in one row.
LEMMA SameRow ==
  ASSUME NEW h \in Seq(Heard), NEW retention, RowsOpen(h, retention),
         NEW i \in DOMAIN h, NEW j \in DOMAIN h, i <= j,
         \A k \in (i + 1)..j : ~OpensIn(h, retention, k)
  PROVE  h[i].row = h[j].row
<1> SUFFICES ASSUME h[i].row # h[j].row PROVE FALSE
  OBVIOUS
<1> DEFINE others == {k \in i..j : h[k].row # h[i].row}
<1>0. i \in Nat /\ j \in Nat /\ DOMAIN h = 1..Len(h) /\ Len(h) \in Nat /\ 1 <= i /\ j <= Len(h)
  BY HeardIs
<1>1. others \in SUBSET Nat /\ others # {}
  BY <1>0
<1>2. PICK k \in others : \A l \in others : k <= l
  BY <1>1, LeastNumber
<1>3. k \in i..j /\ h[k].row # h[i].row /\ k # i
  OBVIOUS
<1>4. k \in (i + 1)..j /\ k - 1 \in i..j /\ k > 1 /\ k \in DOMAIN h
  BY <1>0, <1>3
<1>5. h[k - 1].row = h[i].row
  <2>1. ~(k <= k - 1)
    BY <1>0, <1>4
  <2> QED BY <1>2, <1>4, <2>1
<1> QED BY <1>3, <1>4, <1>5 DEF RowsOpen

\* What the table holds says which address a second was behind.
LEMMA RunsTellTheAddress == RunsInv => AttributedWhereItWas
<1> SUFFICES ASSUME RunsInv, NEW s \in 0..clock
             PROVE  LET a == AddressAt(s, IntervalsOf(s, clock))
                    IN /\ a # Nobody => \E i, j \in DOMAIN heard : Says(i, j, s) /\ heard[i].ip = a
                       /\ (\E i, j \in DOMAIN heard : Says(i, j, s) /\ IsKept(i, j)) => a # Nobody
  BY DEF AttributedWhereItWas
<1>0. /\ heard \in Seq(Heard) /\ clock \in Nat /\ s \in Nat /\ s <= clock
      /\ InOrder(heard, lastId, clock) /\ RowsOpen(heard, setting.retention) /\ RowsAreRuns(heard, history)
      /\ Remembers(heard, setting.retention, history, lastId, clock)
  BY DEF RunsInv, RunsAreKept, TellsWhatWasHeard, AddressType
<1> DEFINE rows == IntervalsOf(s, clock)
           holds == {r \in rows : s \in r.from..r.until}
           a == AddressAt(s, rows)
<1>1. a = IF holds = {} THEN Nobody ELSE Oldest(holds).ip
  BY DEF AddressAt
<1>2. holds \in SUBSET history /\ \A r \in holds : s \in r.from..r.until
  BY DEF IntervalsOf
<1>3. \A r \in history : r.from \in Nat /\ r.until \in Nat /\ r.ip \in Address
  BY <1>0 DEF RowsAreRuns, Interval
<1>4. \A r \in history : s \in r.from..r.until => r \in holds
  BY <1>0, <1>3 DEF IntervalsOf
<1> HIDE DEF rows, holds, a
<1>5. holds # {} => Oldest(holds) \in holds /\ a = Oldest(holds).ip /\ a \in Address /\ a # Nobody
  <2> SUFFICES ASSUME holds # {} PROVE Oldest(holds) \in holds /\ a = Oldest(holds).ip /\ a \in Address /\ a # Nobody
    OBVIOUS
  <2>1. Oldest(holds) \in holds
    BY <1>2, OldestIs
  <2> QED BY <1>1, <1>2, <1>3, <2>1, AddressAssumption
<1>6. a # Nobody => \E i, j \in DOMAIN heard : Says(i, j, s) /\ heard[i].ip = a
  <2> SUFFICES ASSUME a # Nobody PROVE \E i, j \in DOMAIN heard : Says(i, j, s) /\ heard[i].ip = a
    OBVIOUS
  <2> DEFINE o == Oldest(holds)
  <2>1. o \in holds /\ a = o.ip
    BY <1>1, <1>5
  <2> HIDE DEF o
  <2>2. o \in history /\ s \in o.from..o.until
    BY <1>2, <2>1
  <2>3. PICK i \in DOMAIN heard, j \in DOMAIN heard : IsRun(heard, o, i, j)
    BY <1>0, <2>2 DEF RowsAreRuns
  <2>4. i <= j /\ heard[i].at = o.from /\ heard[j].at = o.until /\ heard[i].row = o.id /\ heard[j].row = o.id /\ heard[i].ip = a
    BY <2>1, <2>3 DEF IsRun
  <2>5. \A k \in i..j : heard[k].ip = heard[i].ip
    <3> TAKE k \in i..j
    <3>1. k \in DOMAIN heard /\ i <= k /\ k <= j
      <4>1. i \in 1..Len(heard) /\ j \in 1..Len(heard) /\ DOMAIN heard = 1..Len(heard) /\ Len(heard) \in Nat
        BY <1>0
      <4> QED BY <4>1
    <3>2. heard[i].row <= heard[k].row /\ heard[k].row <= heard[j].row
      BY <1>0, <3>1 DEF InOrder
    <3>3. heard[k].row = heard[i].row
      BY <1>0, <2>4, <3>1, <3>2, HeardIs
    <3> QED BY <1>0, <3>1, <3>3 DEF InOrder
  <2>6. Says(i, j, s)
    BY <2>2, <2>4, <2>5 DEF Says
  <2> QED BY <2>4, <2>6
<1>7. ASSUME NEW i \in DOMAIN heard, NEW j \in DOMAIN heard, Says(i, j, s), IsKept(i, j)
      PROVE  a # Nobody
  <2>1. i <= j /\ s \in heard[i].at..heard[j].at
    BY <1>7 DEF Says
  <2>2. \A k : Opens(k) <=> OpensIn(heard, setting.retention, k)
    BY DEF Opens, OpensIn
  <2>3. \A k \in (i + 1)..j : ~OpensIn(heard, setting.retention, k)
    BY <1>7, <2>2 DEF IsKept
  <2>4. heard[i].row = heard[j].row
    BY <1>0, <2>1, <2>3, SameRow
  <2>5. {k \in (j + 1)..Len(heard) : Opens(k)} = Openings(heard, setting.retention, j)
    BY <2>2 DEF Openings
  <2>6. IsSpared(heard, setting.retention, clock, j)
    BY <1>7, <2>5 DEF IsKept, IsSpared
  <2>7. PICK r \in history : r.id = heard[j].row
    BY <1>0, <2>6 DEF Remembers
  <2>8. PICK b \in DOMAIN heard, c \in DOMAIN heard : IsRun(heard, r, b, c)
    BY <1>0, <2>7 DEF RowsAreRuns
  <2>9. b <= i /\ j <= c /\ heard[b].at = r.from /\ heard[c].at = r.until
    BY <2>4, <2>7, <2>8 DEF IsRun
  <2>10. r.from <= heard[i].at /\ heard[j].at <= r.until
    BY <1>0, <2>8, <2>9 DEF InOrder
  <2>11. heard[i].at \in Nat /\ heard[j].at \in Nat
    BY <1>0, HeardIs
  <2>12. s \in r.from..r.until
    <3>1. r.from \in Nat /\ r.until \in Nat
      BY <1>3
    <3>2. heard[i].at <= s /\ s <= heard[j].at
      BY <1>0, <2>1, <2>11
    <3>3. s \in Nat
      BY <1>0
    <3>4. r.from <= s /\ s <= r.until
      BY <2>10, <2>11, <3>1, <3>2, <3>3
    <3> QED BY <3>1, <3>3, <3>4
  <2> QED BY <1>4, <1>5, <2>12
<1> QED BY <1>6, <1>7 DEF a, rows

LEMMA RunsInductive == FiguresSpec => []RunsInv
<1>1. FiguresInit => RunsAreKept
  BY RunsBegin DEF FiguresInit
<1>2. FreshInv /\ RunsAreKept /\ FreshInv' /\ [FiguresNext]_figuresVars => RunsAreKept'
  BY RunsStay DEF FreshInv, RunsInv
<1>3. FreshInv /\ RunsAreKept => RunsInv
  BY DEF FreshInv, RunsInv
<1> QED BY <1>1, <1>2, <1>3, FreshInductive, PTL DEF FiguresSpec

\* Whatever a report attributes to an address was measured between two
\* heartbeats that said it, none between them saying another, and nothing
\* that the cap and the retention spare goes to nobody (record_heartbeat,
\* purge_public_ip_history, public_ip_history and by_public_ip).
THEOREM AttributionIsTrue == FiguresSpec => []AttributedWhereItWas
BY RunsInductive, RunsTellTheAddress, PTL

=============================================================================
