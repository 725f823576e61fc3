-------------------------- MODULE ProbeTasksProofs ---------------------------
(***************************************************************************)
(* What holds in the memory of every probe, whatever the machines, the     *)
(* threads, the events and their number: of the loops that measure, then   *)
(* of the searches and of the scans of ports, which share nothing with     *)
(* them but the program.                                                   *)
(*                                                                         *)
(* A target shown as monitored is measured.  The type invariant is all the *)
(* strengthening it needs: a thread that lowers a flag goes on to spawn a  *)
(* loop, and a loop only ends when it sees its flag raised.  A target that *)
(* is stopped stays off the screen: whoever raises its flag is about to    *)
(* purge it, and a purge that no measure was under way of leaves nobody    *)
(* who could push another sample while the flag is up.                     *)
(*                                                                         *)
(* One search at a time runs as long as nobody cancels; what is shown of a *)
(* machine is what was found on it, and only gets newer.                   *)
(***************************************************************************)
EXTENDS ThreadsHistory, ProbeScans, FiniteSetTheorems, WellFoundedInduction, NaturalsInduction, SequenceTheorems, TLAPS

-----------------------------------------------------------------------------
(* The loops that measure.                                                 *)

Inv == TypeOK /\ RunningMeansMeasured

\* The initial state is well typed and nothing is monitored in it.
LEMMA InitInv == Init => Inv
BY BoundAssumption DEF Init, Inv, TypeOK, RunningMeansMeasured, Monitored, Verdict

\* Every step keeps the types.
LEMMA TypeStep == TypeOK /\ [Next]_vars => TypeOK'
<1> SUFFICES ASSUME TypeOK, [Next]_vars PROVE TypeOK'
  OBVIOUS
<1> USE DEF TypeOK
<1>1. ASSUME NEW h \in Caller, NEW t \in Target, NEW removes \in BOOLEAN,
             CallBegins(h, t, removes)
      PROVE  TypeOK'
  <2>1. h \in Thread
    BY ThreadAssumption
  <2>2. [target |-> t, removes |-> removes, at |-> "note"] \in Call
    BY DEF Call, Step
  <2> QED BY <1>1, <2>1, <2>2 DEF CallBegins, Begins
<1>2. ASSUME NEW h \in Thread, Steps(h) PROVE TypeOK'
  <2>1. CASE Notes(h)
    BY <2>1 DEF Notes, At, GoesTo, Call, Step
  <2>2. CASE Looks(h)
    BY <2>2 DEF Looks, At, GoesTo, Returns, Call, Step
  <2>3. CASE Inserts(h)
    BY <2>3 DEF Inserts, At, GoesTo, Call, Step
  <2>4. CASE Spawns(h)
    <3>1. PICK l \in Loop : loops' = [loops EXCEPT ![l] = [target |-> call[h].target, at |-> "look"]]
      BY <2>4 DEF Spawns
    <3>2. [target |-> call[h].target, at |-> "look"] \in Round
      BY <2>4 DEF Spawns, At, Call, Round
    <3> QED BY <2>4, <3>1, <3>2 DEF Spawns, Returns
  <2>5. CASE Confirms(h)
    BY <2>5 DEF Confirms, At, GoesTo, Returns, Call, Step
  <2>6. CASE Raises(h)
    BY <2>6 DEF Raises, At, GoesTo, Call, Step
  <2>7. CASE Purges(h)
    BY <2>7 DEF Purges, At, Returns
  <2> QED BY <1>2, <2>1, <2>2, <2>3, <2>4, <2>5, <2>6, <2>7 DEF Steps
<1>3. CASE BeatLeaves
  BY <1>3 DEF BeatLeaves
<1>4. ASSUME NEW acks \in SUBSET Target, NEW list \in [Target -> Verdict],
             ReplyArrives(acks, list)
      PROVE  TypeOK'
  BY <1>4 DEF ReplyArrives
<1>5. ASSUME NEW t \in Target, Follows(t) PROVE TypeOK'
  <2>1. todo' \in [Target -> Verdict]
    BY <1>5 DEF Follows, Verdict
  <2>2. call' \in [Thread -> Call \cup {Free}]
    <3>1. CASE gesture[t] # "none"
      BY <1>5, <3>1 DEF Follows
    <3>2. CASE gesture[t] = "none"
      <4>1. \A removes \in BOOLEAN, step \in Step :
              [target |-> t, removes |-> removes, at |-> step] \in Call
        BY DEF Call
      <4> QED BY <1>5, <3>2, <4>1 DEF Follows, Begins, Step, Thread
    <3> QED BY <3>1, <3>2
  <2> QED BY <1>5, <2>1, <2>2 DEF Follows
<1>6. ASSUME NEW l \in Loop, LoopSteps(l) PROVE TypeOK'
  <2>1. CASE LoopLooks(l)
    BY <2>1 DEF LoopLooks, Round
  <2>2. CASE LoopMeasures(l)
    BY <2>2 DEF LoopMeasures, Round
  <2>3. CASE LoopRests(l)
    BY <2>3 DEF LoopRests, Round
  <2> QED BY <1>6, <2>1, <2>2, <2>3 DEF LoopSteps
<1>7. CASE UNCHANGED vars
  BY <1>7 DEF vars
<1> QED BY <1>1, <1>2, <1>3, <1>4, <1>5, <1>6, <1>7 DEF Next

\* Nobody stops measuring a target that stays monitored.
LEMMA MeasuredStep == Inv /\ [Next]_vars => RunningMeansMeasured'
<1> SUFFICES ASSUME Inv, [Next]_vars, NEW t \in Target, Monitored(t)'
             PROVE  Spawning(t)' \/ \E l \in Loop : Live(l, t)'
  BY DEF RunningMeansMeasured
<1> USE DEF Inv, TypeOK
<1>1. Monitored(t) => Spawning(t) \/ \E l \in Loop : Live(l, t)
  BY DEF RunningMeansMeasured
<1>2. ASSUME NEW h \in Thread, Inserts(h), call[h].target = t
      PROVE  Spawning(t)'
  <2>1. call[h] \in Call
    BY <1>2 DEF Inserts, At
  <2>2. call'[h] = [call[h] EXCEPT !.at = "spawn"]
    BY <1>2 DEF Inserts, GoesTo
  <2>3. call'[h] \in Call /\ call'[h].at = "spawn" /\ call'[h].target = t
    BY <1>2, <2>1, <2>2 DEF Call, Step
  <2> QED BY <2>3, FreeAssumption DEF Spawning, At
<1>3. ASSUME NEW h \in Thread, Spawns(h), call[h].target = t
      PROVE  \E l \in Loop : Live(l, t)'
  <2>1. PICK l \in Loop :
          /\ loops[l] = Free
          /\ loops' = [loops EXCEPT ![l] = [target |-> t, at |-> "look"]]
    BY <1>3 DEF Spawns
  <2>2. loops'[l] = [target |-> t, at |-> "look"]
    BY <2>1
  <2>3. [target |-> t, at |-> "look"] \in Round
    BY DEF Round
  <2> QED BY <2>2, <2>3, FreeAssumption DEF Live
<1>4. CASE \E l \in Loop : LoopSteps(l)
  <2>1. PICK l \in Loop : LoopSteps(l)
    BY <1>4
  <2>2. Monitored(t)
    BY <2>1 DEF LoopSteps, LoopLooks, LoopMeasures, LoopRests, Monitored
  <2>3. Spawning(t) => Spawning(t)'
    BY <2>1 DEF LoopSteps, LoopLooks, LoopMeasures, LoopRests, Spawning, At
  <2>4. ASSUME NEW m \in Loop, Live(m, t) PROVE Live(m, t)'
    <3>1. CASE LoopLooks(l)
      BY <2>2, <2>4, <3>1, FreeAssumption DEF LoopLooks, Live, Round, Monitored
    <3>2. CASE LoopMeasures(l)
      BY <2>4, <3>2, FreeAssumption DEF LoopMeasures, Live, Round
    <3>3. CASE LoopRests(l)
      BY <2>4, <3>3, FreeAssumption DEF LoopRests, Live, Round
    <3> QED BY <2>1, <3>1, <3>2, <3>3 DEF LoopSteps
  <2> QED BY <1>1, <2>2, <2>3, <2>4
<1>5. CASE ~ \E l \in Loop : LoopSteps(l)
  <2>1. (\E h \in Thread : Inserts(h) /\ call[h].target = t) \/ Monitored(t)
    BY <1>5 DEF Next, vars, CallBegins, Steps, Notes, Looks, Inserts, Spawns, Confirms,
             Raises, Purges, BeatLeaves, ReplyArrives, Follows, Monitored, At, Call
  <2>2. ASSUME NEW m \in Loop, Live(m, t) PROVE Live(m, t)'
    BY <1>5, <2>2 DEF Next, vars, CallBegins, Steps, Notes, Looks, Inserts, Spawns, Confirms,
             Raises, Purges, BeatLeaves, ReplyArrives, Follows, Live
  <2>3. ASSUME NEW h \in Thread, At(h, "spawn"), call[h].target = t
        PROVE  Spawns(h) \/ Spawning(t)'
    <3>1. call'[h] = call[h] \/ Spawns(h)
      <4>1. h = Hub => call[Hub] # Free
        BY <2>3 DEF At
      <4>2. ASSUME NEW g \in Thread, Steps(g) PROVE call'[h] = call[h] \/ Spawns(h)
        BY <2>3, <4>2 DEF Steps, Notes, Looks, Inserts, Spawns, Confirms, Raises,
                 Purges, At, GoesTo, Returns
      <4>3. ASSUME NEW g \in Caller, NEW u \in Target, NEW r \in BOOLEAN, CallBegins(g, u, r)
            PROVE  call'[h] = call[h]
        BY <2>3, <4>3 DEF CallBegins, Idle, Begins, At
      <4>4. ASSUME NEW u \in Target, Follows(u) PROVE call'[h] = call[h]
        BY <2>3, <4>1, <4>4 DEF Follows, Begins, At
      <4> QED BY <1>5, <4>2, <4>3, <4>4 DEF Next, vars, BeatLeaves, ReplyArrives
    <3> QED BY <2>3, <3>1 DEF Spawning, At
  <2> QED BY <1>1, <1>2, <1>3, <2>1, <2>2, <2>3 DEF Spawning
<1> QED BY <1>4, <1>5

\* In every reachable state a target shown as monitored is measured
\* (start_from_hub, stop_from_hub and the loop).
THEOREM MonitoredIsMeasured == Spec => []RunningMeansMeasured
<1>1. Init => Inv
  BY InitInv
<1>2. Inv /\ [Next]_vars => Inv'
  BY TypeStep, MeasuredStep DEF Inv
<1>3. Inv => RunningMeansMeasured
  BY DEF Inv
<1> QED BY <1>1, <1>2, <1>3, PTL DEF Spec

\* Every variable keeps its type.
THEOREM ThreadsTypeCorrect == Spec => []TypeOK
<1>1. Inv /\ [Next]_vars => Inv'
  BY TypeStep, MeasuredStep DEF Inv
<1>2. Inv => TypeOK
  BY DEF Inv
<1> QED BY InitInv, <1>1, <1>2, PTL DEF Spec

-----------------------------------------------------------------------------
(* Samples.                                                                *)

\* A target that is stopped is about to be purged, or it has no sample and no
\* loop that would push one.
PurgeHolds ==
  \A t \in Target \ tangled :
    flag[t] = "stopped" => Purging(t) \/ (t \notin sampled /\ ~Measuring(t))

SilentInv == TypeOK /\ PurgeHolds

\* A call that awaits its purge goes on to it, and to nothing else.
LEMMA PurgingStays ==
  ASSUME TypeOK, [Next]_vars, NEW t \in Target, NEW h \in Thread,
         At(h, "purge"), call[h].target = t, ~Purges(h)
  PROVE  Purging(t)'
<1>1. call'[h] = call[h]
  <2>1. h = Hub => call[Hub] # Free
    BY DEF At
  <2>2. ASSUME NEW g \in Thread, Steps(g) PROVE call'[h] = call[h]
    BY <2>2 DEF Steps, Notes, Looks, Inserts, Spawns, Confirms, Raises, Purges, At, GoesTo,
             Returns, TypeOK
  <2>3. ASSUME NEW g \in Caller, NEW u \in Target, NEW r \in BOOLEAN, CallBegins(g, u, r)
        PROVE  call'[h] = call[h]
    BY <2>3 DEF CallBegins, Idle, Begins, At, TypeOK
  <2>4. ASSUME NEW u \in Target, Follows(u) PROVE call'[h] = call[h]
    BY <2>1, <2>4 DEF Follows, Begins, At, TypeOK
  <2>5. ASSUME NEW l \in Loop, LoopSteps(l) PROVE call'[h] = call[h]
    BY <2>5 DEF LoopSteps, LoopLooks, LoopMeasures, LoopRests
  <2> QED BY <2>2, <2>3, <2>4, <2>5 DEF Next, vars, BeatLeaves, ReplyArrives
<1> QED BY <1>1 DEF Purging, At

\* Nobody starts to measure a target that is stopped, nor samples it without
\* measuring it.
LEMMA StoppedIsNotMeasured ==
  ASSUME TypeOK, [Next]_vars, NEW t \in Target, flag[t] = "stopped"
  PROVE  /\ t \in sampled' => t \in sampled \/ Measuring(t)
         /\ Measuring(t)' => Measuring(t)
<1>1. CASE \E l \in Loop : LoopSteps(l)
  <2>1. PICK l \in Loop : LoopSteps(l)
    BY <1>1
  <2>2. \A m \in Loop \ {l} : loops'[m] = loops[m]
    BY <2>1 DEF LoopSteps, LoopLooks, LoopMeasures, LoopRests, TypeOK
  <2>3. loops[l] \in Round /\ loops[l] # Free
    BY <2>1 DEF LoopSteps, LoopLooks, LoopMeasures, LoopRests, TypeOK
  <2>4. Live(l, t)' /\ loops'[l].at = "measure" => FALSE
    <3>1. CASE LoopLooks(l)
      BY <2>3, <3>1 DEF LoopLooks, Live, Round, TypeOK, Monitored
    <3>2. CASE LoopMeasures(l)
      BY <2>3, <3>2 DEF LoopMeasures, Live, Round, TypeOK
    <3>3. CASE LoopRests(l)
      BY <2>3, <3>3 DEF LoopRests, Live, Round, TypeOK
    <3> QED BY <2>1, <3>1, <3>2, <3>3 DEF LoopSteps
  <2>5. Measuring(t)' => Measuring(t)
    BY <2>2, <2>4 DEF Measuring, Live
  <2>6. t \in sampled' => t \in sampled \/ Measuring(t)
    BY <2>1, <2>3 DEF LoopSteps, LoopLooks, LoopMeasures, LoopRests, Measuring, Live
  <2> QED BY <2>5, <2>6
<1>2. CASE ~\E l \in Loop : LoopSteps(l)
  <2>1. sampled' \subseteq sampled
    BY <1>2 DEF Next, vars, CallBegins, Steps, Notes, Looks, Inserts, Spawns, Confirms,
             Raises, Purges, BeatLeaves, ReplyArrives, Follows
  <2>2. \/ loops' = loops
        \/ \E l \in Loop, u \in Target : loops' = [loops EXCEPT ![l] = [target |-> u, at |-> "look"]]
    <3>1. ASSUME NEW h \in Thread, Spawns(h)
          PROVE  \E l \in Loop, u \in Target :
                   loops' = [loops EXCEPT ![l] = [target |-> u, at |-> "look"]]
      BY <3>1 DEF Spawns, At, TypeOK, Call
    <3> QED BY <1>2, <3>1 DEF Next, vars, CallBegins, Steps, Notes, Looks, Inserts, Confirms,
               Raises, Purges, BeatLeaves, ReplyArrives, Follows
  <2>3. ASSUME NEW m \in Loop, Live(m, t)', loops'[m].at = "measure" PROVE loops'[m] = loops[m]
    BY <2>2, <2>3 DEF TypeOK
  <2>4. Measuring(t)' => Measuring(t)
    BY <2>3 DEF Measuring, Live
  <2> QED BY <2>1, <2>4
<1> QED BY <1>1, <1>2

\* Who stops a target is about to purge it.
LEMMA StopperPurges ==
  ASSUME TypeOK, [Next]_vars, NEW t \in Target, flag[t] # "stopped", flag'[t] = "stopped"
  PROVE  Purging(t)'
<1>1. PICK h \in Thread : Raises(h)
  BY DEF Next, vars, CallBegins, Steps, Notes, Looks, Inserts, Spawns, Confirms, Purges,
     BeatLeaves, ReplyArrives, Follows, LoopSteps, LoopLooks, LoopMeasures, LoopRests, TypeOK
<1>2. call[h].target = t /\ call[h] \in Call
  BY <1>1 DEF Raises, At, TypeOK
<1>3. call'[h] = [call[h] EXCEPT !.at = "purge"]
  BY <1>1 DEF Raises, GoesTo, TypeOK
<1>4. call'[h] \in Call /\ call'[h].at = "purge" /\ call'[h].target = t
  BY <1>2, <1>3 DEF Call, Step
<1> QED BY <1>4, FreeAssumption DEF Purging, At

\* Every step, with what is observed of it, keeps the invariant.
LEMMA SilentStep == ASSUME SilentInv, [TNext]_<<vars, tangled>> PROVE SilentInv'
<1>1. TypeOK /\ [Next]_vars /\ (Watches \/ (tangled' = tangled /\ UNCHANGED vars))
  BY DEF SilentInv, TNext
<1>2. TypeOK'
  BY <1>1, TypeStep
<1>3. ASSUME NEW t \in Target \ tangled', flag'[t] = "stopped"
      PROVE  Purging(t)' \/ (t \notin sampled' /\ ~Measuring(t)')
  <2>1. CASE \E h \in Thread : At(h, "purge") /\ call[h].target = t /\ Purges(h)
    <3>1. PICK h \in Thread : At(h, "purge") /\ call[h].target = t /\ Purges(h)
      BY <2>1
    <3>2. call'[h] = Free /\ t \notin sampled' /\ loops' = loops /\ call[h] # Free
      BY <3>1 DEF Purges, Returns, TypeOK, SilentInv, At
    <3>3. Watches /\ Purged(t)
      BY <1>1, <3>1, <3>2 DEF Purged, vars
    <3>4. ~Measuring(t)
      BY <1>3, <3>3 DEF Watches
    <3> QED BY <3>2, <3>4 DEF Measuring, Live
  <2>2. CASE ~\E h \in Thread : At(h, "purge") /\ call[h].target = t /\ Purges(h)
    <3>1. CASE Purging(t)
      BY <1>1, <1>3, <2>2, <3>1, PurgingStays DEF Purging
    <3>2. CASE ~Purging(t) /\ flag[t] = "stopped"
      <4>1. ~Purged(t)
        BY <3>2 DEF Purged, Purging
      <4>2. t \notin tangled
        BY <1>1, <1>3, <4>1 DEF Watches
      <4>3. t \notin sampled /\ ~Measuring(t)
        BY <1>3, <3>2, <4>2 DEF SilentInv, PurgeHolds
      <4> QED BY <1>1, <1>3, <3>2, <4>3, StoppedIsNotMeasured
    <3>3. CASE flag[t] # "stopped"
      BY <1>1, <1>3, <3>3, StopperPurges
    <3> QED BY <3>1, <3>2, <3>3
  <2> QED BY <2>1, <2>2
<1> QED BY <1>2, <1>3 DEF SilentInv, PurgeHolds

\* A target that is stopped, all its calls and loops ended, has no sample left
\* that would bring it back on screen, unless its last purge came under a
\* measure (stop_from_hub, and the loop).
THEOREM PurgedForGood == TSpec => []PurgedStaysPurged
<1>1. ASSUME TInit PROVE SilentInv
  <2>1. TypeOK
    BY <1>1, InitInv DEF TInit, Inv
  <2> QED BY <1>1, <2>1 DEF TInit, Init, SilentInv, PurgeHolds
<1>2. SilentInv /\ [TNext]_<<vars, tangled>> => SilentInv'
  BY SilentStep
<1>3. ASSUME SilentInv PROVE PurgedStaysPurged
  BY <1>3 DEF SilentInv, PurgeHolds, PurgedStaysPurged, Purging, Resting, At
<1> QED BY <1>1, <1>2, <1>3, PTL DEF TSpec

-----------------------------------------------------------------------------
(* The searches and the scans of ports: the inductive invariants.          *)

SearchType ==
  /\ guard \in {"idle", "busy"} /\ hosts \in SUBSET Host
  /\ search \in [Slot -> SearchRow \cup {None}]
  /\ cancelled \in BOOLEAN /\ abandoned \in BOOLEAN

\* As long as nobody cancels, the flag lets one search in.
OneSearch ==
  /\ guard = "idle" => Running = {}
  /\ \A s, t \in Running : s = t

\* The store holds what the search saw, from the moment it cleared it.
StoreIsItsOwn ==
  \A s \in Running :
    /\ search[s].at = "arp" => hosts = {}
    /\ search[s].at \notin {"choose", "arp", "leave"} => hosts = search[s].saw

SearchInv ==
  /\ SearchType
  /\ ~cancelled => OneSearch /\ StoreIsItsOwn
  /\ guard = "busy" => Running # {} \/ abandoned

Hosts == UNION {[D -> Entry] : D \in SUBSET Machine}

ScanRow ==
  [by : {"window", "planned", "hub"}, of : Machine, todo : Seq({"tcp", "udp"}),
   read : Nat, hosts : Hosts \cup {None}]

PortsType ==
  /\ shell \in {"desktop", "headless"} /\ now \in Nat \ {0} /\ acts \in [Part -> Nat]
  /\ entries \in [Machine -> Entry \cup {None}]
  /\ scan \in [Slot -> ScanRow \cup {None}]
  /\ net \in SUBSET [started : Nat, hosts : Hosts]
  /\ records \in SUBSET [id : ScanId, started : Nat, hosts : Hosts]
  /\ found \in [Machine -> SUBSET Entry]
  /\ blank \in SUBSET Machine /\ slow \in BOOLEAN

\* What was read of the store: the second, and the machines.
Reading == {s \in Slot : scan[s] # None /\ scan[s].hosts # None}
Published ==
  {<<r.started, r.hosts>> : r \in net \cup records}
    \cup {<<scan[s].read, scan[s].hosts>> : s \in Reading}

\* Nothing is dated after now, nor before what the probe knows since.
InThePast ==
  /\ \A m \in Machine : entries[m] # None => entries[m].at <= now
  /\ \A p \in Published :
       /\ p[1] <= now
       /\ \A m \in DOMAIN p[2] :
            /\ p[2][m].at <= now
            /\ entries[m] # None /\ entries[m].at # 0 => p[2][m].at <= entries[m].at

\* The probe held what it knows, but for a scan under way, and what it read.
WasFound ==
  /\ \A m \in Machine : entries[m] # None /\ entries[m].at # 0 => entries[m] \in found[m]
  /\ \A p \in Published : \A m \in DOMAIN p[2] \ blank : p[2][m] \in found[m]

\* A later reading knows of each machine a later scan, or the same.
LaterKnowsMore ==
  ~slow => \A p, q \in Published : p[1] < q[1] =>
    \A m \in (DOMAIN p[2] \cap DOMAIN q[2]) \ blank : p[2][m].at <= q[2][m].at

\* The rows of the hub.
RowsApart ==
  /\ IsFiniteSet(records)
  /\ \A r, k \in records : r.id = k.id => r = k

PortsInv == PortsType /\ InThePast /\ WasFound /\ LaterKnowsMore /\ RowsApart

ScansInv == SearchInv /\ PortsInv

-----------------------------------------------------------------------------
(* The searches.                                                           *)

\* A search that begins, moves or ends leaves the others where they are.
LEMMA RowChanges ==
  ASSUME SearchType, NEW s \in Slot, NEW row \in SearchRow \cup {None},
         search' = [search EXCEPT ![s] = row]
  PROVE  /\ search' \in [Slot -> SearchRow \cup {None}]
         /\ search'[s] = row /\ \A t \in Slot \ {s} : search'[t] = search[t]
         /\ Running' = IF row = None THEN Running \ {s} ELSE Running \cup {s}
BY DEF SearchType, Running

\* A search begins: the flag was free, and is taken.
LEMMA BeginningKeeps ==
  ASSUME SearchInv, NEW s \in Slot, NEW by \in {"window", "planned", "hub"},
         BeginsInWindow(s) \/ (BeginsSearch(s, by) /\ by # "window")
  PROVE  SearchInv'
<1> DEFINE row == IF BeginsInWindow(s) THEN Begun("window", "arp") ELSE Begun(by, "choose")
<1>1. /\ guard = "idle" /\ guard' = "busy" /\ search[s] = None
      /\ search' = [search EXCEPT ![s] = row]
      /\ hosts' = IF BeginsInWindow(s) THEN {} ELSE hosts
      /\ cancelled' = cancelled /\ abandoned' = abandoned
  BY DEF BeginsInWindow, BeginsSearch, Taken, Cleared
<1>2. row \in SearchRow /\ row.at = (IF BeginsInWindow(s) THEN "arp" ELSE "choose")
  BY DEF Begun, SearchRow, Stage
<1> HIDE DEF row
<1>3. row # None
  BY <1>2, DiscoveryAssumption
<1>4. /\ search' \in [Slot -> SearchRow \cup {None}]
      /\ search'[s] = row /\ \A t \in Slot \ {s} : search'[t] = search[t]
      /\ Running' = Running \cup {s}
  BY <1>1, <1>2, <1>3, RowChanges DEF SearchInv
<1>5. SearchType'
  BY <1>1, <1>4 DEF SearchInv, SearchType
<1>6. ASSUME ~cancelled PROVE OneSearch' /\ StoreIsItsOwn'
  <2>1. Running' = {s}
    BY <1>1, <1>4, <1>6 DEF SearchInv, OneSearch
  <2>2. OneSearch'
    BY <1>1, <2>1 DEF OneSearch
  <2>3. StoreIsItsOwn'
    BY <1>1, <1>2, <1>4, <2>1 DEF StoreIsItsOwn
  <2> QED BY <2>2, <2>3
<1>7. s \in Running'
  BY <1>4
<1> QED BY <1>1, <1>5, <1>6, <1>7 DEF SearchInv

\* A search goes on: the flag stays, and the store is what it saw.
LEMMA GoingOnKeeps ==
  ASSUME SearchInv, NEW s \in Slot, search[s] # None, NEW row \in SearchRow,
         search' = [search EXCEPT ![s] = row], guard' = guard, hosts' \in SUBSET Host,
         cancelled' = cancelled, abandoned' = abandoned,
         ~cancelled => /\ row.at = "arp" => hosts' = {}
                       /\ row.at \notin {"choose", "arp", "leave"} => hosts' = row.saw
  PROVE  SearchInv'
<1>1. row # None
  BY DiscoveryAssumption
<1>2. /\ search' \in [Slot -> SearchRow \cup {None}]
      /\ search'[s] = row /\ \A t \in Slot \ {s} : search'[t] = search[t]
      /\ Running' = Running
  BY <1>1, RowChanges DEF SearchInv, Running
<1>3. SearchType'
  BY <1>2 DEF SearchInv, SearchType
<1>4. ASSUME ~cancelled PROVE OneSearch' /\ StoreIsItsOwn'
  <2>1. OneSearch'
    BY <1>2, <1>4 DEF SearchInv, OneSearch
  <2>2. \A t \in Running' : t = s
    BY <1>2, <1>4 DEF SearchInv, OneSearch, Running
  <2>3. StoreIsItsOwn'
    BY <1>2, <1>4, <2>2 DEF StoreIsItsOwn
  <2> QED BY <2>1, <2>3
<1> QED BY <1>2, <1>3, <1>4 DEF SearchInv

\* A search ends: the flag is given back, or it was; one that gives up for
\* want of an address leaves it.
LEMMA EndingKeeps ==
  ASSUME SearchInv, NEW s \in Slot, search[s] # None,
         search' = [search EXCEPT ![s] = None], hosts' = hosts, cancelled' = cancelled,
         \/ guard' = "idle" /\ abandoned' = abandoned
         \/ guard' = guard /\ abandoned' = TRUE
  PROVE  SearchInv'
<1>1. /\ search' \in [Slot -> SearchRow \cup {None}]
      /\ \A t \in Slot \ {s} : search'[t] = search[t]
      /\ Running' = Running \ {s}
  BY RowChanges DEF SearchInv
<1>2. SearchType'
  BY <1>1 DEF SearchInv, SearchType
<1>3. ASSUME ~cancelled PROVE Running' = {}
  BY <1>1, <1>3 DEF SearchInv, OneSearch, Running
<1>4. ~cancelled' => OneSearch' /\ StoreIsItsOwn'
  BY <1>3 DEF OneSearch, StoreIsItsOwn
<1> QED BY <1>2, <1>4 DEF SearchInv

\* A search told to stop.
LEMMA StoppedKeeps ==
  ASSUME SearchInv, NEW s \in Slot, search[s] # None, guard = "idle",
         search' = Stopped(s), UNCHANGED <<guard, hosts, cancelled, abandoned>>
  PROVE  SearchInv'
<1>1. search[s] \in SearchRow
  BY DEF SearchInv, SearchType
<1>2. CASE search[s].by = "window"
  <2>1. search' = [search EXCEPT ![s] = None]
    BY <1>2 DEF Stopped
  <2> QED BY <2>1, EndingKeeps
<1>3. CASE search[s].by # "window"
  <2> DEFINE row == [search[s] EXCEPT !.at = "leave"]
  <2>1. search' = [search EXCEPT ![s] = row]
    BY <1>3 DEF Stopped
  <2>2. row \in SearchRow /\ row.at = "leave"
    BY <1>1 DEF SearchRow, Stage
  <2>3. hosts' \in SUBSET Host
    BY DEF SearchInv, SearchType
  <2> HIDE DEF row
  <2> QED BY <2>1, <2>2, <2>3, GoingOnKeeps
<1> QED BY <1>2, <1>3

LEMMA DiscoveryKeeps ==
  ASSUME SearchInv, DiscoveryStep
  PROVE  SearchInv'
<1> USE DEF SearchInv, SearchType
<1>1. CASE Cancels
  <2>1. search' = search /\ Running' = Running /\ hosts' = hosts /\ guard' = "idle"
        /\ abandoned' = abandoned
    BY <1>1 DEF Cancels, Running
  <2>2. cancelled' \in BOOLEAN /\ (~cancelled' => ~cancelled /\ Running = {})
    BY <1>1 DEF Cancels
  <2>3. ~cancelled' => OneSearch' /\ StoreIsItsOwn'
    BY <2>1, <2>2 DEF OneSearch, StoreIsItsOwn
  <2> QED BY <2>1, <2>2, <2>3
<1>2. ASSUME NEW s \in Slot, NEW by \in {"planned", "hub"}, BeginsInWindow(s) \/ BeginsSearch(s, by)
      PROVE  SearchInv'
  <2>1. by # "window" /\ by \in {"window", "planned", "hub"}
    OBVIOUS
  <2> QED BY <1>2, <2>1, BeginningKeeps
<1>3. ASSUME NEW s \in Slot,
             \/ Chooses(s) \/ GivesUp(s) \/ ReadsNeighbours(s) \/ EndsSweep(s)
             \/ Decides(s) \/ ReadsAgain(s) \/ Publishes(s) \/ Leaves(s)
             \/ \E h \in Host : Asks(s, h) \/ Answers(s, h)
      PROVE  SearchInv'
  <2>0. search[s] # None /\ search[s] \in SearchRow /\ cancelled' = cancelled
    BY <1>3 DEF Chooses, GivesUp, ReadsNeighbours, EndsSweep, Decides, ReadsAgain, Publishes,
       Leaves, Asks, Answers
  <2>a. ~cancelled /\ search[s].at \notin {"choose", "arp", "leave"} => hosts = search[s].saw
    BY <2>0 DEF StoreIsItsOwn, Running
  <2>b. ~cancelled /\ search[s].at = "arp" => hosts = {}
    BY <2>0 DEF StoreIsItsOwn, Running
  <2>1. CASE Chooses(s)
    <3> DEFINE row == [search[s] EXCEPT !.at = "arp"]
    <3>1. search' = [search EXCEPT ![s] = row] /\ hosts' = {} /\ guard' = guard
          /\ abandoned' = abandoned
      BY <2>1 DEF Chooses, Cleared
    <3>2. row \in SearchRow /\ row.at = "arp"
      BY <2>0 DEF SearchRow, Stage
    <3> HIDE DEF row
    <3> QED BY <2>0, <3>1, <3>2, GoingOnKeeps
  <2>2. CASE GivesUp(s)
    BY <2>0, <2>2, EndingKeeps DEF GivesUp
  <2>3. CASE ReadsNeighbours(s) /\ guard = "idle"
    BY <2>0, <2>3, StoppedKeeps DEF ReadsNeighbours
  <2>4. CASE ReadsNeighbours(s) /\ guard # "idle"
    <3>1. PICK known \in SUBSET Host :
            /\ hosts' = hosts \cup known
            /\ search' = [search EXCEPT ![s].at = "sweep", ![s].first = known, ![s].saw = known]
      BY <2>4 DEF ReadsNeighbours
    <3> DEFINE row == [search[s] EXCEPT !.at = "sweep", !.first = known, !.saw = known]
    <3>2. search' = [search EXCEPT ![s] = row] /\ guard' = guard /\ abandoned' = abandoned
          /\ search[s].at = "arp"
      BY <2>4, <3>1 DEF ReadsNeighbours
    <3>3. row \in SearchRow /\ row.at = "sweep" /\ row.saw = known
      BY <2>0 DEF SearchRow, Stage
    <3> HIDE DEF row
    <3>4. ~cancelled => hosts' = known
      BY <2>b, <3>1, <3>2
    <3> QED BY <2>0, <3>1, <3>2, <3>3, <3>4, GoingOnKeeps
  <2>5. CASE EndsSweep(s)
    <3> DEFINE row == [search[s] EXCEPT !.at = "swept"]
    <3>1. search' = [search EXCEPT ![s] = row] /\ hosts' = hosts /\ guard' = guard
          /\ abandoned' = abandoned /\ search[s].at = "sweep"
      BY <2>5 DEF EndsSweep
    <3>2. row \in SearchRow /\ row.at = "swept" /\ row.saw = search[s].saw
      BY <2>0 DEF SearchRow, Stage
    <3> HIDE DEF row
    <3> QED BY <2>0, <2>a, <3>1, <3>2, GoingOnKeeps
  <2>6. CASE Decides(s) /\ guard = "idle"
    BY <2>0, <2>6, StoppedKeeps DEF Decides
  <2>7. CASE Decides(s) /\ guard # "idle"
    <3> DEFINE row == [search[s] EXCEPT !.at = "last"]
    <3>1. search' = [search EXCEPT ![s] = row] /\ hosts' = hosts /\ guard' = guard
          /\ abandoned' = abandoned /\ search[s].at = "swept"
      BY <2>7 DEF Decides
    <3>2. row \in SearchRow /\ row.at = "last" /\ row.saw = search[s].saw
      BY <2>0 DEF SearchRow, Stage
    <3> HIDE DEF row
    <3> QED BY <2>0, <2>a, <3>1, <3>2, GoingOnKeeps
  <2>8. CASE ReadsAgain(s)
    <3>1. PICK new \in SUBSET (Host \ search[s].first) :
            /\ hosts' = hosts \cup new
            /\ search' = [search EXCEPT ![s].at = "publish", ![s].saw = @ \cup new]
      BY <2>8 DEF ReadsAgain, WithAddress
    <3> DEFINE row == [search[s] EXCEPT !.at = "publish", !.saw = search[s].saw \cup new]
    <3>2. search' = [search EXCEPT ![s] = row] /\ guard' = guard /\ abandoned' = abandoned
          /\ search[s].at = "last"
      BY <2>8, <3>1 DEF ReadsAgain
    <3>3. search[s].saw \cup new \in SUBSET Host
      BY <2>0 DEF SearchRow
    <3>4. row \in SearchRow /\ row.at = "publish" /\ row.saw = search[s].saw \cup new
      BY <2>0, <3>3 DEF SearchRow, Stage
    <3> HIDE DEF row
    <3>5. ~cancelled => hosts' = row.saw
      BY <2>a, <3>1, <3>2, <3>4
    <3>6. hosts' \in SUBSET Host
      BY <3>1
    <3> QED BY <2>0, <3>2, <3>4, <3>5, <3>6, GoingOnKeeps
  <2>9. CASE Publishes(s)
    <3> DEFINE row == [search[s] EXCEPT !.at = "leave"]
    <3>1. search' = [search EXCEPT ![s] = row] /\ hosts' = hosts /\ guard' = guard
          /\ abandoned' = abandoned
      BY <2>9 DEF Publishes
    <3>2. row \in SearchRow /\ row.at = "leave"
      BY <2>0 DEF SearchRow, Stage
    <3> HIDE DEF row
    <3> QED BY <2>0, <3>1, <3>2, GoingOnKeeps
  <2>10. CASE Leaves(s)
    BY <2>0, <2>10, EndingKeeps DEF Leaves, GivenBack
  <2>11. ASSUME NEW h \in Host, Asks(s, h)
         PROVE  SearchInv'
    <3> DEFINE left == search[s].left \ {h}
               row == [search[s] EXCEPT !.at = h, !.left = left]
    <3>1. search' = [search EXCEPT ![s] = row] /\ hosts' = hosts /\ guard' = guard
          /\ abandoned' = abandoned /\ search[s].at = "sweep"
      BY <2>11 DEF Asks
    <3>2. h \in Stage \cup Host /\ left \in SUBSET Host /\ h \notin Stage
      BY <2>0, DiscoveryAssumption DEF SearchRow
    <3>3. row \in SearchRow /\ row.at = h /\ row.saw = search[s].saw
      BY <2>0, <3>2 DEF SearchRow
    <3> HIDE DEF row
    <3>4. row.at # "arp"
      BY <3>2, <3>3 DEF Stage
    <3> QED BY <2>0, <2>a, <3>1, <3>3, <3>4, GoingOnKeeps
  <2>12. ASSUME NEW h \in Host, Answers(s, h)
         PROVE  SearchInv'
    <3>1. PICK new \in SUBSET ({h} \ search[s].first) :
            /\ hosts' = hosts \cup new
            /\ search' = [search EXCEPT ![s].at = "sweep", ![s].saw = @ \cup new]
      BY <2>12 DEF Answers
    <3> DEFINE row == [search[s] EXCEPT !.at = "sweep", !.saw = search[s].saw \cup new]
    <3>2. search' = [search EXCEPT ![s] = row] /\ guard' = guard /\ abandoned' = abandoned
          /\ search[s].at = h
      BY <2>12, <3>1 DEF Answers
    <3>3. search[s].saw \cup new \in SUBSET Host /\ h \notin Stage
      BY <2>0, DiscoveryAssumption DEF SearchRow
    <3>4. row \in SearchRow /\ row.at = "sweep" /\ row.saw = search[s].saw \cup new
      BY <2>0, <3>3 DEF SearchRow, Stage
    <3> HIDE DEF row
    <3>5. ~cancelled => hosts = search[s].saw
      BY <2>a, <3>2, <3>3 DEF Stage
    <3>6. ~cancelled => hosts' = row.saw
      BY <3>1, <3>4, <3>5
    <3>7. hosts' \in SUBSET Host
      BY <3>1
    <3> QED BY <2>0, <3>2, <3>4, <3>6, <3>7, GoingOnKeeps
  <2> HIDE DEF SearchInv, SearchType
  <2> QED BY <1>3, <2>1, <2>2, <2>3, <2>4, <2>5, <2>6, <2>7, <2>8, <2>9, <2>10, <2>11, <2>12
<1> HIDE DEF SearchInv, SearchType
<1>4. {"planned", "hub"} # {}
  OBVIOUS
<1> QED BY <1>1, <1>2, <1>3, <1>4 DEF DiscoveryStep

-----------------------------------------------------------------------------
(* The publication that wins.                                              *)

\* A set of numbers that is not empty has a least one.
LEMMA LeastNumber ==
  ASSUME NEW S \in SUBSET Nat, S # {}
  PROVE  \E n \in S : \A m \in S : n <= m
<1>1. PICK n \in S : \A m \in S : ~(<<m, n>> \in OpToRel(<, Nat))
  BY NatLessThanWellFounded, WFMin
<1>2. \A m \in S : ~(m < n)
  BY <1>1 DEF OpToRel
<1> QED BY <1>2

\* What a row says of a machine it speaks of.
LEMMA RowSays ==
  ASSUME PortsType, NEW m \in Machine, NEW r \in Speaking(m)
  PROVE  /\ r \in records /\ r.started \in Nat /\ r.id \in Nat /\ r.hosts \in Hosts
         /\ m \in DOMAIN r.hosts /\ r.hosts[m] \in Entry /\ r.hosts[m].at \in Nat
<1>1. r \in [id : ScanId, started : Nat, hosts : Hosts] /\ m \in DOMAIN r.hosts /\ r \in records
  BY DEF PortsType, Speaking
<1>2. r.started \in Nat /\ r.id \in Nat /\ r.hosts \in Hosts
  BY <1>1, PortInventoryAssumption
<1>3. r.hosts[m] \in Entry
  BY <1>1, <1>2 DEF Hosts
<1> QED BY <1>1, <1>2, <1>3 DEF Entry

\* Rows that speak of a machine, each with an identifier of its own.
Rows(S, m) ==
  /\ IsFiniteSet(S) /\ \A a, b \in S : a.id = b.id => a = b
  /\ \A a \in S : a.started \in Nat /\ a.id \in Nat /\ a.hosts[m].at \in Nat

First(S, m) == CHOOSE r \in S : \A k \in S \ {r} : Precedes(r, k, m)

\* The order of the publications is strict and total: finitely many that speak
\* of a machine have a first one.
LEMMA FirstExists ==
  ASSUME NEW m, NEW S, Rows(S, m), S # {}
  PROVE  First(S, m) \in S /\ \A k \in S \ {First(S, m)} : Precedes(First(S, m), k, m)
<1> DEFINE Above(x) == {y \in S : Precedes(y, x, m)}
           T == {Cardinality(Above(x)) : x \in S}
<1>1. /\ \A a \in S : ~Precedes(a, a, m)
      /\ \A a, b, c \in S : Precedes(a, b, m) /\ Precedes(b, c, m) => Precedes(a, c, m)
      /\ \A a, b \in S : a # b => Precedes(a, b, m) \/ Precedes(b, a, m)
  BY DEF Precedes, Rows
<1>2. \A x \in S : IsFiniteSet(Above(x)) /\ Cardinality(Above(x)) \in Nat
  BY FS_Subset, FS_CardinalityType DEF Rows
<1>3. T \in SUBSET Nat /\ T # {}
  BY <1>2
<1>4. PICK x \in S : \A y \in S : Cardinality(Above(x)) <= Cardinality(Above(y))
  <2> HIDE DEF Above
  <2>1. PICK n \in T : \A k \in T : n <= k
    <3> HIDE DEF T
    <3> QED BY <1>3, LeastNumber
  <2> QED BY <2>1
<1>5. \A y \in S : ~Precedes(y, x, m)
  <2> SUFFICES ASSUME NEW y \in S, Precedes(y, x, m) PROVE FALSE
    OBVIOUS
  <2>1. Above(y) \in SUBSET Above(x) /\ y \in Above(x) /\ y \notin Above(y)
    BY <1>1
  <2> HIDE DEF Above
  <2>2. Cardinality(Above(y)) <= Cardinality(Above(x)) /\ Cardinality(Above(y)) # Cardinality(Above(x))
    BY <1>2, <2>1, FS_Subset
  <2> QED BY <1>2, <1>4, <2>2
<1>6. \A k \in S \ {x} : Precedes(x, k, m)
  BY <1>1, <1>5
<1> HIDE DEF Above, T
<1>7. \E r \in S : \A k \in S \ {r} : Precedes(r, k, m)
  BY <1>6
<1> QED BY <1>7, Zenon DEF First

\* A row that comes before a first one was not there.
LEMMA FirstIsOne ==
  ASSUME NEW m, NEW S, Rows(S, m), NEW r \in S, NEW k \in S,
         Precedes(r, k, m), Precedes(k, r, m)
  PROVE  FALSE
BY DEF Rows, Precedes

LEMMA SpeakingRows ==
  ASSUME PortsType, RowsApart, NEW m \in Machine
  PROVE  Rows(Speaking(m), m)
<1>1. \A r \in Speaking(m) : r.started \in Nat /\ r.id \in Nat /\ r.hosts[m].at \in Nat
  BY RowSays
<1>2. IsFiniteSet(Speaking(m))
  BY FS_Subset DEF RowsApart, Speaking
<1> QED BY <1>1, <1>2 DEF Rows, RowsApart, Speaking

\* What the hub shows is what the first publication says.
LEMMA ShownIsSaid ==
  ASSUME PortsType, RowsApart, NEW m \in Machine
  PROVE  /\ Shown(m) = None <=> Speaking(m) = {}
         /\ Speaking(m) # {} => /\ Winner(m) \in Speaking(m)
                                /\ Shown(m) = Winner(m).hosts[m] /\ Shown(m) \in Entry
<1>1. CASE Speaking(m) = {}
  BY <1>1 DEF Shown
<1>2. CASE Speaking(m) # {}
  <2>1. Winner(m) \in Speaking(m)
    BY <1>2, SpeakingRows, FirstExists DEF Winner, First
  <2>1a. Winner(m).hosts[m] \in Entry
    BY <2>1, RowSays
  <2>2. [Winner(m).hosts[m] EXCEPT !.open = Winner(m).hosts[m].open] = Winner(m).hosts[m]
    BY <2>1a DEF Entry
  <2> QED BY <1>2, <2>1, <2>1a, <2>2, PortInventoryAssumption DEF Shown, PortsOf
<1> QED BY <1>1, <1>2

-----------------------------------------------------------------------------
(* The scans of ports.                                                     *)

LEMMA PublishedType ==
  ASSUME PortsType, NEW p \in Published
  PROVE  /\ p[1] \in Nat /\ p[2] \in Hosts
         /\ \A m \in DOMAIN p[2] : m \in Machine /\ p[2][m] \in Entry /\ p[2][m].at \in Nat
<1>1. p[1] \in Nat /\ p[2] \in Hosts
  <2>1. ASSUME NEW r \in net \cup records, p = <<r.started, r.hosts>>
        PROVE  p[1] \in Nat /\ p[2] \in Hosts
    <3>1. r \in [started : Nat, hosts : Hosts] \/ r \in [id : ScanId, started : Nat, hosts : Hosts]
      BY DEF PortsType
    <3> QED BY <2>1, <3>1
  <2>2. ASSUME NEW s \in Reading, p = <<scan[s].read, scan[s].hosts>>
        PROVE  p[1] \in Nat /\ p[2] \in Hosts
    <3>1. scan[s] \in ScanRow /\ scan[s].hosts # None
      BY DEF PortsType, Reading
    <3> QED BY <2>2, <3>1 DEF ScanRow
  <2> QED BY <2>1, <2>2 DEF Published
<1>2. PICK D \in SUBSET Machine : p[2] \in [D -> Entry]
  BY <1>1 DEF Hosts
<1> QED BY <1>1, <1>2 DEF Entry

\* Nothing new is published, or later than it was read, and nothing is known
\* anew.
LEMMA NothingNew ==
  ASSUME PortsInv, PortsType', now' >= now,
         \A m \in Machine : entries'[m] # None =>
           \/ entries'[m].at = 0
           \/ entries'[m] = entries[m],
         \A p \in Published' :
           /\ p[1] <= now'
           /\ \E q \in Published : p[2] = q[2] /\ (~slow' => p[1] = q[1]),
         blank \subseteq blank', \A m \in Machine : found[m] \subseteq found'[m], slow => slow'
  PROVE  InThePast' /\ WasFound' /\ LaterKnowsMore'
<1> USE DEF PortsInv
<1>0. now \in Nat /\ now' \in Nat /\ \A m \in Machine : entries[m] # None => entries[m].at \in Nat
  BY DEF PortsType, Entry
<1>1. \A p \in Published : \A m \in DOMAIN p[2] : m \in Machine /\ p[2][m].at \in Nat
  BY PublishedType
<1>2. InThePast'
  <2>1. \A m \in Machine : entries'[m] # None => entries'[m].at <= now'
    BY <1>0 DEF InThePast
  <2>2. ASSUME NEW p \in Published'
        PROVE  /\ p[1] <= now'
               /\ \A m \in DOMAIN p[2] :
                    /\ p[2][m].at <= now'
                    /\ entries'[m] # None /\ entries'[m].at # 0 => p[2][m].at <= entries'[m].at
    <3>1. p[1] <= now'
      OBVIOUS
    <3>2. PICK q \in Published : p[2] = q[2]
      OBVIOUS
    <3>3. \A m \in DOMAIN q[2] :
            /\ q[2][m].at <= now
            /\ entries[m] # None /\ entries[m].at # 0 => q[2][m].at <= entries[m].at
      BY DEF InThePast
    <3>4. \A m \in DOMAIN q[2] : q[2][m].at <= now'
      BY <1>0, <1>1, <3>3
    <3> QED BY <1>1, <3>1, <3>2, <3>3, <3>4
  <2> QED BY <2>1, <2>2 DEF InThePast
<1>3. WasFound'
  <2>1. \A m \in Machine : entries'[m] # None /\ entries'[m].at # 0 => entries'[m] \in found'[m]
    BY DEF WasFound
  <2>2. ASSUME NEW p \in Published', NEW m \in DOMAIN p[2] \ blank'
        PROVE  p[2][m] \in found'[m]
    <3>1. PICK q \in Published : p[2] = q[2]
      OBVIOUS
    <3>2. q[2][m] \in found[m] /\ m \in Machine
      BY <1>1, <3>1 DEF WasFound
    <3> QED BY <3>1, <3>2
  <2> QED BY <2>1, <2>2 DEF WasFound
<1>4. LaterKnowsMore'
  <2> SUFFICES ASSUME ~slow', NEW p \in Published', NEW q \in Published', p[1] < q[1],
                      NEW m \in (DOMAIN p[2] \cap DOMAIN q[2]) \ blank'
               PROVE  p[2][m].at <= q[2][m].at
    BY DEF LaterKnowsMore
  <2>1. PICK a \in Published : p[2] = a[2] /\ p[1] = a[1]
    OBVIOUS
  <2>2. PICK b \in Published : q[2] = b[2] /\ q[1] = b[1]
    OBVIOUS
  <2>3. a[1] < b[1] /\ ~slow /\ m \in (DOMAIN a[2] \cap DOMAIN b[2]) \ blank
    BY <2>1, <2>2
  <2>4. a[2][m].at <= b[2][m].at
    BY <2>3 DEF LaterKnowsMore
  <2> QED BY <2>1, <2>2, <2>4
<1> QED BY <1>2, <1>3, <1>4

\* An event leaves the clock as it is, or moves it.
LEMMA EventsKeep ==
  ASSUME PortsType, NEW part \in Part, Happens(part)
  PROVE  /\ now' \in Nat \ {0} /\ now' >= now /\ acts' \in [Part -> Nat]
         /\ acts'[part] < acts[part] /\ (part # "time" => now' = now)
         /\ shell' = shell
BY DEF PortsType, Happens

\* What is read of the store and not yet sent changes with one scan.
LEMMA ReadingOne ==
  ASSUME PortsType, NEW s \in Slot, NEW row \in ScanRow \cup {None},
         scan' = [scan EXCEPT ![s] = row], UNCHANGED <<net, records>>,
         \/ row = None
         \/ row.hosts = None
         \/ scan[s] # None /\ scan[s].hosts # None
            /\ row.hosts = scan[s].hosts /\ row.read = scan[s].read
  PROVE  Published' \subseteq Published
<1>1. \A t \in Slot \ {s} : scan'[t] = scan[t]
  BY DEF PortsType
<1>2. scan'[s] = row
  BY DEF PortsType
<1>3. \A t \in Reading' : t \in Reading /\ scan'[t].read = scan[t].read /\ scan'[t].hosts = scan[t].hosts
  BY <1>1, <1>2 DEF Reading
<1> QED BY <1>3 DEF Published

LEMMA BeginsScanKeeps ==
  ASSUME PortsInv, NEW s \in Slot, NEW by \in Askers, NEW m \in Machine, BeginsScan(s, by, m)
  PROVE  PortsInv'
<1> USE DEF PortsInv
<1>1. PICK plan \in Plans[by] :
        /\ scan' = [scan EXCEPT ![s] =
             [by |-> by, of |-> m, todo |-> plan, read |-> 0, hosts |-> None]]
        /\ entries' = IF Head(plan) = "udp" THEN entries
                      ELSE [entries EXCEPT ![m] = Known(m)]
  BY DEF BeginsScan
<1>2. /\ Happens("ports") /\ scan[s] = None /\ net' = net /\ records' = records
      /\ found' = found /\ blank' = blank /\ slow' = slow
  BY DEF BeginsScan
<1>3. by \in {"window", "planned", "hub"} /\ plan \in Seq({"tcp", "udp"})
  <2>1. by \in {"window", "planned", "hub"}
    BY DEF Askers, PortsType
  <2>2. plan \in {<<"tcp">>, <<"udp">>, <<"tcp", "udp">>}
    BY <1>1, <2>1 DEF Plans
  <2>3. {<<"tcp">>, <<"udp">>, <<"tcp", "udp">>} \subseteq Seq({"tcp", "udp"})
    OBVIOUS
  <2> QED BY <2>1, <2>2, <2>3
<1> DEFINE row == [by |-> by, of |-> m, todo |-> plan, read |-> 0, hosts |-> None]
<1>4. row \in ScanRow /\ row.hosts = None
  BY <1>3 DEF ScanRow
<1> HIDE DEF row
<1>5. scan' = [scan EXCEPT ![s] = row]
  BY <1>1 DEF row
<1>6. Published' \subseteq Published
  BY <1>2, <1>4, <1>5, ReadingOne
<1>7. shell' = shell /\ now' \in Nat \ {0} /\ now' = now /\ acts' \in [Part -> Nat]
  BY <1>2, EventsKeep DEF Part
<1>8. Known(m) \in Entry /\ (Known(m).at = 0 \/ Known(m) = entries[m])
  BY DEF PortsType, Known, Entry
<1>9. /\ entries' \in [Machine -> Entry \cup {None}]
      /\ \A k \in Machine : entries'[k] # None => entries'[k].at = 0 \/ entries'[k] = entries[k]
  BY <1>1, <1>8 DEF PortsType
<1>10. PortsType'
  BY <1>2, <1>4, <1>5, <1>7, <1>9 DEF PortsType
<1>11. \A p \in Published' : p[1] <= now' /\ p \in Published
  BY <1>6, <1>7 DEF InThePast
<1>12. InThePast' /\ WasFound' /\ LaterKnowsMore'
  <2>1. now' >= now
    BY <1>7
  <2> QED BY <1>2, <1>9, <1>10, <1>11, <2>1, NothingNew
<1>13. RowsApart'
  BY <1>2 DEF RowsApart
<1> QED BY <1>10, <1>12, <1>13

\* A result takes the place of the one before.
LEMMA ResultsKeep ==
  ASSUME PortsInv, NEW s \in Slot, Results(s)
  PROVE  PortsInv'
<1> USE DEF PortsInv
<1> DEFINE m == scan[s].of
           proto == Head(scan[s].todo)
<1>1. /\ scan[s] \in ScanRow /\ scan[s] # None /\ m \in Machine /\ scan[s].todo # <<>>
      /\ shell' = shell /\ now' = now /\ acts' = acts /\ net' = net /\ records' = records
      /\ blank' = blank /\ slow' = slow
  BY DEF Results, PortsType, ScanRow, probe
<1>2. proto \in {"tcp", "udp"} /\ Tail(scan[s].todo) \in Seq({"tcp", "udp"})
  BY <1>1 DEF ScanRow
<1>3. PICK open \in SUBSET {proto} :
        /\ entries' = [entries EXCEPT ![m] = Held(Known(m), proto, open)]
        /\ found' = [found EXCEPT ![m] = @ \cup {Held(Known(m), proto, open)}]
  BY DEF Results
<1> DEFINE e == Held(Known(m), proto, open)
<1>4. e \in Entry /\ e.at = now
  <2>1. Known(m) \in Entry
    BY <1>1 DEF PortsType, Known, Entry
  <2> QED BY <1>2, <2>1 DEF Held, Entry, PortsType
<1> DEFINE row == [scan[s] EXCEPT !.todo = Tail(scan[s].todo)]
<1>5. scan' = [scan EXCEPT ![s] = row]
  BY DEF Results
<1>6. row \in ScanRow /\ row.hosts = scan[s].hosts /\ row.read = scan[s].read
  BY <1>1, <1>2 DEF ScanRow
<1>7. entries' = [entries EXCEPT ![m] = e] /\ found' = [found EXCEPT ![m] = @ \cup {e}]
  BY <1>3
<1> HIDE DEF m, proto, e, row
<1>8. Published' \subseteq Published
  BY <1>1, <1>5, <1>6, ReadingOne
<1>9. PortsType'
  BY <1>1, <1>4, <1>5, <1>6, <1>7 DEF PortsType
<1>10. \A p \in Published : \A k \in DOMAIN p[2] : k \in Machine /\ p[2][k].at <= now
  BY PublishedType DEF InThePast
<1>11. now \in Nat /\ found'[m] = found[m] \cup {e} /\ entries'[m] = e
       /\ \A k \in Machine \ {m} : found'[k] = found[k] /\ entries'[k] = entries[k]
  BY <1>1, <1>7 DEF PortsType
<1>12. InThePast'
  <2>1. \A k \in Machine : entries'[k] # None => entries'[k].at <= now'
    BY <1>1, <1>4, <1>11 DEF InThePast
  <2>2. ASSUME NEW p \in Published, NEW k \in DOMAIN p[2], entries'[k] # None, entries'[k].at # 0
        PROVE  p[2][k].at <= entries'[k].at
    BY <1>4, <1>10, <1>11, <2>2 DEF InThePast
  <2>3. \A p \in Published : p[1] <= now' /\ \A k \in DOMAIN p[2] : p[2][k].at <= now'
    BY <1>1 DEF InThePast
  <2> QED BY <1>8, <2>1, <2>2, <2>3 DEF InThePast
<1>13. WasFound'
  <2>1. \A k \in Machine : entries'[k] # None /\ entries'[k].at # 0 => entries'[k] \in found'[k]
    BY <1>11 DEF WasFound
  <2>2. \A p \in Published : \A k \in DOMAIN p[2] \ blank' : p[2][k] \in found'[k]
    BY <1>1, <1>10, <1>11 DEF WasFound
  <2> QED BY <1>8, <2>1, <2>2 DEF WasFound
<1>14. LaterKnowsMore' /\ RowsApart'
  BY <1>1, <1>8 DEF LaterKnowsMore, RowsApart
<1> QED BY <1>9, <1>12, <1>13, <1>14

\* The store is read: what it knows of each machine is the last there is.
LEMMA ReadsKeep ==
  ASSUME PortsInv, NEW s \in Slot, Reads(s)
  PROVE  PortsInv'
<1> USE DEF PortsInv
<1> DEFINE row == IF Snapshot = <<>> THEN None
                  ELSE [scan[s] EXCEPT !.hosts = Snapshot, !.read = now]
<1>1. /\ scan[s] \in ScanRow /\ shell' = shell /\ now' = now /\ acts' = acts
      /\ entries' = entries /\ net' = net /\ records' = records /\ found' = found /\ slow' = slow
      /\ scan' = [scan EXCEPT ![s] = row]
      /\ blank' = blank \cup {m \in DOMAIN Snapshot : Snapshot[m].at = 0}
  BY DEF Reads, Done, PortsType, probe
<1> DEFINE Known0 == {m \in Machine : entries[m] # None}
<1>2. Snapshot \in [Known0 -> Entry] /\ Snapshot \in Hosts /\ DOMAIN Snapshot = Known0
      /\ \A m \in Known0 : Snapshot[m] = entries[m]
  <2>1. Snapshot = [m \in Known0 |-> entries[m]] /\ Known0 \in SUBSET Machine
    BY DEF Snapshot
  <2>2. \A m \in Known0 : entries[m] \in Entry
    BY DEF PortsType
  <2> HIDE DEF Known0
  <2>3. Snapshot \in [Known0 -> Entry]
    BY <2>1, <2>2
  <2> QED BY <2>1, <2>3 DEF Hosts
<1> DEFINE new == <<now, Snapshot>>
<1>3. row \in ScanRow \cup {None} /\ (row # None => row.hosts = Snapshot /\ row.read = now)
  BY <1>1, <1>2 DEF ScanRow, PortsType
<1> HIDE DEF row
<1>4. Published' \subseteq Published \cup {new}
  <2>1. scan'[s] = row /\ \A t \in Slot \ {s} : scan'[t] = scan[t]
    BY <1>1, <1>3 DEF PortsType
  <2>2. \A t \in Reading' \ {s} : t \in Reading /\ scan'[t] = scan[t]
    BY <2>1 DEF Reading
  <2>3. s \in Reading' => <<scan'[s].read, scan'[s].hosts>> = new
    BY <1>3, <2>1 DEF Reading
  <2> QED BY <1>1, <2>2, <2>3 DEF Published
<1>5. blank \subseteq blank' /\ blank' \in SUBSET Machine /\ \A m \in Known0 \ blank' : entries[m].at # 0
  BY <1>1, <1>2 DEF PortsType
<1>6. PortsType'
  BY <1>1, <1>3, <1>5 DEF PortsType
<1>7. now \in Nat /\ \A m \in Known0 : entries[m].at \in Nat /\ entries[m].at <= now
  BY DEF PortsType, Entry, InThePast
<1>8. \A p \in Published : \A m \in DOMAIN p[2] : m \in Machine /\ p[2][m].at \in Nat
  BY PublishedType
<1>9. InThePast'
  <2>1. \A m \in DOMAIN Snapshot :
          /\ Snapshot[m].at <= now
          /\ entries[m] # None /\ entries[m].at # 0 => Snapshot[m].at <= entries[m].at
    BY <1>2, <1>7
  <2>2. /\ new[1] <= now /\ new[2] = Snapshot
    BY <1>7
  <2> HIDE DEF new
  <2> QED BY <1>1, <1>4, <2>1, <2>2 DEF InThePast
<1>10. WasFound'
  <2>1. \A m \in DOMAIN Snapshot \ blank' : Snapshot[m] \in found[m]
    BY <1>2, <1>5 DEF WasFound
  <2>2. new[2] = Snapshot
    OBVIOUS
  <2> HIDE DEF new
  <2> QED BY <1>1, <1>4, <1>5, <2>1, <2>2 DEF WasFound
<1>11. LaterKnowsMore'
  <2> SUFFICES ASSUME ~slow, NEW p \in Published', NEW q \in Published', p[1] < q[1],
                      NEW m \in (DOMAIN p[2] \cap DOMAIN q[2]) \ blank'
               PROVE  p[2][m].at <= q[2][m].at
    BY <1>1 DEF LaterKnowsMore
  <2>1. m \notin blank
    BY <1>5
  <2>2. p \in Published
    <3>1. ASSUME p = new PROVE FALSE
      <4>1. q[1] <= now
        BY <1>4, <1>7 DEF InThePast
      <4>2. p[1] = now
        BY <3>1
      <4>3. q[1] \in Nat
        BY <1>4, <1>7, PublishedType
      <4> QED BY <1>7, <4>1, <4>2, <4>3
    <3> QED BY <1>4, <3>1
  <2>3. CASE q \in Published
    BY <2>1, <2>2, <2>3 DEF LaterKnowsMore
  <2>4. CASE q = new
    <3>1. m \in Known0 /\ q[2][m] = entries[m]
      BY <1>2, <2>4
    <3>2. entries[m] # None /\ entries[m].at # 0
      BY <1>5, <3>1
    <3> QED BY <2>2, <3>1, <3>2 DEF InThePast
  <2> QED BY <1>4, <2>3, <2>4
<1>12. RowsApart'
  BY <1>1 DEF RowsApart
<1> QED BY <1>6, <1>9, <1>10, <1>11, <1>12

\* What was read is dated and sent: in a later second, `slow' remembers it.
LEMMA SendsKeep ==
  ASSUME PortsInv, NEW s \in Slot, Sends(s)
  PROVE  PortsInv'
<1> USE DEF PortsInv
<1> DEFINE new == [started |-> now, hosts |-> scan[s].hosts]
           was == <<scan[s].read, scan[s].hosts>>
<1>1. /\ scan[s] # None /\ scan[s] \in ScanRow /\ scan[s].hosts # None
      /\ shell' = shell /\ now' = now /\ acts' = acts /\ entries' = entries
      /\ records' = records /\ found' = found /\ blank' = blank
      /\ net' = net \cup {new}
      /\ slow' = (slow \/ now > scan[s].read)
      /\ scan' = [scan EXCEPT ![s] = None]
  BY DEF Sends, Done, PortsType, probe
<1>2. new \in [started : Nat, hosts : Hosts] /\ scan[s].read \in Nat /\ now \in Nat
  BY <1>1 DEF ScanRow, PortsType
<1>3. slow' \in BOOLEAN /\ (slow => slow')
  BY <1>1 DEF PortsType
<1>4. PortsType'
  BY <1>1, <1>2, <1>3 DEF PortsType
<1>5. was \in Published
  BY <1>1 DEF Published, Reading
<1>6. Published' \subseteq Published \cup {<<now, scan[s].hosts>>}
  <2>1. Reading' \subseteq Reading /\ \A t \in Reading' : scan'[t] = scan[t]
    BY <1>1 DEF Reading, PortsType
  <2>2. new.started = now /\ new.hosts = scan[s].hosts
    OBVIOUS
  <2> HIDE DEF new
  <2> QED BY <1>1, <2>1, <2>2 DEF Published
<1>7. ~slow' => scan[s].read = now
  <2>1. scan[s].read <= now
    BY <1>5 DEF InThePast
  <2>2. ~slow' => ~(now > scan[s].read)
    BY <1>1, Zenon
  <2> QED BY <1>2, <2>1, <2>2
<1>8. \A p \in Published' :
        /\ p[1] <= now'
        /\ \E q \in Published : p[2] = q[2] /\ (~slow' => p[1] = q[1])
  <2> SUFFICES ASSUME NEW p \in Published'
               PROVE  /\ p[1] <= now'
                      /\ \E q \in Published : p[2] = q[2] /\ (~slow' => p[1] = q[1])
    OBVIOUS
  <2>1. CASE p \in Published
    BY <1>1, <2>1 DEF InThePast
  <2>2. CASE p = <<now, scan[s].hosts>>
    <3>1. p[1] = now /\ p[2] = was[2] /\ was[1] = scan[s].read
      BY <2>2
    <3>2. p[1] <= now'
      BY <1>1, <1>2, <3>1
    <3> QED BY <1>5, <1>7, <3>1, <3>2
  <2> QED BY <1>6, <2>1, <2>2
<1>9. InThePast' /\ WasFound' /\ LaterKnowsMore'
  <2>1. now' >= now
    BY <1>1, <1>2
  <2>2. \A m \in Machine : entries'[m] # None => entries'[m].at = 0 \/ entries'[m] = entries[m]
    BY <1>1
  <2>3. blank \subseteq blank' /\ \A m \in Machine : found[m] \subseteq found'[m]
    BY <1>1
  <2> QED BY <1>3, <1>4, <1>8, <2>1, <2>2, <2>3, NothingNew
<1>10. RowsApart'
  BY <1>1 DEF RowsApart
<1> QED BY <1>4, <1>9, <1>10

\* An entry forgotten, a publication received, records purged, a second that
\* passes, a program that starts again.
LEMMA OthersKeep ==
  ASSUME PortsInv, now' \in Nat \ {0}, now' >= now, acts' \in [Part -> Nat],
         shell' = shell, found' = found, blank' = blank, slow' = slow,
         entries' \in [Machine -> Entry \cup {None}],
         \A m \in Machine : entries'[m] \in {entries[m], None},
         scan' \in [Slot -> ScanRow \cup {None}],
         \A s \in Slot : scan'[s] \in {scan[s], None},
         net' \subseteq net,
         records' \subseteq [id : ScanId, started : Nat, hosts : Hosts], RowsApart',
         \A r \in records' : r \in records
                             \/ \E p \in net : r.started = p.started /\ r.hosts = p.hosts
  PROVE  PortsInv'
<1> USE DEF PortsInv
<1>1. PortsType'
  BY DEF PortsType
<1>2. \A t \in Reading' : t \in Reading /\ scan'[t] = scan[t]
  BY DEF Reading
<1>3. Published' \subseteq Published
  <2>1. \A r \in net' \cup records' : \E p \in net \cup records : r.started = p.started /\ r.hosts = p.hosts
    OBVIOUS
  <2> QED BY <1>2, <2>1 DEF Published
<1>4. \A p \in Published' : p \in Published /\ p[1] <= now'
  <2>1. now \in Nat /\ \A p \in Published : p[1] \in Nat /\ p[1] <= now
    BY PublishedType DEF PortsType, InThePast
  <2> QED BY <1>3, <2>1
<1>5. \A m \in Machine : entries'[m] # None => entries'[m] = entries[m]
  OBVIOUS
<1>6. InThePast' /\ WasFound' /\ LaterKnowsMore'
  BY <1>1, <1>4, <1>5, NothingNew
<1> QED BY <1>1, <1>6

\* The hub's rows, after a publication more.
LEMMA RecordsKeep ==
  ASSUME PortsInv, NEW report \in net, Records(report)
  PROVE  PortsInv'
<1> USE DEF PortsInv
<1>1. PICK id \in ScanId \ {r.id : r \in records} :
        records' = records \cup {[id |-> id, started |-> report.started, hosts |-> report.hosts]}
  BY DEF Records
<1>2. /\ shell' = shell /\ now' = now /\ acts' = acts /\ net' \subseteq net
      /\ entries' = entries /\ scan' = scan /\ found' = found /\ blank' = blank /\ slow' = slow
  BY DEF Records, probe
<1> DEFINE row == [id |-> id, started |-> report.started, hosts |-> report.hosts]
<1>3. row \in [id : ScanId, started : Nat, hosts : Hosts] /\ row.id = id
      /\ row.started = report.started /\ row.hosts = report.hosts
  BY DEF PortsType
<1>4. records' = records \cup {row}
  BY <1>1
<1>5. \A r \in records : r.id # row.id
  BY <1>3
<1> HIDE DEF row
<1>6. RowsApart'
  <2>1. IsFiniteSet(records')
    BY <1>4, FS_AddElement DEF RowsApart
  <2> QED BY <1>4, <1>5, <2>1 DEF RowsApart
<1>7. records' \subseteq [id : ScanId, started : Nat, hosts : Hosts]
  BY <1>3, <1>4 DEF PortsType
<1>8. \A r \in records' : r \in records \/ \E p \in net : r.started = p.started /\ r.hosts = p.hosts
  BY <1>3, <1>4
<1>9. /\ now' \in Nat \ {0} /\ now' >= now /\ acts' \in [Part -> Nat]
      /\ entries' \in [Machine -> Entry \cup {None}] /\ scan' \in [Slot -> ScanRow \cup {None}]
  BY <1>2 DEF PortsType
<1>10. /\ \A m \in Machine : entries'[m] \in {entries[m], None}
       /\ \A s \in Slot : scan'[s] \in {scan[s], None}
  BY <1>2
<1> QED BY <1>2, <1>6, <1>7, <1>8, <1>9, <1>10, OthersKeep

LEMMA PurgesKeep ==
  ASSUME PortsInv, PurgesInventory
  PROVE  PortsInv' /\ acts'["purge"] < acts["purge"]
<1> USE DEF PortsInv
<1>1. Happens("purge") /\ records' \subseteq records
      /\ entries' = entries /\ scan' = scan /\ net' = net /\ found' = found
      /\ blank' = blank /\ slow' = slow
  BY DEF PurgesInventory
<1>2. now' \in Nat \ {0} /\ now' >= now /\ acts' \in [Part -> Nat] /\ shell' = shell
      /\ acts'["purge"] < acts["purge"]
  BY <1>1, EventsKeep DEF Part
<1>3. RowsApart'
  BY <1>1, FS_Subset DEF RowsApart
<1> QED BY <1>1, <1>2, <1>3, OthersKeep DEF PortsType

\* A step of one of the two parts, or of both: the events are counted alike.
LEMMA PortsKeep ==
  ASSUME PortsInv, PortInventoryStep
  PROVE  PortsInv'
<1> USE DEF PortsInv
<1>1. ASSUME NEW m \in Machine, Clears(m) PROVE PortsInv'
  <2>1. Happens("clear") /\ entries' = [entries EXCEPT ![m] = None]
        /\ records' = records /\ scan' = scan /\ net' = net /\ found' = found
        /\ blank' = blank /\ slow' = slow
    BY <1>1 DEF Clears
  <2>2. now' \in Nat \ {0} /\ now' >= now /\ acts' \in [Part -> Nat] /\ shell' = shell
    BY <2>1, EventsKeep DEF Part
  <2>3. /\ entries' \in [Machine -> Entry \cup {None}]
        /\ \A k \in Machine : entries'[k] \in {entries[k], None}
    BY <2>1 DEF PortsType
  <2>4. RowsApart'
    BY <2>1 DEF RowsApart
  <2> QED BY <2>1, <2>2, <2>3, <2>4, OthersKeep DEF PortsType
<1> HIDE DEF PortsInv
<1> QED BY <1>1, PurgesKeep, ResultsKeep, ReadsKeep, SendsKeep, BeginsScanKeeps, RecordsKeep
        DEF PortInventoryStep

LEMMA InvInit ==
  ASSUME ScansInit
  PROVE  ScansInv
<1>1. SearchInv
  BY DEF ScansInit, DiscoveryInit, SearchInv, SearchType, OneSearch, StoreIsItsOwn, Running
<1>2. PortsType
  <2>1. acts \in [Part -> Nat] /\ shell \in {"desktop", "headless"} /\ now \in Nat \ {0}
    BY ScanBaseAssumption DEF ScansInit
  <2>2. /\ entries = [m \in Machine |-> None] /\ scan = [s \in Slot |-> None]
        /\ net = {} /\ records = {} /\ found = [m \in Machine |-> {}]
        /\ blank = {} /\ slow = FALSE
    BY DEF ScansInit, PortInventoryInit
  <2> QED BY <2>1, <2>2 DEF PortsType
<1>3. Published = {} /\ \A m \in Machine : entries[m] = None
  BY DEF ScansInit, PortInventoryInit, Published, Reading
<1>4. RowsApart
  BY FS_EmptySet DEF ScansInit, PortInventoryInit, RowsApart
<1> QED BY <1>1, <1>2, <1>3, <1>4 DEF ScansInv, PortsInv, InThePast, WasFound, LaterKnowsMore

LEMMA InvNext ==
  ASSUME ScansInv, [ScansNext]_scansVars
  PROVE  ScansInv'
<1> USE DEF ScansInv
<1>1. ASSUME DiscoveryStep, UNCHANGED ports PROVE ScansInv'
  <2>1. now' \in Nat \ {0} /\ now' >= now /\ acts' \in [Part -> Nat] /\ shell' = shell
    <3>1. (\E part \in Part : Happens(part)) \/ UNCHANGED probe
      BY <1>1 DEF DiscoveryStep, Cancels, BeginsInWindow, BeginsSearch, Chooses, GivesUp,
         ReadsNeighbours, EndsSweep, Decides, ReadsAgain, Publishes, Leaves, Asks, Answers, Part
    <3>2. CASE UNCHANGED probe
      BY <3>2 DEF probe, PortsInv, PortsType
    <3> QED BY <3>1, <3>2, EventsKeep DEF PortsInv
  <2>2. UNCHANGED <<entries, scan, net, records, found, blank, slow>>
    BY <1>1 DEF ports
  <2>3. RowsApart'
    BY <2>2 DEF RowsApart, PortsInv
  <2>4. PortsInv'
    BY <2>1, <2>2, <2>3, OthersKeep DEF PortsInv, PortsType
  <2> QED BY <1>1, <2>4, DiscoveryKeeps
<1>2. ASSUME UNCHANGED searching PROVE SearchInv'
  BY <1>2 DEF searching, SearchInv, SearchType, OneSearch, StoreIsItsOwn, Running
<1>3. ASSUME PortInventoryStep, UNCHANGED searching PROVE ScansInv'
  BY <1>2, <1>3, PortsKeep
<1>4. ASSUME Happens("time"), UNCHANGED <<searching, ports>> PROVE ScansInv'
  <2>1. now' \in Nat \ {0} /\ now' >= now /\ acts' \in [Part -> Nat] /\ shell' = shell
    BY <1>4, EventsKeep DEF PortsInv, Part
  <2>2. UNCHANGED <<entries, scan, net, records, found, blank, slow>>
    BY <1>4 DEF ports
  <2>3. RowsApart'
    BY <2>2 DEF RowsApart, PortsInv
  <2>4. PortsInv'
    BY <2>1, <2>2, <2>3, OthersKeep DEF PortsInv, PortsType
  <2> QED BY <1>2, <1>4, <2>4
<1>5. CASE Restarts
  <2>1. now' \in Nat \ {0} /\ now' >= now /\ acts' \in [Part -> Nat] /\ shell' = shell
    BY <1>5, EventsKeep DEF Restarts, PortsInv, Part
  <2>2. RowsApart'
    BY <1>5 DEF Restarts, RowsApart, PortsInv
  <2>3. /\ UNCHANGED <<net, records, found, blank, slow>>
        /\ entries' = [m \in Machine |-> None] /\ scan' = [s \in Slot |-> None]
    BY <1>5 DEF Restarts
  <2>4. PortsInv'
    BY <2>1, <2>2, <2>3, OthersKeep DEF PortsInv, PortsType
  <2>5. SearchInv'
    BY <1>5 DEF Restarts, SearchInv, SearchType, OneSearch, StoreIsItsOwn, Running
  <2> QED BY <2>4, <2>5
<1>6. ASSUME UNCHANGED scansVars PROVE ScansInv'
  <2>1. UNCHANGED <<shell, now, acts, entries, scan, net, records, found, blank, slow, searching>>
    BY <1>6 DEF scansVars, probe, ports
  <2>2. PortsInv'
    BY <2>1 DEF PortsInv, PortsType, InThePast, WasFound, LaterKnowsMore, RowsApart, Published, Reading
  <2> QED BY <1>2, <2>1, <2>2
<1> QED BY <1>1, <1>3, <1>4, <1>5, <1>6 DEF ScansNext

\* The inductive invariant holds in every state.
LEMMA InvHolds == ScansSpec => []ScansInv
<1> QED BY InvInit, InvNext, PTL DEF ScansSpec

-----------------------------------------------------------------------------
(* The theorems.                                                           *)

\* The variables of the searches and of the scans keep their types.
THEOREM ScansTypeCorrect == ScansSpec => [](SearchType /\ PortsType)
<1>1. ScansInv => SearchType /\ PortsType
  BY DEF ScansInv, SearchInv, PortsInv
<1> QED BY <1>1, InvHolds, PTL

\* As long as nobody cancels, one search at most is under way, the flag says
\* so, and what it publishes is what it saw; a flag that says busy tells of a
\* search under way, or of one given up.
THEOREM OneSearchAtATime == ScansSpec => []GuardTellsTheSearch
<1>1. ASSUME ScansInv PROVE GuardTellsTheSearch
  <2> USE DEF ScansInv, SearchInv
  <2>1. ASSUME ~cancelled
        PROVE  Cardinality(Running) <= IF guard = "busy" THEN 1 ELSE 0
    <3>1. CASE Running = {}
      BY <1>1, <3>1, FS_EmptySet
    <3>2. CASE Running # {}
      <4>1. PICK s \in Slot : Running = {s}
        BY <1>1, <2>1, <3>2 DEF OneSearch, Running
      <4>2. Cardinality(Running) = 1
        BY <4>1, FS_Singleton
      <4>3. guard = "busy"
        BY <1>1, <2>1, <3>2 DEF OneSearch, SearchType
      <4> QED BY <4>2, <4>3
    <3> QED BY <3>1, <3>2
  <2>2. ASSUME ~cancelled PROVE PublishesWhatItSaw
    BY <1>1, <2>2 DEF PublishesWhatItSaw, StoreIsItsOwn
  <2> QED BY <1>1, <2>1, <2>2 DEF GuardTellsTheSearch
<1> QED BY <1>1, InvHolds, PTL

\* What the hub shows of a machine is what the probe held of it at that date,
\* but for a machine published while its first scan was under way.
THEOREM InventoryIsTrue == ScansSpec => []ShowsWhatWasFound
<1>1. ASSUME ScansInv PROVE ShowsWhatWasFound
  <2> USE DEF ScansInv, PortsInv
  <2> SUFFICES ASSUME NEW m \in Machine \ blank, Shown(m) # None
               PROVE  Shown(m) \in found[m]
    BY DEF ShowsWhatWasFound
  <2>1. Winner(m) \in records /\ m \in DOMAIN Winner(m).hosts /\ Shown(m) = Winner(m).hosts[m]
    BY <1>1, ShownIsSaid DEF Speaking
  <2> DEFINE p == <<Winner(m).started, Winner(m).hosts>>
  <2>2. p \in Published
    BY <2>1 DEF Published
  <2>3. p[2] = Winner(m).hosts
    OBVIOUS
  <2> HIDE DEF p
  <2> QED BY <1>1, <2>1, <2>2, <2>3 DEF WasFound
<1> QED BY <1>1, InvHolds, PTL

\* What the hub shows of a machine, said of the rows that speak of it.
ShownOf(S, m) == IF S = {} THEN None ELSE First(S, m).hosts[m]

LEMMA ShownByFirst ==
  ASSUME NEW m \in Machine, ScansInv
  PROVE  /\ Shown(m) = ShownOf(Speaking(m), m) /\ Rows(Speaking(m), m)
         /\ \A r \in Speaking(m) : r.hosts[m] \in Entry
<1> USE DEF ScansInv, PortsInv
<1>1. Rows(Speaking(m), m)
  BY SpeakingRows
<1>2. Winner(m) = First(Speaking(m), m)
  BY DEF Winner, First
<1> QED BY <1>1, <1>2, ShownIsSaid, RowSays DEF ShownOf

\* In all machines at once, so that it can be said of the next state.
ShownAsFirst ==
  \A m \in Machine : /\ Shown(m) = ShownOf(Speaking(m), m) /\ Rows(Speaking(m), m)
                     /\ \A r \in Speaking(m) : r.hosts[m] \in Entry

LEMMA NewerKeeps ==
  ASSUME ScansInv, ShownAsFirst, ShownAsFirst', [ScansNext]_scansVars, NEW m \in Machine \ blank',
         Shown(m) # None, ~slow
  PROVE  IF Shown(m)' = None THEN acts'["purge"] < acts["purge"]
         ELSE Shown(m)'.at >= Shown(m).at
<1> USE DEF ScansInv, PortsInv
<1> DEFINE S == {r \in records : m \in DOMAIN r.hosts}
           T == {r \in records' : m \in DOMAIN r.hosts}
<1>1. /\ Shown(m) = ShownOf(S, m) /\ Rows(S, m) /\ \A r \in S : r.hosts[m] \in Entry
  BY DEF ShownAsFirst, Speaking
<1>2. /\ Shown(m)' = ShownOf(T, m) /\ Rows(T, m) /\ \A r \in T : r.hosts[m] \in Entry
  BY DEF ShownAsFirst, Speaking
<1> DEFINE w == First(S, m)
           v == First(T, m)
<1>3. S # {} /\ Shown(m) = w.hosts[m] /\ w \in S /\ \A k \in S \ {w} : Precedes(w, k, m)
  BY <1>1, FirstExists DEF ShownOf
<1>4. T # {} => Shown(m)' = v.hosts[m] /\ v \in T /\ \A k \in T \ {v} : Precedes(v, k, m)
  BY <1>2, FirstExists DEF ShownOf
<1>5. T = {} => Shown(m)' = None
  BY <1>2 DEF ShownOf
<1>6. /\ \A r \in S : r.started \in Nat /\ r.hosts[m].at \in Nat
      /\ \A r \in T : r.started \in Nat /\ r.hosts[m].at \in Nat
  BY <1>1, <1>2 DEF Rows
<1>7. T # {} => Shown(m)' # None
  BY <1>2, <1>4, PortInventoryAssumption
<1> HIDE DEF w, v
<1>8. CASE UNCHANGED records
  <2>1. T = S /\ v = w
    BY <1>8 DEF w, v
  <2> HIDE DEF S, T
  <2>2. Shown(m)' = w.hosts[m] /\ Shown(m)' # None
    BY <1>3, <1>4, <1>7, <2>1
  <2> QED BY <1>3, <1>6, <2>2
<1>9. ASSUME NEW report \in net, Records(report)
      PROVE  Shown(m)' # None /\ Shown(m)'.at >= Shown(m).at
  <2>1. PICK id \in ScanId :
          records' = records \cup {[id |-> id, started |-> report.started, hosts |-> report.hosts]}
    BY <1>9 DEF Records
  <2> DEFINE row == [id |-> id, started |-> report.started, hosts |-> report.hosts]
  <2>2. records' = records \cup {row} /\ row.started = report.started /\ row.hosts = report.hosts
    BY <2>1
  <2> HIDE DEF row
  <2>3. S \subseteq T /\ \A r \in T : r \in S \/ r = row
    BY <2>2
  <2>4. m \notin blank
    BY <1>9 DEF Records
  <2>5. /\ <<report.started, report.hosts>> \in Published
        /\ w \in records /\ <<w.started, w.hosts>> \in Published /\ m \in DOMAIN w.hosts
    BY <1>3 DEF Published
  <2>6. row \in T => (w.started < row.started => w.hosts[m].at <= row.hosts[m].at)
    <3> SUFFICES ASSUME row \in T, w.started < row.started
                 PROVE  w.hosts[m].at <= row.hosts[m].at
      OBVIOUS
    <3> DEFINE p == <<w.started, w.hosts>>
               q == <<report.started, report.hosts>>
    <3>1. p[1] = w.started /\ p[2] = w.hosts /\ q[1] = row.started /\ q[2] = row.hosts
      BY <2>2
    <3>2. m \in DOMAIN row.hosts
      OBVIOUS
    <3>3. p \in Published /\ q \in Published
      BY <2>5
    <3> HIDE DEF p, q
    <3> QED BY <2>4, <2>5, <3>1, <3>2, <3>3 DEF LaterKnowsMore
  <2> HIDE DEF S, T
  <2>7. T # {} /\ w \in T /\ v \in T
    BY <1>3, <1>4, <2>3
  <2>8. v.hosts[m].at >= w.hosts[m].at
    <3>1. CASE v = w
      BY <1>6, <2>7, <3>1
    <3>2. CASE v # w
      <4>1. Precedes(v, w, m)
        BY <1>4, <2>7, <3>2
      <4>2. v \notin S
        <5> SUFFICES ASSUME v \in S PROVE FALSE
          OBVIOUS
        <5>1. Precedes(w, v, m)
          BY <1>3, <3>2
        <5> QED BY <1>1, <1>3, <4>1, <5>1, FirstIsOne
      <4>3. v = row
        BY <2>3, <2>7, <4>2
      <4>4. w.started < v.started => w.hosts[m].at <= v.hosts[m].at
        BY <2>6, <2>7, <4>3
      <4> QED BY <1>6, <2>7, <4>1, <4>4 DEF Precedes
    <3> QED BY <3>1, <3>2
  <2> QED BY <1>3, <1>4, <1>7, <2>7, <2>8
<1>10. ASSUME PurgesInventory
       PROVE  IF Shown(m)' = None THEN acts'["purge"] < acts["purge"]
              ELSE Shown(m)'.at >= Shown(m).at
  <2>1. acts'["purge"] < acts["purge"]
    BY <1>10, PurgesKeep
  <2>2. PICK cutoff \in 1..now : records' = {r \in records : r.started >= cutoff}
    BY <1>10 DEF PurgesInventory
  <2>3. T \subseteq S /\ (w.started >= cutoff => w \in T) /\ \A r \in T : r.started >= cutoff
    BY <1>3, <2>2
  <2>4. cutoff \in Nat
    BY <2>2 DEF PortsType
  <2> HIDE DEF S, T
  <2>5. ASSUME T # {} PROVE v = w
    <3> SUFFICES ASSUME v # w PROVE FALSE
      OBVIOUS
    <3>1. v \in S /\ v.started >= cutoff /\ Precedes(w, v, m)
      BY <1>3, <1>4, <2>3, <2>5
    <3>2. w.started >= v.started
      BY <1>3, <1>6, <3>1 DEF Precedes
    <3>3. w \in T
      BY <1>3, <1>6, <2>3, <2>4, <3>1, <3>2
    <3>4. Precedes(v, w, m)
      BY <1>4, <2>5, <3>3
    <3> QED BY <1>1, <1>3, <3>1, <3>4, FirstIsOne
  <2>6. T # {} => Shown(m)' = w.hosts[m]
    BY <1>4, <2>5
  <2> QED BY <1>3, <1>5, <1>6, <2>1, <2>6
<1>11. UNCHANGED records \/ PurgesInventory \/ \E report \in net : Records(report)
  BY DEF ScansNext, DiscoveryStep, ports, PortInventoryStep, Results, Reads, Sends, BeginsScan, Clears,
     Restarts, scansVars
<1> QED BY <1>8, <1>9, <1>10, <1>11

\* A machine the hub shows stays shown, and its date never goes back; a purge
\* takes it away whole.  But for a machine published while its first scan was
\* under way, and for a publication read in one second and dated in another.
THEOREM InventoryNeverGoesBack == ScansSpec => InventoryOnlyGetsNewer
<1>1. ScansInv => ShownAsFirst
  BY ShownByFirst DEF ShownAsFirst
<1>2. ScansInv /\ ShownAsFirst /\ ShownAsFirst' /\ [ScansNext]_scansVars =>
        [\A m \in Machine \ blank' :
           Shown(m) # None /\ ~slow =>
             IF Shown(m)' = None THEN acts'["purge"] < acts["purge"]
             ELSE Shown(m)'.at >= Shown(m).at]_<<records, acts>>
  BY NewerKeeps
<1> QED BY <1>1, <1>2, InvHolds, PTL DEF ScansSpec, InventoryOnlyGetsNewer
=============================================================================
