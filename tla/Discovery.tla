----------------------------- MODULE Discovery ------------------------------
(***************************************************************************)
(* The search of a network for machines (scheduler.rs, and the window's    *)
(* cmd_scan_network).  One flag, scan_cancel, says both that no search is  *)
(* under way and that the one under way is to stop.                        *)
(*                                                                         *)
(* The machines found are gathered in a store all searches share: cleared  *)
(* when a search begins, read when it publishes.  cmd_clear_discovery      *)
(* clears it too; no code of the window calls it, and it is left out.      *)
(***************************************************************************)
EXTENDS ScanBase

CONSTANT Host

\* Where a search is, but for the machine it waits for.
Stage == {"choose", "arp", "sweep", "swept", "last", "publish", "leave"}

\* A search: who asked for it, where it is, the machines known at first, those
\* left to ask, and those it saw.
SearchRow ==
  [by : {"window", "planned", "hub"}, at : Stage \cup Host, first : SUBSET Host,
   left : SUBSET Host, saw : SUBSET Host]

ASSUME DiscoveryAssumption == Host \cap Stage = {} /\ None \notin SearchRow

VARIABLES
  guard,       (* scan_cancel: idle (true) or busy (false)                  *)
  hosts,       (* the store: machines found                                 *)
  search,      (* the searches under way, by slot                           *)
  (* For the properties.                                                   *)
  cancelled,   (* a search was cancelled while one ran                      *)
  abandoned    (* a search gave up for want of an address                   *)

searching == <<guard, hosts, search, cancelled, abandoned>>

DiscoveryInit ==
  /\ guard = "idle" /\ hosts = {} /\ search = [s \in Slot |-> None]
  /\ cancelled = FALSE /\ abandoned = FALSE

Running == {s \in Slot : search[s] # None}

-----------------------------------------------------------------------------
(* Beginning.                                                              *)

\* A slip: the flag is looked at, and set without looking.
TakenUnlooked == guard' = "busy"

\* compare_exchange: from idle to busy, or not at all.
Taken == guard = "idle" /\ guard' = "busy"

Cleared == {}

Begun(by, at) == [by |-> by, at |-> at, first |-> {}, left |-> Host, saw |-> {}]

\* The window has its address before it takes the flag.
BeginsInWindow(s) ==
  /\ Happens("discovery") /\ search[s] = None /\ MayAsk("window", search)
  /\ Taken /\ hosts' = Cleared
  /\ search' = [search EXCEPT ![s] = Begun("window", "arp")]
  /\ UNCHANGED <<cancelled, abandoned>>

\* The scheduler and the hub's orders take the flag first...
BeginsSearch(s, by) ==
  /\ Happens("discovery") /\ by # "window" /\ search[s] = None /\ MayAsk(by, search)
  /\ Taken
  /\ search' = [search EXCEPT ![s] = Begun(by, "choose")]
  /\ UNCHANGED <<hosts, cancelled, abandoned>>

\* ... and clear the store once the network and the address are known,
Chooses(s) ==
  /\ search[s] # None /\ search[s].at = "choose" /\ hosts' = Cleared
  /\ search' = [search EXCEPT ![s].at = "arp"]
  /\ UNCHANGED <<probe, guard, cancelled, abandoned>>

\* or give up: without a network the flag is given back, without an address it
\* is not.
GivesUp(s) ==
  /\ search[s] # None /\ search[s].at = "choose"
  /\ search' = [search EXCEPT ![s] = None]
  /\ \/ guard' = "idle" /\ UNCHANGED abandoned
     \/ UNCHANGED guard /\ abandoned' = TRUE
  /\ UNCHANGED <<probe, hosts, cancelled>>

-----------------------------------------------------------------------------
(* Searching.                                                              *)

\* Told to stop: the window's search just ends, the others give the flag back.
Stopped(s) == [search EXCEPT ![s] = IF @.by = "window" THEN None ELSE [@ EXCEPT !.at = "leave"]]

\* The neighbours already known.
ReadsNeighbours(s) ==
  /\ search[s] # None /\ search[s].at = "arp"
  /\ IF guard = "idle" THEN search' = Stopped(s) /\ UNCHANGED hosts
     ELSE \E known \in SUBSET Host :
            /\ hosts' = hosts \cup known
            /\ search' = [search EXCEPT ![s].at = "sweep", ![s].first = known, ![s].saw = known]
  /\ UNCHANGED <<probe, guard, cancelled, abandoned>>

\* One machine after the other, as long as nobody says to stop.
Asks(s, h) ==
  /\ search[s] # None /\ search[s].at = "sweep" /\ guard = "busy" /\ h \in search[s].left
  /\ search' = [search EXCEPT ![s].at = h, ![s].left = @ \ {h}]
  /\ UNCHANGED <<probe, guard, hosts, cancelled, abandoned>>

\* One that answers is added, if it was not known.
Answers(s, h) ==
  /\ search[s] # None /\ search[s].at = h
  /\ \E new \in SUBSET ({h} \ search[s].first) :
       /\ hosts' = hosts \cup new
       /\ search' = [search EXCEPT ![s].at = "sweep", ![s].saw = @ \cup new]
  /\ UNCHANGED <<probe, guard, cancelled, abandoned>>

\* The loop leaves; only then is it decided whether the search goes on.
EndsSweep(s) ==
  /\ search[s] # None /\ search[s].at = "sweep"
  /\ search[s].left = {} \/ guard = "idle"
  /\ search' = [search EXCEPT ![s].at = "swept"]
  /\ UNCHANGED <<probe, guard, hosts, cancelled, abandoned>>

Decides(s) ==
  /\ search[s] # None /\ search[s].at = "swept"
  /\ search' = IF guard = "idle" THEN Stopped(s) ELSE [search EXCEPT ![s].at = "last"]
  /\ UNCHANGED <<probe, guard, hosts, cancelled, abandoned>>

\* update_mac: a machine that did not answer is added all the same.
WithAddress(found) == hosts \cup found

\* The neighbours the sweep revealed.
ReadsAgain(s) ==
  /\ search[s] # None /\ search[s].at = "last"
  /\ \E found \in SUBSET (Host \ search[s].first) :
       /\ hosts' = WithAddress(found)
       /\ search' = [search EXCEPT ![s].at = "publish", ![s].saw = @ \cup found]
  /\ UNCHANGED <<probe, guard, cancelled, abandoned>>

\* publish_discovery reads the store, and sends it.
Publishes(s) ==
  /\ search[s] # None /\ search[s].at = "publish"
  /\ search' = [search EXCEPT ![s].at = "leave"]
  /\ UNCHANGED <<probe, guard, hosts, cancelled, abandoned>>

GivenBack == guard' = "idle"

Leaves(s) ==
  /\ search[s] # None /\ search[s].at = "leave"
  /\ GivenBack /\ search' = [search EXCEPT ![s] = None]
  /\ UNCHANGED <<probe, hosts, cancelled, abandoned>>

\* cmd_cancel_scan: the flag is set, whatever is under way.
Cancels ==
  /\ Happens("cancel") /\ shell = "desktop" /\ guard' = "idle"
  /\ cancelled' = (cancelled \/ Running # {})
  /\ UNCHANGED <<hosts, search, abandoned>>

DiscoveryStep ==
  \/ Cancels
  \/ \E s \in Slot :
       \/ BeginsInWindow(s) \/ Chooses(s) \/ GivesUp(s) \/ ReadsNeighbours(s) \/ EndsSweep(s)
       \/ Decides(s) \/ ReadsAgain(s) \/ Publishes(s) \/ Leaves(s)
       \/ \E by \in {"planned", "hub"} : BeginsSearch(s, by)
       \/ \E h \in Host : Asks(s, h) \/ Answers(s, h)

-----------------------------------------------------------------------------
(* Properties.                                                             *)

\* What is published is what the search saw: nothing of the one before, and
\* the machines that have only an address (state.rs:76).
PublishesWhatItSaw ==
  \A s \in Running : search[s].at = "publish" => hosts = search[s].saw

\* The flag tells of the search (state.rs:331): two would trample each other in
\* the store (scheduler.rs:426), and a flag that says busy keeps every search
\* out.  A search that was told to stop and is not finished can meet the next
\* one; a search given up leaves the flag busy.
GuardTellsTheSearch ==
  /\ ~cancelled => /\ Cardinality(Running) <= IF guard = "busy" THEN 1 ELSE 0
                   /\ PublishesWhatItSaw
  /\ guard = "busy" => Running # {} \/ abandoned

\* state.rs:331: busy means that a search is under way.  It does not hold.
BusyMeansSearching == guard = "busy" => Running # {}
=============================================================================
