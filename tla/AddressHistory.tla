---------------------------- MODULE AddressHistory ---------------------------
(***************************************************************************)
(* Which public address a probe measured behind, second by second.         *)
(*                                                                         *)
(* A probe asks an outside service for its public address and keeps the    *)
(* answer; it asks again when it recognises another network, when internet *)
(* comes back, when the hub saw its heartbeat come from elsewhere (but not *)
(* more often than a floor), and in any case after a while.  It announces  *)
(* what it keeps at every heartbeat, and the hub writes intervals: the     *)
(* address, and the first and the last heartbeat that said it.  A report   *)
(* attributes each reading of the access to internet to the interval that  *)
(* holds its second, or to nobody.                                         *)
(*                                                                         *)
(* Meanwhile the probe is carried from one network to another, a network   *)
(* is given another address, the service does not answer, and messages and *)
(* answers are late or lost.  A unit of time is at most one heartbeat.     *)
(***************************************************************************)
EXTENDS Integers, FiniteSets, Sequences

CONSTANTS
  Lan,           (* networks the probe can be on: a gateway and the local  *)
                 (* addresses behind it                                    *)
  Address,       (* public addresses                                       *)
  Ttl,           (* PUBLIC_IP_TTL                                          *)
  Floor,         (* FORCED_REFRESH_FLOOR                                   *)
  MaxIntervals,  (* MAX_PUBLIC_IP_INTERVALS                                *)
  Setting,       (* the circumstances tried: `chosen', an interface was    *)
                 (* designated on the probe; `inside', the hub is on its   *)
                 (* networks; `retention' of the series, 0 without limit   *)
  MaxClock,      (* bound: time                                            *)
  MaxMoves,      (* bound: networks changed, addresses renewed             *)
  MaxFaults,     (* bound: answers lost, late messages, restarts           *)
  Nobody         (* nothing, nobody                                        *)

NoLan == "no address"      \* the interface chosen has none
Undesignated == "default"  \* no interface chosen: the default route
Networks == Lan \cup {NoLan, Undesignated}

\* What the probe keeps (PublicIpCache), a lookup under way, a heartbeat as far
\* as addresses go, a row of the history.
Cache    == [net : Networks, asked : Nat, ip : Address \cup {Nobody}, failed : BOOLEAN]
Lookup   == [net : Networks, at : Nat]
Message  == [ip : Address \cup {Nobody}, net : Networks, failed : BOOLEAN, at : Nat, from : Networks \cup Address]
Interval == [id : Nat, ip : Address, from : Nat, until : Nat]

ASSUME AddressAssumption ==
  /\ {Ttl, Floor, MaxIntervals, MaxClock, MaxMoves, MaxFaults} \subseteq Nat
  /\ Setting \subseteq [chosen : BOOLEAN, inside : BOOLEAN, retention : Nat]
  /\ MaxIntervals > 0 /\ Ttl > 0 /\ Floor <= Ttl
  /\ Nobody \notin Lan \cup Address /\ Nobody \notin Cache /\ Nobody \notin Lookup /\ Nobody \notin Message

VARIABLES
  clock,
  place,      (* the network the probe is on, or NoLan                     *)
  exit,       (* the public address of each network                        *)
  setting,    (* the circumstances, once and for all                       *)
  internet,   (* the service can be reached; the probe notices at once     *)
  cache,      (* probe: PublicIpCache                                      *)
  recheck,    (* probe: `recheck_requested'                                *)
  wasOut,     (* probe: the state of internet noted was `offline'          *)
  asking,     (* probe: the lookup a heartbeat waits for                   *)
  beatDue,    (* probe: the interval between two heartbeats has passed     *)
  mail,       (* heartbeats given up that may still arrive                 *)
  observed,   (* hub: where the last one came from (`observed_source_ip')  *)
  history,    (* hub: the rows of `probe_public_ip_history'                *)
  lastId,     (* hub: the last `id' given to one                           *)
  moves, faults,
  (* For the properties.                                                   *)
  sent,       (* the heartbeat the last step sent                          *)
  had,        (* when the network of the cache last had its address,       *)
              (* -1 never                                                  *)
  heard       (* the addresses said to the hub, in the order it got them,  *)
              (* each with the row that it opened or extended              *)

network == <<place, exit, setting, internet>>
probe   == <<cache, recheck, wasOut, asking, beatDue>>
hub     == <<observed, history, lastId, heard>>
addressVars == <<clock, network, probe, mail, hub, moves, faults, had, sent>>

\* With the addresses e, a network has an address; a probe that follows the
\* default route is on any.
Has(e, net, ip) == \E l \in IF net = Undesignated THEN Lan ELSE {net} \cap Lan : e[l] = ip

AddressInit ==
  /\ clock = 0 /\ moves = 0 /\ faults = 0 /\ beatDue = TRUE
  /\ place \in Lan /\ exit \in [Lan -> Address]
  /\ had = -1
  /\ setting \in Setting /\ internet = TRUE
  /\ cache = Nobody /\ recheck = FALSE /\ wasOut = FALSE /\ asking = Nobody /\ sent = Nobody /\ mail = {}
  /\ observed = Nobody /\ history = {} /\ lastId = 0 /\ heard = <<>>

---------------------------------------------------------------------------
(* The world.                                                              *)

Tick ==
  /\ clock < MaxClock /\ clock' = clock + 1
  /\ had' = IF cache # Nobody /\ Has(exit, cache.net, cache.ip) THEN clock + 1 ELSE had
  /\ beatDue' = TRUE
  /\ UNCHANGED <<network, cache, recheck, wasOut, asking, mail, hub, moves, faults>>

\* The probe is carried elsewhere, or loses its address.
Moves(l) ==
  /\ moves < MaxMoves /\ l # place
  /\ place' = l /\ moves' = moves + 1
  /\ UNCHANGED <<clock, exit, setting, internet, probe, mail, hub, faults, had>>

\* The operator of a network gives it another address.
Renewed(l, a) ==
  /\ moves < MaxMoves /\ a # exit[l]
  /\ exit' = [exit EXCEPT ![l] = a] /\ moves' = moves + 1
  /\ had' = IF cache # Nobody /\ Has(exit', cache.net, cache.ip) THEN clock ELSE had
  /\ UNCHANGED <<clock, place, setting, internet, probe, mail, hub, faults>>

InternetTurns ==
  /\ internet => moves < MaxMoves
  /\ internet' = ~internet /\ moves' = IF internet THEN moves + 1 ELSE moves
  /\ UNCHANGED <<clock, place, exit, setting, probe, mail, hub, faults, had>>

---------------------------------------------------------------------------
(* The hub.                                                                *)

Opened(m) == [id |-> lastId + 1, ip |-> m.ip, from |-> clock, until |-> clock]

\* ORDER BY confirmed_from, id.
Before(i, j) == i.from < j.from \/ (i.from = j.from /\ i.id < j.id)
Oldest(rows) == CHOOSE i \in rows : \A j \in rows \ {i} : Before(i, j)
Newest(rows) == CHOOSE i \in rows : \A j \in rows \ {i} : Before(j, i)

\* The row opened last is prolonged.
Prolonged(rows) == (rows \ {Newest(rows)}) \cup {[Newest(rows) EXCEPT !.until = clock]}

\* The oldest rows beyond the cap go.
Capped(rows) == {i \in rows : Cardinality({j \in rows : Before(i, j)}) < MaxIntervals}

\* A heartbeat says the address of the row opened last.
Confirms(m) == history # {} /\ Newest(history).ip = m.ip

\* A slip: a silent heartbeat confirms the last interval.
RecordedAnyway(m) ==
  IF m.ip = Nobody THEN IF history = {} THEN history ELSE Prolonged(history)
  ELSE IF Confirms(m) THEN Prolonged(history)
  ELSE Capped(history \cup {Opened(m)})

\* record_heartbeat, the history: a silent heartbeat confirms nothing, the
\* address of the row opened last extends it, another opens one, and the
\* oldest goes beyond the cap.
Recorded(m) ==
  IF m.ip = Nobody THEN history
  ELSE IF Confirms(m) THEN Prolonged(history)
  ELSE Capped(history \cup {Opened(m)})

\* heartbeat, as far as addresses go.
Takes(m) ==
  /\ history' = Recorded(m)
  /\ lastId' = IF m.ip = Nobody \/ Confirms(m) THEN lastId ELSE lastId + 1
  /\ heard' = IF m.ip = Nobody THEN heard ELSE Append(heard, [at |-> clock, ip |-> m.ip, row |-> lastId'])
  /\ observed' = m.from

\* note_observed_source: the message came from elsewhere than the one before.
ComesFromElsewhere(m) == observed \notin {Nobody, m.from}

\* A message the probe gave up arrives after all.
ArrivesLate(m) ==
  /\ mail' = mail \ {m} /\ Takes(m)
  /\ UNCHANGED <<clock, network, probe, moves, faults, had>>

\* public_ip_history_cutoff.
Cutoff == IF setting.retention > 0 THEN clock - setting.retention ELSE -1

\* purge_public_ip_history, every six hours.
PurgesHistory ==
  /\ \E i \in history : i.until < Cutoff
  /\ history' = {i \in history : i.until >= Cutoff}
  /\ UNCHANGED <<clock, network, probe, mail, observed, lastId, heard, moves, faults, had>>

---------------------------------------------------------------------------
(* The probe's loop of heartbeats.                                         *)

\* network_identity.
Identity == IF setting.chosen THEN place ELSE Undesignated

\* A slip: the name of the interface alone says whether the network changed.
NeedsByInterface(id, forced) ==
  \/ cache = Nobody
  \/ clock - cache.asked >= IF forced THEN Floor ELSE Ttl

\* needs_refresh.
NeedsRefresh(id, forced) ==
  \/ cache = Nobody
  \/ cache.net # id
  \/ clock - cache.asked >= IF forced THEN Floor ELSE Ttl

\* store: a lookup that failed keeps what was known of the same network.
\* (`failed' is of the model.)
Store(id, ip, asked) ==
  [net |-> id, asked |-> asked,
   ip |-> IF ip = Nobody /\ cache # Nobody /\ cache.net = id THEN cache.ip ELSE ip,
   failed |-> ip = Nobody]

\* A heartbeat and its answer, in less than a unit of time; or the answer is
\* lost, or the message is late and the probe gives it up.
Exchanged(m) ==
  \/ Takes(m) /\ recheck' = ComesFromElsewhere(m) /\ UNCHANGED <<mail, faults>>
  \/ /\ faults < MaxFaults /\ faults' = faults + 1 /\ UNCHANGED recheck
     /\ \/ Takes(m) /\ UNCHANGED mail
        \/ mail' = mail \cup {m} /\ UNCHANGED hub

\* The request goes out, by the interface chosen; resolve_src refuses when
\* that one has no address, and the heartbeat fails.
Sends(id, c) ==
  IF place = NoLan
  THEN sent' = Nobody /\ UNCHANGED <<recheck, mail, faults, hub>>
  ELSE /\ sent' = [ip |-> c.ip, net |-> id, failed |-> c.failed, at |-> clock,
                   from |-> IF setting.inside THEN place ELSE exit[place]]
       /\ Exchanged(sent')

\* run and beat, up to the lookup: the transition of internet is noted, and
\* the message goes at once when the cache will do.
BeginsBeat ==
  /\ asking = Nobody /\ beatDue /\ beatDue' = FALSE
  /\ wasOut' = ~internet
  /\ LET forced == recheck \/ (wasOut /\ internet)
     IN IF NeedsRefresh(Identity, forced)
        THEN asking' = [net |-> Identity, at |-> clock] /\ sent' = Nobody
             /\ UNCHANGED <<recheck, mail, faults, hub>>
        ELSE Sends(Identity, cache) /\ UNCHANGED asking
  /\ UNCHANGED <<clock, network, cache, moves, had>>

\* refresh_public_ip: nothing is asked through an interface without address,
\* and a request bound to the address of a network left behind fails.
CanAsk == internet /\ place # NoLan /\ (setting.chosen => place = asking.net)

LookupEnds ==
  /\ asking # Nobody /\ asking' = Nobody
  /\ \E ip \in {Nobody} \cup {exit[l] : l \in {place} \cap Lan} :
       /\ ip # Nobody => CanAsk
       /\ cache' = Store(asking.net, ip, asking.at)
       /\ had' = IF Has(exit, asking.net, cache'.ip) THEN clock
                 ELSE IF cache # Nobody /\ <<cache.net, cache.ip>> = <<asking.net, cache'.ip>> THEN had
                 ELSE -1
       /\ Sends(asking.net, cache')
  /\ UNCHANGED <<clock, network, wasOut, beatDue, moves>>

\* The probe stops and starts again: what it kept in memory is gone.
ProbeRestarts ==
  /\ faults < MaxFaults /\ faults' = faults + 1
  /\ cache' = Nobody /\ recheck' = FALSE /\ wasOut' = FALSE /\ asking' = Nobody
  /\ UNCHANGED <<clock, network, beatDue, mail, hub, moves, had>>

AddressNext ==
  \/ BeginsBeat \/ LookupEnds
  \/ /\ \/ Tick
        \/ \E l \in Lan \cup {NoLan} : Moves(l)
        \/ \E l \in Lan, a \in Address : Renewed(l, a)
        \/ InternetTurns
        \/ \E m \in mail : ArrivesLate(m)
        \/ PurgesHistory \/ ProbeRestarts
     /\ sent' = Nobody

---------------------------------------------------------------------------
(* What a report reads.                                                    *)

\* public_ip_history: the rows that meet a window.
IntervalsOf(from, to) == {i \in history : i.until >= from /\ i.from <= to}

\* by_public_ip: a measure goes to the oldest row that holds its second.
AddressAt(s, rows) ==
  LET holds == {i \in rows : s \in i.from..i.until}
  IN IF holds = {} THEN Nobody ELSE Oldest(holds).ip

---------------------------------------------------------------------------
(* Properties.                                                             *)

\* The probe said the same address from the i-th heartbeat heard to the j-th,
\* and the second is between them.
Says(i, j, s) ==
  /\ i <= j /\ s \in heard[i].at .. heard[j].at
  /\ \A k \in i..j : heard[k].ip = heard[i].ip

\* A heartbeat that opens an interval: another address, or the same after the
\* hub had the time to forget.
Opens(k) ==
  \/ k = 1 \/ heard[k].ip # heard[k - 1].ip
  \/ setting.retention > 0 /\ heard[k].at - heard[k - 1].at > setting.retention

\* An interval the cap and the retention leave alone.
IsKept(i, j) ==
  /\ \A k \in (i + 1)..j : ~Opens(k)
  /\ Cardinality({k \in (j + 1)..Len(heard) : Opens(k)}) < MaxIntervals
  /\ setting.retention > 0 => heard[j].at >= clock - setting.retention

\* A second is attributed to an address when two heartbeats that said it
\* surround the second and none in between said another, whatever the losses,
\* the silences and the late messages; between the last that said one address
\* and the first that said another it is nobody's ("une coupure suivie d'une
\* adresse differente n'est imputee a personne", contract section 15); and
\* what the cap and the retention spare is attributed.
AttributedWhereItWas ==
  \A s \in 0..clock :
    LET a == AddressAt(s, IntervalsOf(s, clock))
    IN /\ a # Nobody => \E i, j \in DOMAIN heard : Says(i, j, s) /\ heard[i].ip = a
       /\ (\E i, j \in DOMAIN heard : Says(i, j, s) /\ IsKept(i, j)) => a # Nobody

\* The address a heartbeat carries is one its own network had less than six
\* hours before, or had once if the lookups fail since: neither the network
\* left behind nor a choice of the default route gives it ("l'adresse de
\* l'ancien reseau n'a plus rien a voir avec le nouveau, et la garder serait
\* un mensonge", hub.rs).
BelievedIsFresh ==
  (sent # Nobody /\ sent.ip # Nobody) =>
    /\ sent.net = cache.net
    /\ had >= IF sent.failed THEN 0 ELSE sent.at - Ttl + 1
=============================================================================
