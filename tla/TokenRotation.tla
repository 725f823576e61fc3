---------------------------- MODULE TokenRotation ----------------------------
(***************************************************************************)
(* The key a probe writes measures with, and how the hub replaces it.      *)
(*                                                                         *)
(* The hub makes a key (an authorisation of the time-series database) for  *)
(* each probe.  A rotation makes another one and stages it: it travels in  *)
(* the answer to a heartbeat, and the hub destroys the previous one when a *)
(* heartbeat says that the probe holds the version staged.  A key believed *)
(* to be known to others is destroyed at once and its replacement staged.  *)
(* A new enrolment replaces the key without a version.                     *)
(*                                                                         *)
(* Every handler of the hub is cut where it releases the database or       *)
(* awaits the authorisation service; two operators and late heartbeats can *)
(* come in between.  Destroying is done with the write it follows: nobody  *)
(* refers to the key between the two.                                      *)
(***************************************************************************)
EXTENDS Integers, FiniteSets

CONSTANTS
  MaxKeys,    (* bound: keys ever made                                     *)
  MaxActs,    (* bound: requests of the operators                          *)
  MaxFaults,  (* bound: failures of the service, answers lost              *)
  Job,        (* numbered: requests of the operators under way at once     *)
  Beat,       (* numbered: heartbeats under way at once                    *)
  None        (* nothing under way                                         *)

ASSUME BoundsAssumption == {MaxKeys, MaxActs, MaxFaults} \subseteq Nat /\ MaxKeys > 0
ASSUME SlotAssumption == Job \cup Beat \subseteq Nat

\* A line of the table `probes', and what is under way of a request, of a heartbeat.
Row     == [active : Nat, version : Nat, pending : Nat, pver : Nat, revoked : BOOLEAN, token : Nat]
Kind    == {"rotate", "replace", "revoke", "enroll"}
JobRow  == [kind : Kind, key : Nat, seen : Row,
            at : {"mint", "read", "write", "revoke", "clear", "reenroll", "set", "answer"}]
BeatRow == [at : {"sent", "read", "settle", "reply", "replied"}, awaited : BOOLEAN,
            version : Nat, token : Nat, seen : Row, key : Nat, pver : Nat]

ASSUME NothingAssumption == None \notin JobRow \cup BeatRow

VARIABLES
  row,       (* hub: the probe's line of the table `probes'                *)
  live,      (* the keys the database accepts                              *)
  minted,    (* how many keys were made                                    *)
  job,       (* the operators' requests under way                          *)
  beat,      (* the heartbeats under way                                   *)
  probe,     (* the key the probe holds, its version, its probe token      *)
  acts, faults,
  (* For the properties.                                                   *)
  withdrawn, (* keys withdrawn from the probe on purpose                   *)
  strays,    (* keys that a failure left accepted, and that nobody is told of *)
  disorder   (* a rotation crossed another one, or another handler         *)

ghosts == <<withdrawn, strays, disorder>>
vars == <<row, live, minted, job, beat, probe, acts, faults, ghosts>>

\* A probe with its first key.
FirstRow == [active |-> 1, version |-> 1, pending |-> 0, pver |-> 0,
             revoked |-> FALSE, token |-> 0]

Init ==
  /\ row = FirstRow
  /\ live = {1} /\ minted = 1
  /\ job = [j \in Job |-> None] /\ beat = [b \in Beat |-> None]
  /\ probe = [key |-> 1, version |-> 0, token |-> 0]
  /\ acts = MaxActs /\ faults = MaxFaults
  /\ withdrawn = {} /\ strays = {} /\ disorder = FALSE

\* Requests, and heartbeats, are alike: a new one takes the first free number.
FirstFree(slots, n) == slots[n] = None /\ \A i \in DOMAIN slots : slots[i] = None => n <= i

Fault == faults > 0 /\ faults' = faults - 1

\* delete_authorization: a failure is logged and forgotten.
Destroys(key) ==
  \/ live' = live \ {key} /\ UNCHANGED <<faults, strays>>
  \/ Fault /\ key \in live /\ strays' = strays \cup {key} /\ UNCHANGED live

-----------------------------------------------------------------------------
(* The operators' requests.  `seen' is the row as a handler last read it,  *)
(* FirstRow as long as it goes by none.                                    *)

At(j, step)   == job[j] # None /\ job[j].at = step
Does(j, kind) == job[j] # None /\ job[j].kind = kind
Ends(j)       == job' = [job EXCEPT ![j] = None]

FirstStep(kind) == IF kind = "revoke" THEN "revoke" ELSE IF kind = "enroll" THEN "clear" ELSE "mint"

\* The probe waits for the answer to an enrolment before it asks for another.
Begins(j, kind) ==
  /\ FirstFree(job, j) /\ acts > 0 /\ acts' = acts - 1
  /\ kind = "enroll" => \A i \in Job : ~Does(i, "enroll")
  /\ job' = [job EXCEPT ![j] = [kind |-> kind, at |-> FirstStep(kind), key |-> 0,
                                seen |-> IF kind = "revoke" THEN row ELSE FirstRow]]
  /\ UNCHANGED <<row, live, minted, beat, probe, faults, ghosts>>

\* mint_write_token.  Without a key the request fails there: an enrolment has
\* already replaced the probe's token.  The service may have made the key and
\* its answer be lost.
Mints(j) ==
  /\ At(j, "mint")
  /\ \/ Fault /\ Ends(j) /\ UNCHANGED <<live, minted, strays>>
     \/ /\ minted < MaxKeys /\ minted' = minted + 1
        /\ live' = live \cup {minted'}
        /\ \/ /\ job' = [job EXCEPT ![j].key = minted',
                                    ![j].at  = IF Does(j, "enroll") THEN "set" ELSE "read"]
              /\ UNCHANGED <<faults, strays>>
           \/ Fault /\ Ends(j) /\ strays' = strays \cup {minted'}
  /\ UNCHANGED <<row, beat, probe, acts, withdrawn, disorder>>

\* get_probe, before the write that goes by what it returned.
ReadsRow(j) ==
  /\ At(j, "read")
  /\ job' = [job EXCEPT ![j].seen = row, ![j].at = "write"]
  /\ UNCHANGED <<row, live, minted, beat, probe, acts, faults, ghosts>>

\* A slip: the version is not incremented.
NextVersionUnchanged(seen) == seen.version

NextVersion(seen) == seen.version + 1

\* Whether a write undoes or repeats something its author did not know of.
Crosses(seen) == row # seen \/ row.pending # 0

\* stage_token_rotation: the previous key stays active.
Stages(j) ==
  /\ At(j, "write") /\ Does(j, "rotate")
  /\ row' = [row EXCEPT !.pending = job[j].key, !.pver = NextVersion(job[j].seen)]
  /\ disorder' = (disorder \/ Crosses(job[j].seen))
  /\ Ends(j)
  /\ UNCHANGED <<live, minted, beat, probe, acts, faults, withdrawn, strays>>

\* replace_token_immediately, then the key it retired is destroyed.
Replaces(j) ==
  /\ At(j, "write") /\ Does(j, "replace")
  /\ row' = [row EXCEPT !.active = 0, !.pending = job[j].key,
                        !.pver = NextVersion(job[j].seen)]
  /\ Destroys(job[j].seen.active)
  /\ disorder' = (disorder \/ Crosses(job[j].seen))
  /\ withdrawn' = withdrawn \cup {job[j].seen.active}
  /\ Ends(j)
  /\ UNCHANGED <<minted, beat, probe, acts>>

\* revoke_probe: refused if it is done already.
Revokes(j) ==
  /\ At(j, "revoke")
  /\ Ends(j)
  /\ IF row.revoked THEN UNCHANGED <<row, live, faults, ghosts>>
     ELSE /\ row' = [row EXCEPT !.revoked = TRUE]
          /\ Destroys(job[j].seen.active)
          /\ disorder' = (disorder \/ row # job[j].seen)
          /\ withdrawn' = withdrawn \cup {job[j].seen.active}
  /\ UNCHANGED <<minted, beat, probe, acts>>

\* A slip: the previous key is left alone.
ClearsNothing(j) ==
  /\ At(j, "clear")
  /\ withdrawn' = withdrawn \cup {row.active}
  /\ job' = [job EXCEPT ![j].seen = row, ![j].at = "reenroll"]
  /\ UNCHANGED <<row, live, minted, beat, probe, acts, faults, strays, disorder>>

\* enroll, of a probe the hub knows: destroy its key, give it another probe
\* token, make a key, note it, and answer.
Clears(j) ==
  /\ At(j, "clear")
  /\ Destroys(row.active)
  /\ withdrawn' = withdrawn \cup {row.active}
  /\ job' = [job EXCEPT ![j].seen = row, ![j].at = "reenroll"]
  /\ UNCHANGED <<row, minted, beat, probe, acts, disorder>>

Reenrolls(j) ==
  /\ At(j, "reenroll")
  /\ row' = [row EXCEPT !.token = @ + 1, !.revoked = FALSE]
  /\ disorder' = (disorder \/ row # job[j].seen)
  /\ job' = [job EXCEPT ![j].seen = row', ![j].at = "mint"]
  /\ UNCHANGED <<live, minted, beat, probe, acts, faults, withdrawn, strays>>

\* set_probe_influx_auth.
Sets(j) ==
  /\ At(j, "set")
  /\ row' = [row EXCEPT !.active = job[j].key]
  /\ disorder' = (disorder \/ row # job[j].seen)
  /\ job' = [job EXCEPT ![j].at = "answer"]
  /\ UNCHANGED <<live, minted, beat, probe, acts, faults, withdrawn, strays>>

\* The answer to the enrolment carries no version: the probe takes it as 0.
Enrolled(j) ==
  /\ At(j, "answer")
  /\ Ends(j)
  /\ \/ /\ probe' = [key |-> job[j].key, version |-> 0, token |-> job[j].seen.token]
        /\ UNCHANGED faults
     \/ Fault /\ UNCHANGED probe
  /\ UNCHANGED <<row, live, minted, beat, acts, ghosts>>

\* A request that made a key, and has not noted it yet.
Holding(j) == job[j] # None /\ job[j].at \in {"read", "write", "set"}

\* The request fails on the way, an access to the base or the caller being lost:
\* what it did stays, and the key it made, if it has one, is told to nobody.
Abandons(j) ==
  /\ job[j] # None /\ Fault
  /\ strays' = strays \cup IF Holding(j) THEN {job[j].key} ELSE {}
  /\ Ends(j)
  /\ UNCHANGED <<row, live, minted, beat, probe, acts, withdrawn, disorder>>

-----------------------------------------------------------------------------
(* Heartbeats.                                                             *)

BeatAt(b, step) == beat[b] # None /\ beat[b].at = step
Awaiting(b)     == beat[b] # None /\ beat[b].awaited
BeatEnds(b)     == beat' = [beat EXCEPT ![b] = None]

Sends(b) ==
  /\ FirstFree(beat, b) /\ \A c \in Beat : ~Awaiting(c)
  /\ beat' = [beat EXCEPT ![b] =
       [at |-> "sent", awaited |-> TRUE, version |-> probe.version, token |-> probe.token,
        seen |-> FirstRow, key |-> 0, pver |-> 0]]
  /\ UNCHANGED <<row, live, minted, job, probe, acts, faults, ghosts>>

\* A slip: any heartbeat settles the rotation that waits.
SettlesAny(version) == row.pver # 0

\* acknowledge_token_version: only the version staged is settled.
Settles(version) == row.pver # 0 /\ row.pver = version

\* authenticate_probe.
Authenticates(b) ==
  /\ BeatAt(b, "sent")
  /\ IF row.revoked \/ beat[b].token # row.token THEN BeatEnds(b)
     ELSE beat' = [beat EXCEPT ![b].at = "read"]
  /\ UNCHANGED <<row, live, minted, job, probe, acts, faults, ghosts>>

\* The read of acknowledge_token_version.
ReadsVersion(b) ==
  /\ BeatAt(b, "read")
  /\ IF Settles(beat[b].version)
     THEN beat' = [beat EXCEPT ![b].seen = row, ![b].at = "settle"]
     ELSE beat' = [beat EXCEPT ![b].at = "reply"]
  /\ disorder' = (disorder \/ beat[b].token # row.token)
  /\ UNCHANGED <<row, live, minted, job, probe, acts, faults, withdrawn, strays>>

\* Its write: what is pending by then becomes active, and the key that was
\* active when it read is destroyed.
Promotes(b) ==
  /\ BeatAt(b, "settle")
  /\ row' = [row EXCEPT !.active = row.pending, !.version = beat[b].version,
                        !.pending = 0, !.pver = 0]
  /\ Destroys(beat[b].seen.active)
  /\ disorder' = (disorder \/ row # beat[b].seen)
  /\ beat' = [beat EXCEPT ![b].at = "reply", ![b].seen = FirstRow]
  /\ UNCHANGED <<minted, job, probe, acts, withdrawn>>

\* The row is read again: the key staged goes with the answer.
Replies(b) ==
  /\ BeatAt(b, "reply")
  /\ IF beat[b].awaited
     THEN beat' = [beat EXCEPT ![b].at = "replied", ![b].key = row.pending, ![b].pver = row.pver]
     ELSE BeatEnds(b)
  /\ UNCHANGED <<row, live, minted, job, probe, acts, faults, ghosts>>

\* A slip: the probe waits for a version further than the next.
IsNewerByTwo(version) == version > probe.version + 1

IsNewer(version) == version > probe.version

\* apply (the key is saved before it is announced, see ProbeConfig).
Applies(b) ==
  /\ BeatAt(b, "replied")
  /\ BeatEnds(b)
  /\ IF IsNewer(beat[b].pver)
     THEN probe' = [probe EXCEPT !.key = beat[b].key, !.version = beat[b].pver]
     ELSE UNCHANGED probe
  /\ UNCHANGED <<row, live, minted, job, acts, faults, ghosts>>

\* The probe gives up waiting; the hub may handle the heartbeat later.
GivesUp(b) ==
  /\ Awaiting(b) /\ Fault
  /\ IF beat[b].at = "replied" THEN BeatEnds(b)
     ELSE beat' = [beat EXCEPT ![b].awaited = FALSE]
  /\ UNCHANGED <<row, live, minted, job, probe, acts, ghosts>>

-----------------------------------------------------------------------------
JobSteps(j) ==
  \/ Mints(j) \/ ReadsRow(j) \/ Stages(j) \/ Replaces(j) \/ Revokes(j)
  \/ Clears(j) \/ Reenrolls(j) \/ Sets(j) \/ Enrolled(j)
BeatSteps(b) == Authenticates(b) \/ ReadsVersion(b) \/ Promotes(b) \/ Replies(b) \/ Applies(b)

Next ==
  \/ \E j \in Job, kind \in Kind : Begins(j, kind)
  \/ \E j \in Job : JobSteps(j) \/ Abandons(j)
  \/ \E b \in Beat : Sends(b) \/ BeatSteps(b) \/ GivesUp(b)

Spec == Init /\ [][Next]_vars

\* The hub answers, and the probe goes on beating.
Fairness ==
  /\ \A j \in Job : WF_vars(JobSteps(j))
  /\ \A b \in Beat : WF_vars(BeatSteps(b))
  /\ WF_vars(\E b \in Beat : Sends(b))

FairSpec == Spec /\ Fairness

-----------------------------------------------------------------------------
(* Properties.                                                             *)

\* Rotations came one at a time: none was staged over one that waited, no
\* handler wrote over a row changed since it had read it, and no heartbeat
\* went on with a probe token replaced since it was let in.
Orderly == ~disorder

\* A probe is never cut by a rotation: unless somebody withdrew its key on
\* purpose, the key it holds is accepted (stage_token_rotation, `detruire avant
\* l'accuse couperait toute sonde eteinte au mauvais moment').
KeyWorks == Orderly /\ probe.key \notin withdrawn => probe.key \in live

\* No key is left behind but by a failure: each one the database accepts is noted
\* by the hub, or about to be, so that it can be destroyed, unless destroying it
\* failed, or the request that made it did before it could note it.
EveryKeyIsNoted ==
  Orderly => live \ strays \subseteq
    {row.active, row.pending} \cup {job[j].key : j \in {i \in Job : job[i] # None}}

\* The key the hub makes active on the probe's word is the one the probe holds
\* (heartbeat, `le seul moment ou l'ancienne autorisation peut etre detruite').
Promotion == row.pending # 0 /\ row'.pending = 0
OrderlyPromotedIsHeld == [][Promotion /\ ~disorder' => probe.key = row'.active]_vars

\* A rotation ends: the probe and the hub come to agree on the key, if the
\* probe stays enrolled and the rotations come one at a time.
Enlisted == ~row.revoked /\ probe.token = row.token
KeySettles ==
  <>[](Enlisted /\ Orderly) => <>[](row.pending = 0 /\ probe.key = row.active)
=============================================================================
