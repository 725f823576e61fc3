------------------------------ MODULE Packages ------------------------------
(***************************************************************************)
(* The installers of the probe the hub keeps (packages.rs): fetched from   *)
(* the last release, written beside and renamed, offered to the operators, *)
(* and purged but for the last versions.                                   *)
(*                                                                         *)
(* One platform.  A version has a directory, with a file, the one offered, *)
(* and the part a fetch writes first; two fetches of one version write the *)
(* same part.  What a file holds is "whole", "cut", or the fetch that has  *)
(* opened it last and has not written it all.  An asset that is not signed *)
(* or whose signature is wrong is refused before anything is written.      *)
(***************************************************************************)
EXTENDS HubBase

CONSTANTS
  Fetch,
  MaxVersion,      (* bound: releases                                       *)
  KeepVersions     (* package_keep_versions                                 *)

Version == 1..MaxVersion
Slot    == {"part", "file"}
Held == {None, "whole", "cut"} \cup Fetch
Folder  == [Slot -> Held]
Underway == [version : Version, at : {"download", "write", "adrift", "rename", "clean", "purge"}]

ASSUME PackagesAssumption ==
  /\ MaxVersion \in Nat \ {0} /\ KeepVersions \in Int
  /\ Fetch \cap {None, "whole", "cut"} = {} /\ None \notin {"whole", "cut"}
  /\ None \notin Folder \cup Underway

VARIABLES
  released,    (* the last release, that of which the assets are fetched    *)
  cache,       (* the directories of the volume                             *)
  fetching,    (* each fetch under way                                      *)
  (* For the properties.                                                   *)
  met          (* two fetches of one version were under way together        *)

packages == <<released, cache, fetching, met>>

NoFiles == [s \in Slot |-> None]

PackagesInit ==
  /\ released = 1 /\ met = FALSE
  /\ cache = [v \in Version |-> None] /\ fetching = [f \in Fetch |-> None]

Put(v, s, x) == cache' = [cache EXCEPT ![v][s] = x]
StepTo(f, step) == fetching' = [fetching EXCEPT ![f].at = step]
At(f, steps) == fetching[f] # None /\ fetching[f].at \in steps
Ends(f) == fetching' = [fetching EXCEPT ![f] = None]

\* What fetch f writes becomes x, wherever its file is by now.
Becomes(f, x) ==
  cache' = [v \in Version |-> IF cache[v] = None THEN None
              ELSE [s \in Slot |-> IF cache[v][s] = f THEN x ELSE cache[v][s]]]

Publishes ==
  /\ Happens("package") /\ released < MaxVersion /\ released' = released + 1
  /\ UNCHANGED <<tables, stale, now, cache, fetching, met>>

-----------------------------------------------------------------------------
(* fetch_package, from one await to the next.                              *)

\* The release is read, then the asset and its signature are waited for.
Asks(f) ==
  /\ Happens("package") /\ fetching[f] = None
  /\ fetching' = [fetching EXCEPT ![f] = [version |-> released, at |-> "download"]]
  /\ met' = (met \/ \E g \in Fetch : fetching[g] # None /\ fetching[g].version = released)
  /\ UNCHANGED <<tables, stale, now, released, cache>>

\* No answer, or no valid signature.
Refused(f) ==
  /\ At(f, {"download"}) /\ Ends(f) /\ UNCHANGED <<hub, released, cache, met>>

\* The directory is made, and the part opened: what another wrote there is gone.
OpensPart(f) ==
  LET v == fetching[f].version IN
  /\ At(f, {"download"}) /\ StepTo(f, "write")
  /\ cache' = [cache EXCEPT ![v] = [IF @ = None THEN NoFiles ELSE @ EXCEPT !.part = f]]
  /\ UNCHANGED <<hub, released, met>>

\* A slip: an error of the disk goes unnoticed.
RenamesAnyway(f) == StepTo(f, "rename")

Abandons(f) == Ends(f)

\* A fetch whose caller has left writes to the end, and goes no further.
WritesPart(f) ==
  /\ At(f, {"write", "adrift"}) /\ Becomes(f, "whole")
  /\ IF fetching[f].at = "write" THEN StepTo(f, "rename") ELSE Ends(f)
  /\ UNCHANGED <<hub, released, met>>

FailsPart(f) ==
  /\ Happens("package") /\ At(f, {"write", "adrift"}) /\ Becomes(f, "cut")
  /\ Abandons(f)
  /\ UNCHANGED <<tables, stale, now, released, met>>

\* The part is there, unless a purge or the other fetch has taken it.
Renames(f) ==
  LET v == fetching[f].version
      there == cache[v] # None /\ cache[v].part # None IN
  /\ At(f, {"rename"})
  /\ IF there
       THEN /\ cache' = [cache EXCEPT ![v] = [part |-> None, file |-> @.part]]
            /\ StepTo(f, "purge")
       ELSE StepTo(f, "clean") /\ UNCHANGED cache
  /\ UNCHANGED <<hub, released, met>>

\* The rename failed: the part that is there now is removed, whosever it is.
Cleans(f) ==
  LET v == fetching[f].version IN
  /\ At(f, {"clean"}) /\ Ends(f)
  /\ IF cache[v] = None THEN UNCHANGED cache ELSE Put(v, "part", None)
  /\ UNCHANGED <<hub, released, met>>

\* The caller leaves: the steps that are left are not taken, but for a writing
\* that has begun.
CallerLeaves(f) ==
  /\ Happens("package") /\ At(f, {"download", "write", "rename"})
  /\ IF fetching[f].at = "write" THEN StepTo(f, "adrift") ELSE Ends(f)
  /\ UNCHANGED <<tables, stale, now, released, cache, met>>

-----------------------------------------------------------------------------
\* purge_cached_packages: versions are counted by their directories, whatever
\* is in them; one at least is kept.
Present == {v \in Version : cache[v] # None}
Newest  == {v \in Present : Cardinality({w \in Present : w > v})
              < IF KeepVersions < 1 THEN 1 ELSE KeepVersions}

Purged == cache' = [v \in Version |-> IF v \in Newest THEN cache[v] ELSE None]

PurgesAfter(f) == At(f, {"purge"}) /\ Purged /\ Ends(f) /\ UNCHANGED <<hub, released, met>>

\* The loop of main, every six hours.
PurgesDaily ==
  /\ Happens("package") /\ Purged
  /\ UNCHANGED <<tables, stale, now, released, fetching, met>>

\* The hub stops: what was being written is cut.
PackagesRestart ==
  /\ cache' = [v \in Version |-> IF cache[v] = None THEN None
       ELSE [s \in Slot |-> IF cache[v][s] \in Fetch THEN "cut" ELSE cache[v][s]]]
  /\ fetching' = [f \in Fetch |-> None] /\ UNCHANGED <<released, met>>

PackagesStep ==
  \/ Publishes \/ PurgesDaily
  \/ \E f \in Fetch : \/ Asks(f) \/ Refused(f) \/ OpensPart(f) \/ WritesPart(f) \/ FailsPart(f)
                      \/ Renames(f) \/ Cleans(f) \/ CallerLeaves(f) \/ PurgesAfter(f)

\* cached_packages: what an operator is offered, of which he gets the last;
\* a part is not.
Cached == {v \in Present : cache[v].file # None}

-----------------------------------------------------------------------------
(* Properties.                                                             *)

\* An installer the hub offers is whole, whatever failed, was interrupted or was
\* purged ("jamais un installeur tronque qui s'ouvre", packages.rs:413), as long
\* as no two fetches of one version are under way together.
OfferedIsWhole ==
  ~met => \A v \in Cached : cache[v].file = "whole"
=============================================================================
