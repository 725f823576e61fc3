------------------------------- MODULE Fleet --------------------------------
(***************************************************************************)
(* The fleet as the hub keeps it: sites, their probes, the codes that      *)
(* enrol a machine or repair a probe, and the accounts restricted to some  *)
(* sites.  Several operators work at once and machines enrol meanwhile.    *)
(*                                                                         *)
(* A request is let in once: who asks, his scope and the site or probe the *)
(* path names are looked at first.  It is cut where it releases the        *)
(* database.  A site and its name are one here, as the name is unique; a   *)
(* site deleted leaves nothing that refers to it, foreign keys see to that.*)
(* Keys of the time series are in TokenRotation.                           *)
(***************************************************************************)
EXTENDS Integers, FiniteSets

CONSTANTS
  User,      (* operators                                                  *)
  Site, Probe, Name, Code,
  Machine,   (* machines that enrol                                        *)
  Request,   (* requests that can be under way at once                     *)
  MaxActs,   (* bound: requests ever begun                                 *)
  None

\* The rows of the tables, and what is under way of a request.
ProbeRow == [site : Site, name : Name, archived : BOOLEAN, revoked : BOOLEAN,
             holder : Machine \cup {None}]
CodeRow  == [site : Site, probe : Probe \cup {None}, is : {"open", "late", "used"}]

OnSite  == {"archive site", "unarchive site", "delete site", "issue"}
OnProbe == {"read archive", "read unarchive", "read revoke", "read repair"}
Writing == {"write", "write archive", "write unarchive", "write repair"}

SiteRequest   == [at : OnSite, site : Site, scope : SUBSET Site]
ScopeRequest  == [at : {"scope"}, user : User, sites : SUBSET Site, scope : {{}}]
ProbeRequest  == [at : OnProbe \cup Writing \cup {"target", "read"}, probe : Probe,
                  name : Name \cup {None}, to : Site \cup {None}, scope : SUBSET Site,
                  from : Site, row : ProbeRow \cup {None}]
EnrolRequest  == [at : {"make site", "name", "repair"}, machine : Machine, scope : SUBSET Site,
                  code : Code \cup {None}, site : Site, probe : Probe \cup {None}]
InsertRequest == [at : {"insert"}, machine : Machine, scope : SUBSET Site,
                  code : Code \cup {None}, site : Site, name : Name]

ASSUME FleetAssumption ==
  /\ MaxActs \in Nat
  /\ None \notin Site \cup Probe \cup Name \cup Machine \cup Code \cup {"kept", "archived"}
  /\ None \notin ProbeRow \cup CodeRow
  /\ None \notin SiteRequest \cup ScopeRequest \cup ProbeRequest \cup EnrolRequest \cup InsertRequest

VARIABLES
  site,      (* table sites: kept or archived                              *)
  probe,     (* table probes                                               *)
  code,      (* table enroll_codes                                         *)
  scope,     (* table user_sites: no site stands for every site            *)
  req, acts,
  (* For the properties.                                                   *)
  gained,    (* codes and the machines whose row they wrote                *)
  outside,   (* how requests wrote what was not in the scope they came with *)
  strayed    (* probes put into a site that was archived, or brought back  *)
             (* while they were moved into one                             *)

tables == <<site, probe, code, scope>>
seen   == <<gained, outside, strayed>>
vars   == <<tables, req, acts, seen>>

Sites     == {s \in Site : site[s] # None}
Probes    == {p \in Probe : probe[p] # None}
ProbesOf(s) == {p \in Probes : probe[p].site = s}

\* Two sites, a probe in one of them; operators restricted to it or not.
Init ==
  /\ \E a, b \in Site, p \in Probe, n \in Name :
       /\ a # b
       /\ site = [s \in Site |-> IF s \in {a, b} THEN "kept" ELSE None]
       /\ probe = [x \in Probe |-> IF x = p
            THEN [site |-> a, name |-> n, archived |-> FALSE, revoked |-> FALSE, holder |-> None]
            ELSE None]
       /\ scope \in [User -> {{}, {a}}]
  /\ code = [c \in Code |-> None]
  /\ req = [r \in Request |-> None] /\ acts = MaxActs
  /\ gained = {} /\ outside = {} /\ strayed = {}

At(r, step) == req[r] # None /\ req[r].at = step
Ends(r)     == req' = [req EXCEPT ![r] = None]
Begins(r, what) ==
  /\ req[r] = None /\ acts > 0 /\ acts' = acts - 1
  /\ req' = [req EXCEPT ![r] = what]
  /\ UNCHANGED seen

\* Scope::allows
Allows(sites, s) == sites = {} \/ s \in sites

\* Request r touches some sites: whether they are in the scope it came with, and
\* if not, how it came to touch them.
Touches(r, sites, how) ==
  outside' = outside \cup IF \E s \in sites : ~Allows(req[r].scope, s) THEN {how} ELSE {}

\* The probe is not, or was not when it was read, where the request found it when
\* it was let in.
Moved(r) ==
  \/ probe[req[r].probe].site # req[r].from
  \/ req[r].row # None /\ req[r].row.site # req[r].from

TouchesProbe(r, sites) == Touches(r, sites, IF Moved(r) THEN "moved" ELSE "otherwise")

-----------------------------------------------------------------------------
(* Sites.                                                                  *)

CreatesSite(s) ==
  /\ acts > 0 /\ acts' = acts - 1 /\ site[s] = None
  /\ site' = [site EXCEPT ![s] = "kept"]
  /\ UNCHANGED <<probe, code, scope, req, seen>>

\* site_scope_guard
AsksSite(r, u, s, what) ==
  /\ s \in Sites /\ Allows(scope[u], s)
  /\ Begins(r, [at |-> what, site |-> s, scope |-> scope[u]])
  /\ UNCHANGED tables

\* The probes of a site follow it, whatever each was.
Followed(s, archived) ==
  [p \in Probe |-> IF p \in ProbesOf(s) THEN [probe[p] EXCEPT !.archived = archived] ELSE probe[p]]

\* set_site_archived
ArchivesSite(r) ==
  \E archived \in BOOLEAN :
    LET s == req[r].site IN
    /\ At(r, IF archived THEN "archive site" ELSE "unarchive site")
    /\ site' = [site EXCEPT ![s] = IF @ = None THEN None ELSE IF archived THEN "archived" ELSE "kept"]
    /\ probe' = Followed(s, archived)
    /\ strayed' = strayed \ ProbesOf(s)
    /\ Touches(r, {s}, "otherwise") /\ Ends(r)
    /\ UNCHANGED <<code, scope, acts, gained>>

\* delete_site.  A row that refers to the site has it refused; the scopes that
\* name it lose it.
DeletesSite(r) ==
  LET s == req[r].site IN
  /\ At(r, "delete site")
  /\ IF ProbesOf(s) = {} /\ ~\E c \in Code : code[c] # None /\ code[c].site = s
       THEN /\ site' = [site EXCEPT ![s] = None]
            /\ scope' = [u \in User |-> scope[u] \ {s}]
            /\ Touches(r, {s}, "otherwise")
       ELSE UNCHANGED <<site, scope, outside>>
  /\ Ends(r) /\ UNCHANGED <<probe, code, acts, gained, strayed>>

\* set_user_sites, by an administrator: the sites are looked at one by one, then
\* replaced; a foreign key refuses the whole.
AsksScope(r, u, sites) ==
  /\ sites \subseteq Sites
  /\ Begins(r, [at |-> "scope", user |-> u, sites |-> sites, scope |-> {}])
  /\ UNCHANGED tables

ReplacesScope(r) ==
  /\ At(r, "scope")
  /\ scope' = IF req[r].sites \subseteq Sites
                THEN [scope EXCEPT ![req[r].user] = req[r].sites] ELSE scope
  /\ Ends(r) /\ UNCHANGED <<site, probe, code, acts, seen>>

-----------------------------------------------------------------------------
(* Probes.                                                                 *)

\* probe_scope_guard; a move also has the site it goes to looked at.
AsksProbe(r, u, p, what, name, to) ==
  /\ p \in Probes /\ Allows(scope[u], probe[p].site)
  /\ Begins(r, [at |-> what, probe |-> p, name |-> name, to |-> to, scope |-> scope[u],
                from |-> probe[p].site, row |-> None])
  /\ UNCHANGED tables

\* A slip: the site a probe goes to is not looked at.
NotLookedAt(r) == TRUE

MayGoTo(r) == req[r].to = None \/ (req[r].to \in Sites /\ Allows(req[r].scope, req[r].to))

LooksAtTarget(r) ==
  /\ At(r, "target") /\ IF MayGoTo(r) THEN req' = [req EXCEPT ![r].at = "read"] ELSE Ends(r)
  /\ UNCHANGED <<tables, acts, seen>>

\* update_probe reads the row: what the request leaves out is written back.
\* archive_probe reads its site, and so does create_reenroll_code.
WriteAfter == [at \in {"read", "read archive", "read unarchive", "read repair"} |->
  CASE at = "read"           -> "write"
    [] at = "read archive"   -> "write archive"
    [] at = "read unarchive" -> "write unarchive"
    [] at = "read repair"    -> "write repair"]

ReadsProbe(r) ==
  /\ req[r] # None /\ req[r].at \in DOMAIN WriteAfter
  /\ req' = [req EXCEPT ![r].at = WriteAfter[@], ![r].row = probe[req[r].probe]]
  /\ UNCHANGED <<tables, acts, seen>>

Given(x, y) == IF x = None THEN y ELSE x

\* The site must exist, and no other probe of it have the name.
Fits(p, s, n) == s \in Sites /\ ~\E q \in ProbesOf(s) \ {p} : probe[q].name = n

UpdatesProbe(r) ==
  LET p == req[r].probe
      n == Given(req[r].name, req[r].row.name)
      s == Given(req[r].to, req[r].row.site) IN
  /\ At(r, "write")
  /\ IF Fits(p, s, n)
       THEN /\ probe' = [probe EXCEPT ![p].name = n, ![p].site = s]
            /\ TouchesProbe(r, {probe[p].site, s})
            /\ strayed' = IF site[s] = "archived" /\ ~probe[p].archived
                            THEN strayed \cup {p} ELSE strayed \ {p}
       ELSE UNCHANGED <<probe, outside, strayed>>
  /\ Ends(r) /\ UNCHANGED <<site, code, scope, acts, gained>>

\* A slip: the site stays archived.
StaysArchived(s) == site

\* A probe that comes back brings its site back.
Brought(s) == [site EXCEPT ![s] = IF @ = None THEN None ELSE "kept"]

\* set_probe_archived
ArchivesProbe(r) ==
  \E archived \in BOOLEAN :
    LET p == req[r].probe IN
    /\ At(r, IF archived THEN "write archive" ELSE "write unarchive")
    /\ probe' = [probe EXCEPT ![p].archived = archived]
    /\ site' = IF archived THEN site ELSE Brought(req[r].row.site)
    /\ strayed' = IF archived THEN strayed \ {p}
                  ELSE IF Moved(r) /\ site'[probe[p].site] = "archived" THEN strayed \cup {p}
                  ELSE strayed
    /\ TouchesProbe(r, {probe[p].site} \cup IF archived THEN {} ELSE {req[r].row.site})
    /\ Ends(r) /\ UNCHANGED <<code, scope, acts, gained>>

\* revoke_probe: at once for the probe, whatever becomes of the key.
RevokesProbe(r) ==
  /\ At(r, "read revoke")
  /\ probe' = [probe EXCEPT ![req[r].probe].revoked = TRUE]
  /\ TouchesProbe(r, {probe[req[r].probe].site}) /\ Ends(r)
  /\ UNCHANGED <<site, code, scope, acts, gained, strayed>>

-----------------------------------------------------------------------------
(* Codes.                                                                  *)

InsertsCode(c, s, p) ==
  code' = [code EXCEPT ![c] = [site |-> s, probe |-> p, is |-> "open"]]

\* create_enroll_code
IssuesCode(r, c) ==
  LET s == req[r].site IN
  /\ At(r, "issue") /\ code[c] = None
  /\ IF s \in Sites THEN InsertsCode(c, s, None) /\ Touches(r, {s}, "otherwise")
                    ELSE UNCHANGED <<code, outside>>
  /\ Ends(r) /\ UNCHANGED <<site, probe, scope, acts, gained, strayed>>

\* create_reenroll_code: the code keeps the site the probe had when it was read,
\* if it is still there.
IssuesRepair(r, c) ==
  LET s == req[r].row.site IN
  /\ At(r, "write repair") /\ code[c] = None
  /\ IF s \in Sites THEN InsertsCode(c, s, req[r].probe) /\ TouchesProbe(r, {s})
                    ELSE UNCHANGED <<code, outside>>
  /\ Ends(r) /\ UNCHANGED <<site, probe, scope, acts, gained, strayed>>

CanBePresented(c) == code[c] # None /\ code[c].is = "open"

LapsesCode(c) ==
  /\ CanBePresented(c) /\ code' = [code EXCEPT ![c].is = "late"]
  /\ UNCHANGED <<site, probe, scope, req, acts, seen>>

-----------------------------------------------------------------------------
(* Enrolment.                                                              *)

\* A slip: the code is marked when the machine has been let in.
MarkedLater(c) == code

Consumed(c) == [code EXCEPT ![c].is = "used"]

\* consume_enroll_code: the reading and the mark are one transaction.
Presents(r, m, c) ==
  /\ CanBePresented(c) /\ code' = Consumed(c)
  /\ Begins(r, [at |-> IF code[c].probe = None THEN "name" ELSE "repair",
                machine |-> m, scope |-> {}, code |-> c,
                site |-> code[c].site, probe |-> code[c].probe])
  /\ UNCHANGED <<site, probe, scope>>

\* With the name and password of an operator: the site is found by its name, or
\* made.  Nothing looks at the operator's scope.
EnrolsByName(r, u, m, s) ==
  /\ Begins(r, [at |-> IF s \in Sites THEN "name" ELSE "make site",
                machine |-> m, scope |-> scope[u], code |-> None, site |-> s, probe |-> None])
  /\ UNCHANGED tables

MakesSite(r) ==
  LET s == req[r].site IN
  /\ At(r, "make site")
  /\ IF s \in Sites
       THEN Ends(r) /\ UNCHANGED site
       ELSE site' = [site EXCEPT ![s] = "kept"] /\ req' = [req EXCEPT ![r].at = "name"]
  /\ UNCHANGED <<probe, code, scope, acts, seen>>

\* The name the machine gives, or the first one free in the list of the site.
ChoosesName(r, n) ==
  /\ At(r, "name")
  /\ req' = [req EXCEPT ![r] = [at |-> "insert", machine |-> @.machine, scope |-> @.scope,
                                code |-> @.code, site |-> @.site, name |-> n]]
  /\ UNCHANGED <<tables, acts, seen>>

\* The key may not be made: the row is there, and the machine has no token.
Answered(m) == {m, None}

Gains(r) ==
  gained' = IF req[r].code = None THEN gained ELSE gained \cup {<<req[r].code, req[r].machine>>}

\* enroll_probe.  A name taken, or a site gone: the code is spent all the same.
InsertsProbe(r, p) ==
  LET s == req[r].site IN
  /\ At(r, "insert") /\ probe[p] = None
  /\ IF Fits(p, s, req[r].name)
       THEN /\ \E m \in Answered(req[r].machine) :
                 probe' = [probe EXCEPT ![p] = [site |-> s, name |-> req[r].name,
                             archived |-> FALSE, revoked |-> FALSE, holder |-> m]]
            /\ strayed' = IF site[s] = "archived" THEN strayed \cup {p} ELSE strayed
            /\ Gains(r) /\ Touches(r, {s}, "by name")
       ELSE UNCHANGED <<probe, strayed, gained, outside>>
  /\ Ends(r) /\ UNCHANGED <<site, code, scope, acts>>

\* reenroll_probe: a new token, the revocation lifted, all the rest kept.
Repairs(r) ==
  /\ At(r, "repair")
  /\ \E m \in Answered(req[r].machine) :
       probe' = [probe EXCEPT ![req[r].probe].revoked = FALSE, ![req[r].probe].holder = m]
  /\ Gains(r) /\ Ends(r)
  /\ UNCHANGED <<site, code, scope, acts, outside, strayed>>

\* Requests are lost with the process.
Restarts ==
  /\ acts > 0 /\ acts' = acts - 1 /\ req' = [r \in Request |-> None]
  /\ UNCHANGED <<tables, seen>>

Next ==
  \/ \E s \in Site : CreatesSite(s)
  \/ \E r \in Request :
       \/ \E u \in User :
            \/ \E s \in Site, what \in OnSite : AsksSite(r, u, s, what)
            \/ \E p \in Probe, what \in OnProbe : AsksProbe(r, u, p, what, None, None)
            \/ \E p \in Probe, n \in Name \cup {None}, s \in Site \cup {None} :
                 AsksProbe(r, u, p, "target", n, s)
            \/ \E sites \in SUBSET Site : AsksScope(r, u, sites)
       \/ \E m \in Machine : \/ \E c \in Code : Presents(r, m, c)
                             \/ \E u \in User, s \in Site : EnrolsByName(r, u, m, s)
       \/ \E c \in Code : IssuesCode(r, c) \/ IssuesRepair(r, c)
       \/ \E n \in Name : ChoosesName(r, n)
       \/ \E p \in Probe : InsertsProbe(r, p)
       \/ ArchivesSite(r) \/ DeletesSite(r) \/ ReplacesScope(r)
       \/ LooksAtTarget(r) \/ ReadsProbe(r) \/ UpdatesProbe(r)
       \/ ArchivesProbe(r) \/ RevokesProbe(r) \/ MakesSite(r) \/ Repairs(r)
  \/ \E c \in Code : LapsesCode(c)
  \/ Restarts

Spec == Init /\ [][Next]_vars

-----------------------------------------------------------------------------
(* Properties.                                                             *)

\* The probes of an archived site are archived (set_site_archived, `les sondes
\* suivent le site, sans exception possible'), whatever requests cross, but those
\* put into it since, and those brought back while they were moved into it.
ProbesFollow ==
  \A p \in Probes \ strayed : site[probe[p].site] = "archived" => probe[p].archived

\* What a session's request writes is in the scope it came with, on both sides of
\* a move (web.rs:3604), whatever requests cross, unless the very probe was moved
\* since the request was let in.  Enrolling by name looks at no scope.
WithinScope == "otherwise" \notin outside

\* An enrolment code does what a short code promises: two machines that present
\* it at once leave one winner (db.rs:1826), and a code that failed is spent.
ShortCode == INSTANCE OneUse WITH
  Bearer <- Machine,
  open   <- {c \in Code : CanBePresented(c)},
  used   <- {c \in Code : code[c] # None /\ code[c].is = "used"}
CodeLetsOneIn == ShortCode!Spec
=============================================================================
