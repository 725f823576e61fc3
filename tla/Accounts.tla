------------------------------ MODULE Accounts ------------------------------
(***************************************************************************)
(* The accounts of the hub: the first one, created with the token printed  *)
(* at start-up; roles and disabled accounts, which only administrators     *)
(* change; and the rescue command, which works on the file of the hub from *)
(* another process.                                                        *)
(*                                                                         *)
(* Two refusals keep the hub repairable: an administrator cannot demote or *)
(* disable himself, and the last active administrator cannot be demoted or *)
(* disabled.  The row is read, the administrators are counted and the row  *)
(* is written under three locks: requests are cut there.                   *)
(*                                                                         *)
(* Passwords and interface languages are not represented.  A role is       *)
(* either admin or operator: a viewer differs in what he may look at.      *)
(***************************************************************************)
EXTENDS Integers, FiniteSets

CONSTANTS
  User,      (* names an account can have                                  *)
  Request,   (* requests that can be under way at once                     *)
  MaxActs,   (* bound: requests ever begun                                 *)
  None       (* no account; nothing under way; a field left out            *)

Role == {"admin", "operator"}

\* What is under way of the requests of this module.
SetupRequest  == [at : {"any account", "insert", "disarm"}, target : User]
ChangeRequest ==
  [at : {"role", "count role", "write role", "off", "count off", "write off"},
   actor : User, target : User, to : Role \cup {None}, off : BOOLEAN \cup {None}]
RescueRequest == [at : {"rescue", "promote"}, target : User, promote : BOOLEAN]

ASSUME AccountsAssumption ==
  /\ MaxActs \in Nat /\ IsFiniteSet(User)
  /\ None \notin User /\ None \notin Role /\ None \notin BOOLEAN
  /\ None \notin SetupRequest \cup ChangeRequest \cup RescueRequest

VARIABLES
  role,      (* table users: the role of each account                      *)
  disabled,  (* table users: the accounts with a disabled_at               *)
  setup,     (* memory: the set-up token is armed                          *)
  req,       (* the requests under way, each between two locks             *)
  acts,
  crossed    (* property: two changes of accounts were under way together  *)

accounts == <<role, disabled, setup, crossed>>

Admins == {u \in User : role[u] = "admin" /\ u \notin disabled}

\* identity_of and role_guard: who a session or a token stands for is read
\* again at each request.
MayAct(u)   == role[u] # None /\ u \notin disabled
MayAdmin(u) == role[u] = "admin" /\ u \notin disabled

\* A hub just installed, or one in service.
AccountsInit ==
  /\ \/ role = [u \in User |-> None]
     \/ role \in [User -> Role \cup {None}] /\ \E u \in User : role[u] = "admin"
  /\ disabled = {} /\ setup = (role = [u \in User |-> None])
  /\ req = [r \in Request |-> None] /\ crossed = FALSE

At(r, step)   == req[r] # None /\ req[r].at = step
Goes(r, step) == req' = [req EXCEPT ![r].at = step]
Ends(r)       == req' = [req EXCEPT ![r] = None]
Begins(r, what) ==
  /\ req[r] = None /\ acts > 0 /\ acts' = acts - 1
  /\ req' = [req EXCEPT ![r] = what]

\* A request served in one go.
Asks == acts > 0 /\ acts' = acts - 1

-----------------------------------------------------------------------------
(* The first account.                                                      *)

\* The token is compared under its own lock, and nobody holds it afterwards.
AsksSetup(r, u) ==
  /\ setup /\ Begins(r, [at |-> "any account", target |-> u])
  /\ UNCHANGED accounts

\* has_user; then the password is hashed.
FindsAccount(r) ==
  /\ At(r, "any account")
  /\ IF \E u \in User : role[u] # None THEN Ends(r) ELSE Goes(r, "insert")
  /\ UNCHANGED <<accounts, acts>>

\* The name is the primary key: the same one twice is refused.
InsertsFirst(r) ==
  /\ At(r, "insert")
  /\ IF role[req[r].target] # None
       THEN Ends(r) /\ UNCHANGED role
       ELSE Goes(r, "disarm") /\ role' = [role EXCEPT ![req[r].target] = "admin"]
  /\ UNCHANGED <<disabled, setup, acts, crossed>>

Disarms(r) ==
  /\ At(r, "disarm") /\ setup' = FALSE /\ Ends(r)
  /\ UNCHANGED <<role, disabled, acts, crossed>>

-----------------------------------------------------------------------------
(* update_user: a role, then whether the account is disabled.  `seen' is   *)
(* what the request read of its target.                                    *)

Changing == {"role", "count role", "write role", "off", "count off", "write off",
             "rescue", "promote"}
Crosses  == crossed' = (crossed \/ \E r \in Request : req[r] # None /\ req[r].at \in Changing)

AsksChange(r, actor, target, to, off) ==
  /\ Begins(r, [at |-> IF to # None THEN "role" ELSE "off", actor |-> actor,
                target |-> target, to |-> to, off |-> off])
  /\ MayAdmin(actor) /\ <<to, off>> # <<None, None>>
  /\ Crosses /\ UNCHANGED <<role, disabled, setup>>

\* create_user: one insert.
Creates(actor, u, to) ==
  /\ MayAdmin(actor) /\ role[u] = None /\ acts > 0 /\ acts' = acts - 1
  /\ role' = [role EXCEPT ![u] = to]
  /\ UNCHANGED <<disabled, setup, req, crossed>>

AfterRole(r) == IF req[r].off # None THEN Goes(r, "off") ELSE Ends(r)

Itself(r) == req[r].actor = req[r].target

\* A slip: the role to come is looked at, not the one the account has.
DemotesToCome(r) == req[r].to = "admin"

Demotes(r) == role[req[r].target] = "admin" /\ req[r].to # "admin"
Closes(r)  == req[r].off /\ req[r].target \notin disabled

\* set_user_role, the row.  Demoting a disabled account counts nobody.
ReadsRole(r) ==
  LET t == req[r].target IN
  /\ At(r, "role")
  /\ IF role[t] = None \/ (Demotes(r) /\ Itself(r))
       THEN Ends(r)
       ELSE Goes(r, IF Demotes(r) /\ t \notin disabled THEN "count role" ELSE "write role")
  /\ UNCHANGED <<accounts, acts>>

TooFew == Cardinality(Admins) <= 1

\* refuse_if_last_active_admin
CountsAdmins(r) ==
  /\ \/ At(r, "count role") /\ IF TooFew THEN Ends(r) ELSE Goes(r, "write role")
     \/ At(r, "count off") /\ IF TooFew THEN Ends(r) ELSE Goes(r, "write off")
  /\ UNCHANGED <<accounts, acts>>

WritesRole(r) ==
  /\ At(r, "write role")
  /\ role' = [role EXCEPT ![req[r].target] = req[r].to]
  /\ AfterRole(r) /\ UNCHANGED <<disabled, setup, acts, crossed>>

\* set_user_disabled, the row.  Nothing is refused to an account that already is.
ReadsOff(r) ==
  LET t == req[r].target IN
  /\ At(r, "off")
  /\ IF role[t] = None \/ (Closes(r) /\ Itself(r))
       THEN Ends(r)
       ELSE Goes(r, IF Closes(r) /\ role[t] = "admin" THEN "count off" ELSE "write off")
  /\ UNCHANGED <<accounts, acts>>

WritesOff(r) ==
  /\ At(r, "write off")
  /\ disabled' = IF req[r].off THEN disabled \cup {req[r].target}
                               ELSE disabled \ {req[r].target}
  /\ Ends(r) /\ UNCHANGED <<role, setup, acts, crossed>>

-----------------------------------------------------------------------------
(* reset-password, run in the container: the account works again, and is   *)
(* an administrator when asked.  No account is named as the author.        *)

AsksRescue(r, u, promote) ==
  /\ role[u] # None /\ Begins(r, [at |-> "rescue", target |-> u, promote |-> promote])
  /\ Crosses /\ UNCHANGED <<role, disabled, setup>>

\* When enabling fails the command goes on.
RescueEnables(r) ==
  /\ At(r, "rescue") /\ disabled' \in {disabled \ {req[r].target}, disabled}
  /\ IF req[r].promote THEN Goes(r, "promote") ELSE Ends(r)
  /\ UNCHANGED <<role, setup, acts, crossed>>

RescuePromotes(r) ==
  /\ At(r, "promote") /\ role' = [role EXCEPT ![req[r].target] = "admin"]
  /\ Ends(r) /\ UNCHANGED <<disabled, setup, acts, crossed>>

\* The hub starts again: init_setup_token arms the token when there is nobody.
AccountsRestart ==
  /\ acts > 0 /\ acts' = acts - 1
  /\ req' = [r \in Request |-> None]
  /\ setup' = (\A u \in User : role[u] = None)
  /\ UNCHANGED <<role, disabled, crossed>>

AccountsNext ==
  \/ \E r \in Request :
       \/ \E u \in User : AsksSetup(r, u) \/ \E p \in BOOLEAN : AsksRescue(r, u, p)
       \/ \E a, t \in User, to \in Role \cup {None}, off \in BOOLEAN \cup {None} :
            AsksChange(r, a, t, to, off)
       \/ FindsAccount(r) \/ InsertsFirst(r) \/ Disarms(r)
       \/ ReadsRole(r) \/ CountsAdmins(r) \/ WritesRole(r)
       \/ ReadsOff(r) \/ WritesOff(r)
       \/ RescueEnables(r) \/ RescuePromotes(r)
  \/ \E a, u \in User, to \in Role : Creates(a, u, to)

-----------------------------------------------------------------------------
(* Properties.                                                             *)

\* Once there is an account, an administrator can sign in: a hub without one
\* is repaired only from the container (db.rs:2190).
AdminRemains == (\E u \in User : role[u] # None) => Admins # {}

\* That holds when changes of accounts come one at a time, whatever the
\* restarts, the rescues and the part of a request that was refused.
OrderlyAdminRemains == ~crossed => AdminRemains
=============================================================================
