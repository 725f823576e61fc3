------------------------------ MODULE Devices -------------------------------
(***************************************************************************)
(* Telephones paired with the hub.  Somebody signed in reads a code on the *)
(* screen; a telephone presents it once and receives an identity that does *)
(* not expire: a secret, against which it asks for a token of fifteen      *)
(* minutes whenever it needs one.  Revoking the device, or disabling its   *)
(* owner, must shut it out at once although its token still lives: the row *)
(* is read again at every request.                                         *)
(*                                                                         *)
(* Handlers are cut where they release the database.  Names, addresses and *)
(* the last time a device was seen are not represented.                    *)
(***************************************************************************)
EXTENDS Accounts

CONSTANTS
  Device,    (* identities of devices, drawn at random: never twice        *)
  Code       (* pairing codes                                              *)

\* What is under way of the requests of this module, and the rows it keeps.
PairRequest    == [at : {"owner", "pair"}, target : User, device : Device, code : Code]
TokenRequest   == [at : {"secret of device"}, device : Device, target : User,
                   secret : Nat, revoked : BOOLEAN]
UseRequest     == [at : {"row of device", "serve"}, device : Device, target : User,
                   after : BOOLEAN]
ArchiveRequest == [at : {"archive"}, device : Device]

CodeRow   == [owner : User, is : {"open", "late", "used"}]
DeviceRow == [owner : User, code : Code \cup {None}, secret : Nat, revoked : BOOLEAN,
              archived : BOOLEAN]
Phone     == [secret : Nat \cup {None}, token : BOOLEAN]

ASSUME DevicesAssumption ==
  /\ None \notin Code \cup Nat \cup CodeRow \cup DeviceRow
  /\ None \notin PairRequest \cup TokenRequest \cup UseRequest \cup ArchiveRequest

VARIABLES
  code,      (* table pair_codes: owner; open, late or used                *)
  device,    (* table paired_devices                                       *)
  phone,     (* telephones: the secret each holds, and its token           *)
  (* For the properties.                                                   *)
  late       (* a request sent after a revocation was served               *)

devices == <<code, device, phone, late>>

NoPhone == [secret |-> None, token |-> FALSE]

\* Telephone d may be paired already.
DevicesInit ==
  /\ AccountsInit
  /\ code = [c \in Code |-> None] /\ late = FALSE
  /\ \/ device = [d \in Device |-> None] /\ phone = [d \in Device |-> NoPhone]
     \/ \E d \in Device, u \in User :
          /\ role[u] # None
          /\ device = [x \in Device |-> IF x = d
               THEN [owner |-> u, code |-> None, secret |-> 0, revoked |-> FALSE, archived |-> FALSE]
               ELSE None]
          /\ phone = [x \in Device |-> IF x = d THEN [secret |-> 0, token |-> FALSE] ELSE NoPhone]

Known(d) == device[d] # None

-----------------------------------------------------------------------------
(* The code and the pairing.                                               *)

\* For one's own account.
IssuesCode(u, c) ==
  /\ Asks /\ MayAct(u) /\ code[c] = None
  /\ code' = [code EXCEPT ![c] = [owner |-> u, is |-> "open"]]
  /\ UNCHANGED <<accounts, req, device, phone, late>>

CanBePresented(c) == code[c] # None /\ code[c].is = "open"

LapsesCode(c) ==
  /\ CanBePresented(c)
  /\ code' = [code EXCEPT ![c].is = "late"]
  /\ UNCHANGED <<accounts, req, acts, device, phone, late>>

\* A slip: a code that was presented can be again.
StaysOpen(c) == code

Consumed(c) == [code EXCEPT ![c].is = "used"]

\* consume_pair_code: the reading and the mark are one transaction.
Pairs(r, d, c) ==
  /\ ~Known(d)
  /\ \A q \in Request : req[q] # None /\ req[q].at \in {"owner", "pair"} => req[q].device # d
  /\ CanBePresented(c)
  /\ code' = Consumed(c)
  /\ Begins(r, [at |-> "owner", target |-> code[c].owner, device |-> d, code |-> c])
  /\ UNCHANGED <<accounts, device, phone, late>>

\* identity_of: an account disabled meanwhile pairs nothing, and the code is spent.
LooksAtOwner(r) ==
  /\ At(r, "owner")
  /\ IF MayAct(req[r].target) THEN Goes(r, "pair") ELSE Ends(r)
  /\ UNCHANGED <<accounts, acts, devices>>

\* pair_device.  The answer carries the secret, this once; it may be lost.
InsertsDevice(r) ==
  LET d == req[r].device IN
  /\ At(r, "pair")
  /\ device' = [device EXCEPT ![d] =
       [owner |-> req[r].target, code |-> req[r].code, secret |-> 0,
        revoked |-> FALSE, archived |-> FALSE]]
  /\ \E heard \in BOOLEAN :
       phone' = [phone EXCEPT ![d] = IF heard THEN [@ EXCEPT !.secret = 0] ELSE @]
  /\ Ends(r) /\ UNCHANGED <<accounts, acts, code, late>>

-----------------------------------------------------------------------------
(* The token.                                                              *)

\* authenticate_device, the row.
AsksToken(r, d) ==
  /\ Known(d) /\ phone[d].secret # None
  /\ Begins(r, [at |-> "secret of device", device |-> d, target |-> device[d].owner,
                secret |-> phone[d].secret, revoked |-> device[d].revoked])
  /\ UNCHANGED <<accounts, devices>>

\* The secret, the revocation read with the row, then the account.  The answer
\* carries the token; it may be lost.
GrantsToken(r) ==
  LET d == req[r].device IN
  /\ At(r, "secret of device")
  /\ IF req[r].secret = device[d].secret /\ ~req[r].revoked /\ MayAct(req[r].target)
       THEN \E heard \in BOOLEAN : phone' = [phone EXCEPT ![d].token = @ \/ heard]
       ELSE UNCHANGED phone
  /\ Ends(r) /\ UNCHANGED <<accounts, acts, code, device, late>>

LosesToken(d) ==
  /\ phone[d].token /\ phone' = [phone EXCEPT ![d].token = FALSE]
  /\ UNCHANGED <<accounts, req, acts, code, device, late>>

\* A request with a token.  `after': the device was revoked before it was sent.
UsesToken(r, d) ==
  /\ phone[d].token
  /\ Begins(r, [at |-> "row of device", device |-> d, target |-> device[d].owner,
                after |-> device[d].revoked])
  /\ UNCHANGED <<accounts, devices>>

\* A slip: the token is believed for the fifteen minutes it lives.
Believed(d) == FALSE

Shut(d) == device[d].revoked

\* identity_from_access_token: the row first,
LooksAtDevice(r) ==
  /\ At(r, "row of device")
  /\ IF Shut(req[r].device) THEN Ends(r) ELSE Goes(r, "serve")
  /\ UNCHANGED <<accounts, acts, devices>>

\* then identity_of.
Serves(r) ==
  /\ At(r, "serve") /\ Ends(r)
  /\ late' = (late \/ (MayAct(req[r].target) /\ req[r].after))
  /\ UNCHANGED <<accounts, acts, code, device, phone>>

-----------------------------------------------------------------------------
(* The list of devices: each for his own, administrators for all.          *)

Over(a, d) == Known(d) /\ (MayAdmin(a) \/ (MayAct(a) /\ a = device[d].owner))

Revokes(a, d) ==
  /\ Asks /\ Over(a, d) /\ ~device[d].revoked
  /\ device' = [device EXCEPT ![d].revoked = TRUE]
  /\ UNCHANGED <<accounts, req, code, phone, late>>

\* The row is read, then stamped: an active device is refused.
AsksArchive(r, a, d) ==
  /\ Over(a, d) /\ device[d].revoked
  /\ Begins(r, [at |-> "archive", device |-> d])
  /\ UNCHANGED <<accounts, devices>>

Archives(r) ==
  /\ At(r, "archive") /\ device' = [device EXCEPT ![req[r].device].archived = TRUE]
  /\ Ends(r) /\ UNCHANGED <<accounts, acts, code, phone, late>>

Unarchives(a, d) ==
  /\ Asks /\ Over(a, d) /\ device[d].archived
  /\ device' = [device EXCEPT ![d].archived = FALSE]
  /\ UNCHANGED <<accounts, req, code, phone, late>>

\* The previous secret is dead at once; the new one is shown to the administrator.
Rotates(a, d) ==
  /\ Asks /\ MayAdmin(a) /\ Known(d)
  /\ device' = [device EXCEPT ![d].secret = @ + 1]
  /\ UNCHANGED <<accounts, req, code, phone, late>>

DevicesNext ==
  \/ \E r \in Request :
       \/ \E d \in Device :
            \/ \E c \in Code : Pairs(r, d, c)
            \/ AsksToken(r, d) \/ UsesToken(r, d)
            \/ \E a \in User : AsksArchive(r, a, d)
       \/ LooksAtOwner(r) \/ InsertsDevice(r) \/ GrantsToken(r)
       \/ LooksAtDevice(r) \/ Serves(r) \/ Archives(r)
  \/ \E a \in User : \/ \E c \in Code : IssuesCode(a, c)
                     \/ \E d \in Device : Revokes(a, d) \/ Unarchives(a, d) \/ Rotates(a, d)
  \/ \E c \in Code : LapsesCode(c)
  \/ \E d \in Device : LosesToken(d)

-----------------------------------------------------------------------------
(* Properties.                                                             *)

\* A pairing code does what a short code promises: two telephones that present
\* it at once leave one winner (pairing.rs:163), even when the account was
\* disabled in between or the answer was lost.
ShortCode == INSTANCE OneUse WITH
  Bearer <- Device,
  open   <- {c \in Code : CanBePresented(c)},
  used   <- {c \in Code : code[c] # None /\ code[c].is = "used"},
  gained <- {p \in Code \X Device : Known(p[2]) /\ device[p[2]].code = p[1]}
CodeLetsOneIn == ShortCode!Spec

\* Nothing a telephone sends after it was revoked is served, whatever token it
\* holds (pairing.rs:518).
RevokedIsShutOut == ~late
=============================================================================
