------------------------------- MODULE Logins -------------------------------
(***************************************************************************)
(* How a person enters the hub: a password, then a code of the second      *)
(* factor when the account asks for one; or a passkey, by a challenge the  *)
(* hub keeps in memory until it is answered.  And how a second factor is   *)
(* set up: a secret is drawn, a first code of it is confirmed, it is       *)
(* dropped.                                                                *)
(*                                                                         *)
(* The flag, the sealed secret and the last step accepted are read and     *)
(* written under locks of their own; requests are cut there.  A code is    *)
(* its secret and its step of thirty seconds; the hub accepts the step     *)
(* before and the step after its own.  The password typed is the right     *)
(* one, and a wrong one changes nothing.  Three writes may fail without the *)
(* handler heeding it; reading does not fail.                              *)
(***************************************************************************)
EXTENDS Accounts

CONSTANT MaxStep   (* bound: the last step of the clock *)

Never == -1        \* no step accepted yet

\* A code of the second factor: its secret and its step; or the answer to a
\* challenge: nought and the challenge.
Proof == Nat \X Int

LoginRequest   == [at : {"secret", "last", "note", "open"}, target : User, code : Proof,
                   secret : Nat]
DrawRequest    == [at : {"draw"}, target : User]
ConfirmRequest == [at : {"enable", "first step"}, target : User, code : Proof]
DropRequest    == [at : {"switch off", "clear"}, target : User]
KeyRequest     == [at : {"account"}, target : User, proof : Proof]

ASSUME LoginsAssumption ==
  /\ MaxStep \in Nat /\ None \notin Proof
  /\ None \notin LoginRequest \cup DrawRequest \cup ConfirmRequest \cup DropRequest \cup KeyRequest

VARIABLES
  factor,    (* accounts: required, the sealed secret (0: none), last step *)
  drawn,     (* secrets drawn so far                                       *)
  clock,     (* the step of thirty seconds it is                           *)
  keys,      (* accounts with a registered passkey                         *)
  inscribing,(* memory: accounts with a registration under way             *)
  challenge, (* memory: accounts: the challenge to be answered, 0: none    *)
  sent,      (* challenges sent so far                                     *)
  (* For the properties.                                                   *)
  proven,    (* secrets a code of which was confirmed                      *)
  spent,     (* codes and challenges that opened a session                 *)
  twice,     (* one of them opened a second session                        *)
  mixed,     (* two requests met on the second factor of an account        *)
  halved     (* the hub stopped between the two writes of a drop, or took  *)
             (* no notice of one of its writes that failed                 *)

seen   == <<proven, spent, twice, mixed, halved>>
logins == <<factor, drawn, clock, keys, inscribing, challenge, sent, seen>>

NoFactor == [on |-> FALSE, secret |-> 0, last |-> Never]

\* Nobody has a second factor, or one account has.
LoginsInit ==
  /\ AccountsInit
  /\ \/ factor = [u \in User |-> NoFactor]
     \/ \E w \in User : /\ role[w] # None
                        /\ factor = [u \in User |-> IF u = w
                             THEN [on |-> TRUE, secret |-> 1, last |-> Never] ELSE NoFactor]
  /\ drawn = (IF \E u \in User : factor[u].on THEN 1 ELSE 0) /\ clock = 0
  /\ keys \in {{}, {u \in User : role[u] # None}}
  /\ inscribing = {} /\ challenge = [u \in User |-> 0] /\ sent = 0
  /\ proven = 1..drawn /\ spent = {} /\ twice = FALSE
  /\ mixed = FALSE /\ halved = FALSE

\* A code an application may show: of any secret drawn, at a clock within a
\* step of the hub's.
NoCode == <<0, 0>>
Codes  == (1..drawn) \X ((clock - 1)..(clock + 1))

OnFactor == {"secret", "last", "note", "draw", "enable", "first step", "switch off", "clear"}
Meets(u) ==
  mixed' = (mixed \/ \E r \in Request :
              req[r] # None /\ req[r].at \in OnFactor /\ req[r].target = u)

\* The session is opened: a line in memory, of a token nobody knows yet.
Opens(r, proof) ==
  /\ Ends(r)
  /\ twice' = (twice \/ (proof # None /\ proof \in spent))
  /\ spent' = IF proof = None THEN spent ELSE spent \cup {proof}

-----------------------------------------------------------------------------
(* login.                                                                  *)

\* verify_credentials, then totp_enabled.  Without a code the hub asks for one.
AsksLogin(r, u, code) ==
  /\ MayAct(u) /\ (factor[u].on <=> code # NoCode)
  /\ Begins(r, [at |-> IF factor[u].on THEN "secret" ELSE "open", target |-> u,
                code |-> code, secret |-> 0])
  /\ Meets(u)
  /\ UNCHANGED <<accounts, factor, drawn, clock, keys, inscribing, challenge, sent,
                 proven, spent, twice, halved>>

\* A secret that does not open refuses the login: a flag alone never lets in.
LooksAtSecret(r) ==
  /\ At(r, "secret")
  /\ IF factor[req[r].target].secret = 0
       THEN Ends(r)
       ELSE req' = [req EXCEPT ![r].secret = factor[req[r].target].secret, ![r].at = "last"]
  /\ UNCHANGED <<accounts, acts, logins>>

\* totp::verify
Accepts(code, secret, last) ==
  code[1] = secret /\ code[2] \in (clock - 1)..(clock + 1) /\ code[2] > last

LooksAtLast(r) ==
  /\ At(r, "last")
  /\ IF Accepts(req[r].code, req[r].secret, factor[req[r].target].last)
       THEN Goes(r, "note") ELSE Ends(r)
  /\ UNCHANGED <<accounts, acts, logins>>

\* set_totp_last_step, before the session is opened.
NotesStep(r) ==
  /\ At(r, "note")
  /\ factor' = [factor EXCEPT ![req[r].target].last = req[r].code[2]]
  /\ Goes(r, "open")
  /\ UNCHANGED <<accounts, acts, drawn, clock, keys, inscribing, challenge, sent, seen>>

OpensSession(r) ==
  /\ At(r, "open")
  /\ Opens(r, IF req[r].secret = 0 THEN None ELSE req[r].code)
  /\ UNCHANGED <<accounts, acts, factor, drawn, clock, keys, inscribing, challenge, sent,
                 proven, mixed, halved>>

-----------------------------------------------------------------------------
(* The second factor of one's own account.                                 *)

\* start_own_totp: refused when it is required already.
AsksSecret(r, u) ==
  /\ MayAct(u) /\ ~factor[u].on
  /\ Begins(r, [at |-> "draw", target |-> u]) /\ Meets(u)
  /\ UNCHANGED <<accounts, factor, drawn, clock, keys, inscribing, challenge, sent,
                 proven, spent, twice, halved>>

DrawsSecret(r) ==
  /\ At(r, "draw") /\ drawn' = drawn + 1
  /\ factor' = [factor EXCEPT ![req[r].target].secret = drawn']
  /\ Ends(r)
  /\ UNCHANGED <<accounts, acts, clock, keys, inscribing, challenge, sent, seen>>

\* confirm_own_totp: the secret is read and a first code of it verified.  The
\* handler does not look at the flag: confirming again starts the steps anew.
AsksConfirm(r, u, code) ==
  /\ MayAct(u) /\ Accepts(code, factor[u].secret, Never)
  /\ Begins(r, [at |-> "enable", target |-> u, code |-> code])
  /\ proven' = proven \cup {code[1]}
  /\ mixed' = (mixed \/ factor[u].on \/ \E q \in Request :
                 req[q] # None /\ req[q].at \in OnFactor /\ req[q].target = u)
  /\ UNCHANGED <<accounts, factor, drawn, clock, keys, inscribing, challenge, sent,
                 spent, twice, halved>>

\* set_totp_enabled, which forgets the last step.
Requires(r) ==
  /\ At(r, "enable")
  /\ factor' = [factor EXCEPT ![req[r].target].on = TRUE, ![req[r].target].last = Never]
  /\ Goes(r, "first step")
  /\ UNCHANGED <<accounts, acts, drawn, clock, keys, inscribing, challenge, sent, seen>>

WithFirst(r) == [factor EXCEPT ![req[r].target].last = req[r].code[2]]

\* The code that confirmed opens no session afterwards.
NotesFirst(r) ==
  /\ At(r, "first step") /\ factor' = WithFirst(r) /\ Ends(r)
  /\ spent' = spent \cup {req[r].code}
  /\ UNCHANGED <<accounts, acts, drawn, clock, keys, inscribing, challenge, sent,
                 proven, twice, mixed, halved>>

\* disable_own_totp, with the password; disable-totp, in the container.
AsksDrop(r, u) ==
  /\ role[u] # None
  /\ Begins(r, [at |-> "switch off", target |-> u]) /\ Meets(u)
  /\ UNCHANGED <<accounts, factor, drawn, clock, keys, inscribing, challenge, sent,
                 proven, spent, twice, halved>>

\* A slip: the secret is cleared before the flag is lowered.
ClearsFirst(f) == [f EXCEPT !.secret = 0]

SwitchedOff(f) == [f EXCEPT !.on = FALSE, !.last = Never]

SwitchesOff(r) ==
  /\ At(r, "switch off")
  /\ factor' = [factor EXCEPT ![req[r].target] = SwitchedOff(@)]
  /\ Goes(r, "clear")
  /\ UNCHANGED <<accounts, acts, drawn, clock, keys, inscribing, challenge, sent, seen>>

ClearsSecret(r) ==
  /\ At(r, "clear")
  /\ factor' = [factor EXCEPT ![req[r].target].secret = 0]
  /\ Ends(r)
  /\ UNCHANGED <<accounts, acts, drawn, clock, keys, inscribing, challenge, sent, seen>>

\* The used step could not be noted, at a login or at a confirmation, or the
\* secret not cleared: the handler ends as if it had been.
GoesUnheeded(r) ==
  /\ \/ At(r, "note") /\ Goes(r, "open") /\ UNCHANGED spent
     \/ At(r, "first step") /\ Ends(r) /\ spent' = spent \cup {req[r].code}
     \/ At(r, "clear") /\ Ends(r) /\ UNCHANGED spent
  /\ halved' = TRUE
  /\ UNCHANGED <<accounts, acts, factor, drawn, clock, keys, inscribing, challenge, sent,
                 proven, twice, mixed>>

-----------------------------------------------------------------------------
(* Passkeys.  Each ceremony is a line in memory, taken by its answer.      *)

StartsKey(u) ==
  /\ Asks /\ MayAct(u) /\ inscribing' = inscribing \cup {u}
  /\ UNCHANGED <<accounts, req, factor, drawn, clock, keys, challenge, sent, seen>>

FinishesKey(u) ==
  /\ Asks /\ MayAct(u) /\ u \in inscribing
  /\ inscribing' = inscribing \ {u} /\ keys' = keys \cup {u}
  /\ UNCHANGED <<accounts, req, factor, drawn, clock, challenge, sent, seen>>

RemovesKey(u) ==
  /\ Asks /\ MayAct(u) /\ u \in keys /\ keys' = keys \ {u}
  /\ UNCHANGED <<accounts, req, factor, drawn, clock, inscribing, challenge, sent, seen>>

\* Sent to whoever names an account with keys.  A second one replaces the first.
SendsChallenge(u) ==
  /\ Asks /\ u \in keys /\ sent' = sent + 1
  /\ challenge' = [challenge EXCEPT ![u] = sent']
  /\ UNCHANGED <<accounts, req, factor, drawn, clock, keys, inscribing, seen>>

\* A slip: an answer leaves its challenge.
LeftThere(u) == challenge[u]

AfterAnswer(u) == 0

\* The answer to challenge c: whatever it is worth, the challenge is gone.
AnswersKey(r, u, c) ==
  /\ challenge[u] # 0
  /\ challenge' = [challenge EXCEPT ![u] = AfterAnswer(u)]
  /\ IF c = challenge[u]
       THEN Begins(r, [at |-> "account", target |-> u, proof |-> <<0, c>>])
       ELSE Asks /\ UNCHANGED req
  /\ UNCHANGED <<accounts, factor, drawn, clock, keys, inscribing, sent, seen>>

\* A disabled account does not come in by that way either.
LooksAtAccount(r) ==
  /\ At(r, "account")
  /\ IF MayAct(req[r].target)
       THEN Opens(r, req[r].proof) ELSE Ends(r) /\ UNCHANGED <<spent, twice>>
  /\ UNCHANGED <<accounts, acts, factor, drawn, clock, keys, inscribing, challenge, sent,
                 proven, mixed, halved>>

\* After two minutes a ceremony is forgotten.
ForgetsCeremonies ==
  /\ inscribing' = {} /\ challenge' = [u \in User |-> 0]
  /\ <<inscribing', challenge'>> # <<inscribing, challenge>>
  /\ UNCHANGED <<accounts, req, acts, factor, drawn, clock, keys, sent, seen>>

Tick ==
  /\ clock < MaxStep /\ clock' = clock + 1
  /\ UNCHANGED <<accounts, req, acts, factor, drawn, keys, inscribing, challenge, sent, seen>>

\* Sessions and ceremonies are in memory; the steps accepted are not.
LoginsRestart ==
  /\ inscribing' = {} /\ challenge' = [u \in User |-> 0]
  /\ halved' = (halved \/ \E r \in Request : At(r, "clear"))
  /\ UNCHANGED <<factor, drawn, clock, keys, sent, proven, spent, twice, mixed>>

LoginsNext ==
  \/ \E r \in Request :
       \/ \E u \in User :
            \/ \E code \in Codes \cup {NoCode} : AsksLogin(r, u, code)
            \/ \E code \in Codes : AsksConfirm(r, u, code)
            \/ \E c \in 1..sent : AnswersKey(r, u, c)
            \/ AsksSecret(r, u) \/ AsksDrop(r, u)
       \/ LooksAtSecret(r) \/ LooksAtLast(r) \/ NotesStep(r) \/ OpensSession(r)
       \/ DrawsSecret(r) \/ Requires(r) \/ NotesFirst(r)
       \/ SwitchesOff(r) \/ ClearsSecret(r) \/ GoesUnheeded(r) \/ LooksAtAccount(r)
  \/ \E u \in User : StartsKey(u) \/ FinishesKey(u) \/ RemovesKey(u) \/ SendsChallenge(u)
  \/ ForgetsCeremonies \/ Tick

-----------------------------------------------------------------------------
(* Properties.                                                             *)

\* A code of the second factor, or the answer to a challenge, opens one session
\* (web.rs:668, passkeys.rs:59), whatever restarts come in between: as long as
\* two requests do not meet on the second factor of one account, and as its used
\* step is written (web.rs:671 goes on when it is not) and a dropped factor loses
\* its secret.  That secret would keep its codes when the steps are forgotten, and
\* confirming it anew would bring an old one back (the fear web.rs:854 speaks of).
OneSessionPerProof == twice => mixed \/ halved

\* An account that requires a second factor has one its owner showed to work,
\* and whose secret the hub still has (web.rs:731, 749): the same premise.
NobodyLockedOut ==
  ~mixed => \A u \in User : factor[u].on => factor[u].secret \in proven
=============================================================================
