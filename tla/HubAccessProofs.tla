--------------------------- MODULE HubAccessProofs ---------------------------
(***************************************************************************)
(* Proofs about HubAccess, for every set of accounts, requests, telephones *)
(* and codes, and any number of requests.  The three kinds of requests     *)
(* have steps of their own, so that what is kept by one kind is left alone *)
(* by the steps of the others.                                             *)
(***************************************************************************)
EXTENDS HubAccess, FiniteSetTheorems, TLAPS

AccountRequest == SetupRequest \cup ChangeRequest \cup RescueRequest
PersonRequest  == LoginRequest \cup DrawRequest \cup ConfirmRequest \cup DropRequest \cup KeyRequest
PhoneRequest   == PairRequest \cup TokenRequest \cup UseRequest \cup ArchiveRequest

AccountSteps == {"any account", "insert", "disarm"} \cup Changing
PersonSteps  == {"secret", "last", "note", "open", "draw", "enable", "first step",
                 "switch off", "clear", "account"}
PhoneSteps   == {"owner", "pair", "secret of device", "row of device", "serve", "archive"}

RequestsType ==
  req \in [Request -> AccountRequest \cup PersonRequest \cup PhoneRequest \cup {None}]

\* The step r's request is at tells what kind of request it is.
LEMMA KindOfRequest ==
  ASSUME NEW q
  PROVE  /\ q \in AccountRequest => q.at \in AccountSteps
         /\ q \in PersonRequest => q.at \in PersonSteps
         /\ q \in PhoneRequest => q.at \in PhoneSteps
<1>1. q \in AccountRequest => q.at \in AccountSteps
  BY DEF AccountRequest, SetupRequest, ChangeRequest, RescueRequest, AccountSteps, Changing
<1>2. q \in PersonRequest => q.at \in PersonSteps
  BY DEF PersonRequest, LoginRequest, DrawRequest, ConfirmRequest, DropRequest, KeyRequest,
         PersonSteps
<1>3. q \in PhoneRequest => q.at \in PhoneSteps
  BY DEF PhoneRequest, PairRequest, TokenRequest, UseRequest, ArchiveRequest, PhoneSteps
<1> QED BY <1>1, <1>2, <1>3

\* What a request of the accounts carries at each of its steps.
LEMMA AccountKinds ==
  ASSUME NEW q \in AccountRequest
  PROVE  /\ q.at \in {"any account", "insert", "disarm"} => q \in SetupRequest
         /\ q.at \in {"role", "count role", "write role", "off", "count off", "write off"} =>
              q \in ChangeRequest
         /\ q.at \in {"rescue", "promote"} => q \in RescueRequest
BY DEF AccountRequest, SetupRequest, ChangeRequest, RescueRequest

\* What a person's request carries at each of its steps.
LEMMA PersonKinds ==
  ASSUME NEW q \in PersonRequest
  PROVE  /\ q.at \in {"secret", "last", "note", "open"} => q \in LoginRequest
         /\ q.at = "draw" => q \in DrawRequest
         /\ q.at \in {"enable", "first step"} => q \in ConfirmRequest
         /\ q.at \in {"switch off", "clear"} => q \in DropRequest
         /\ q.at = "account" => q \in KeyRequest
BY DEF PersonRequest, LoginRequest, DrawRequest, ConfirmRequest, DropRequest, KeyRequest

\* What a telephone's request carries at each of its steps.
LEMMA PhoneKinds ==
  ASSUME NEW q \in PhoneRequest
  PROVE  /\ q.at \in {"owner", "pair"} => q \in PairRequest
         /\ q.at = "secret of device" => q \in TokenRequest
         /\ q.at \in {"row of device", "serve"} => q \in UseRequest
         /\ q.at = "archive" => q \in ArchiveRequest
BY DEF PhoneRequest, PairRequest, TokenRequest, UseRequest, ArchiveRequest

\* Request r alone moves, and is of one kind before and after.
Moves(r, kind) ==
  /\ \A q \in Request \ {r} : req'[q] = req[q]
  /\ req[r] \in kind \cup {None} /\ req'[r] \in kind \cup {None}

\* What is under way is never mistaken for nothing.
LEMMA NoneIsNoRequest ==
  None \notin AccountRequest /\ None \notin PersonRequest /\ None \notin PhoneRequest
BY AccountsAssumption, LoginsAssumption, DevicesAssumption
   DEF AccountRequest, PersonRequest, PhoneRequest

-----------------------------------------------------------------------------
(* The accounts.                                                           *)

AccountsType == role \in [User -> Role \cup {None}] /\ disabled \subseteq User

AccountAct(r) ==
  \/ \E u \in User : AsksSetup(r, u) \/ \E p \in BOOLEAN : AsksRescue(r, u, p)
  \/ \E a, t \in User, to \in Role \cup {None}, off \in BOOLEAN \cup {None} :
       AsksChange(r, a, t, to, off)
  \/ FindsAccount(r) \/ InsertsFirst(r) \/ Disarms(r)
  \/ ReadsRole(r) \/ CountsAdmins(r) \/ WritesRole(r)
  \/ ReadsOff(r) \/ WritesOff(r)
  \/ RescueEnables(r) \/ RescuePromotes(r)

\* A request that goes on keeps what it carries.
LEMMA SetupGoesOn ==
  ASSUME RequestsType, NEW r \in Request, req[r] \in SetupRequest,
         NEW s \in {"any account", "insert", "disarm"}, Goes(r, s)
  PROVE  /\ Moves(r, SetupRequest) /\ req'[r] \in SetupRequest /\ req'[r].at = s
         /\ req'[r].target = req[r].target
BY DEF RequestsType, Goes, Moves, SetupRequest

\* A request that goes on keeps what it carries.
LEMMA ChangeGoesOn ==
  ASSUME RequestsType, NEW r \in Request, req[r] \in ChangeRequest,
         NEW s \in {"role", "count role", "write role", "off", "count off", "write off"}, Goes(r, s)
  PROVE  /\ Moves(r, ChangeRequest) /\ req'[r] \in ChangeRequest /\ req'[r].at = s
         /\ req'[r].target = req[r].target /\ req'[r].to = req[r].to
         /\ req'[r].off = req[r].off /\ req'[r].actor = req[r].actor
BY DEF RequestsType, Goes, Moves, ChangeRequest

\* A request that goes on keeps what it carries.
LEMMA RescueGoesOn ==
  ASSUME RequestsType, NEW r \in Request, req[r] \in RescueRequest,
         NEW s \in {"rescue", "promote"}, Goes(r, s)
  PROVE  /\ Moves(r, RescueRequest) /\ req'[r] \in RescueRequest /\ req'[r].at = s
         /\ req'[r].target = req[r].target
BY DEF RequestsType, Goes, Moves, RescueRequest

\* A request that ends is no more.
LEMMA RequestEnds ==
  ASSUME RequestsType, NEW r \in Request, NEW kind, req[r] \in kind \cup {None}, Ends(r)
  PROVE  Moves(r, kind) /\ req'[r] = None
BY DEF RequestsType, Ends, Moves

\* A request that begins.
LEMMA RequestBegins ==
  ASSUME RequestsType, NEW r \in Request, NEW kind, NEW what \in kind, Begins(r, what)
  PROVE  Moves(r, kind) /\ req[r] = None /\ req'[r] = what
BY DEF RequestsType, Begins, Moves

\* A request at a step of the accounts is one of theirs.
LEMMA AtAccounts ==
  ASSUME RequestsType, NEW r \in Request, NEW s \in AccountSteps, At(r, s)
  PROVE  /\ req[r] \in AccountRequest /\ req[r].at = s
         /\ s \in {"any account", "insert", "disarm"} => req[r] \in SetupRequest
         /\ s \in {"role", "count role", "write role", "off", "count off", "write off"} =>
              req[r] \in ChangeRequest
         /\ s \in {"rescue", "promote"} => req[r] \in RescueRequest
<1>1. /\ req[r] \in AccountRequest \cup PersonRequest \cup PhoneRequest \cup {None}
      /\ req[r] # None /\ req[r].at = s
  BY DEF RequestsType, At
<1>2. req[r].at \notin PersonSteps /\ req[r].at \notin PhoneSteps
  BY <1>1 DEF AccountSteps, PersonSteps, PhoneSteps, Changing
<1>3. req[r] \in AccountRequest
  BY <1>1, <1>2, KindOfRequest
<1> QED BY <1>1, <1>3, AccountKinds

\* A change says what it changes.
ChangesSay ==
  \A r \in Request :
    /\ At(r, "role") \/ At(r, "count role") \/ At(r, "write role") => req[r].to # None
    /\ At(r, "off") \/ At(r, "count off") \/ At(r, "write off") => req[r].off # None

OnlyAccountsDisabled == \A u \in disabled : role[u] # None

\* One change at a time.
IsChanging(r) == req[r] # None /\ req[r].at \in Changing
ChangesApart  == \A q, r \in Request : IsChanging(q) /\ IsChanging(r) => q = r

\* The account a change is about is there from its row on, and another
\* administrator is there when the row of an active one is about to go.
RowWasRead ==
  \A r \in Request :
    At(r, "count role") \/ At(r, "write role") \/ At(r, "count off") \/ At(r, "write off") =>
      role[req[r].target] # None

AnotherAdmin(t) == \E u \in Admins : u # t

RoleWasCounted ==
  \A r \in Request :
    At(r, "write role") /\ req[r].to # "admin" /\ req[r].target \in Admins =>
      AnotherAdmin(req[r].target)

OffWasCounted ==
  \A r \in Request :
    At(r, "write off") /\ req[r].off /\ req[r].target \in Admins =>
      AnotherAdmin(req[r].target)

AccountsInv ==
  /\ AccountsType /\ ChangesSay
  /\ ~crossed => /\ ChangesApart /\ RowWasRead /\ RoleWasCounted /\ OffWasCounted
                 /\ OnlyAccountsDisabled /\ AdminRemains

\* More than one administrator: another than this one.
LEMMA NotTooFew ==
  ASSUME ~TooFew, NEW t
  PROVE  AnotherAdmin(t)
<1>1. IsFiniteSet(Admins)
  BY AccountsAssumption, FS_Subset DEF Admins
<1>2. CASE t \in Admins
  <2>1. IsFiniteSet(Admins \ {t}) /\ Cardinality(Admins \ {t}) = Cardinality(Admins) - 1
    BY <1>1, <1>2, FS_RemoveElement
  <2>2. Cardinality(Admins) \in Nat /\ Cardinality(Admins \ {t}) \in Nat
    BY <1>1, <2>1, FS_CardinalityType
  <2>3. Cardinality(Admins \ {t}) # 0
    BY <2>1, <2>2 DEF TooFew
  <2>4. Admins \ {t} # {}
    BY <2>1, <2>3, FS_EmptySet
  <2> QED BY <2>4 DEF AnotherAdmin
<1>3. CASE t \notin Admins
  <2>1. Admins # {}
    <3>1. SUFFICES ASSUME Admins = {} PROVE FALSE
      OBVIOUS
    <3>2. Cardinality(Admins) = 0
      BY <3>1, FS_EmptySet
    <3> QED BY <3>2 DEF TooFew
  <2> QED BY <1>3, <2>1 DEF AnotherAdmin
<1> QED BY <1>2, <1>3

\* What leaves the requests that change accounts where they are, or ends them,
\* and only adds accounts.
LEMMA AccountsQuiet ==
  ASSUME RequestsType, AccountsInv, ~crossed' => ~crossed, AccountsType',
         \A q \in Request : req'[q] = req[q] \/ req'[q] = None \/ req'[q].at \notin Changing,
         \A u \in User : role[u] # None => role'[u] = role[u],
         disabled' = disabled, ~crossed' => AdminRemains'
  PROVE  AccountsInv'
<1>1. ChangesSay'
  BY DEF AccountsInv, ChangesSay, At, Changing
<1>2. ASSUME ~crossed'
      PROVE OnlyAccountsDisabled' /\ ChangesApart' /\ RowWasRead' /\ RoleWasCounted' /\ OffWasCounted'
  <2>1. ChangesApart /\ RowWasRead /\ RoleWasCounted /\ OffWasCounted
    BY <1>2 DEF AccountsInv
  <2>2. \A q \in Request : IsChanging(q)' => IsChanging(q) /\ req'[q] = req[q]
    BY DEF IsChanging
  <2>3. \A q \in Request :
          (At(q, "count role") \/ At(q, "write role") \/ At(q, "count off") \/ At(q, "write off"))'
            => req'[q] = req[q]
    BY DEF At, Changing
  <2>4. Admins \subseteq Admins'
    <3>1. \A u \in Admins : role[u] # None
      BY AccountsAssumption DEF Admins, Role
    <3> QED BY <3>1 DEF Admins
  <2>5. \A u \in User : role[u] # None /\ u \in Admins' => u \in Admins
    BY DEF Admins
  <2>6. ChangesApart'
    BY <2>1, <2>2 DEF ChangesApart
  <2>7. \A q \in Request :
          At(q, "count role") \/ At(q, "write role") \/ At(q, "count off") \/ At(q, "write off")
            => req[q].target \in User
    BY AtAccounts DEF ChangeRequest, AccountSteps, Changing
  <2>8. RowWasRead'
    BY <2>1, <2>3, <2>7 DEF RowWasRead, At
  <2>9. \A q \in Request : At(q, "write role")' \/ At(q, "write off")' =>
          /\ req'[q] = req[q] /\ req[q].target \in User /\ role[req[q].target] # None
          /\ At(q, "write role")' => At(q, "write role")
          /\ At(q, "write off")' => At(q, "write off")
    BY <2>1, <2>3, <2>7 DEF RowWasRead, At
  <2>10. RoleWasCounted'
    BY <2>1, <2>4, <2>5, <2>9 DEF RoleWasCounted, AnotherAdmin
  <2>11. OffWasCounted'
    <3> SUFFICES ASSUME NEW q \in Request, At(q, "write off")', (req[q].off)',
                        (req[q].target \in Admins)'
                 PROVE  AnotherAdmin(req[q].target)'
      BY Zenon DEF OffWasCounted
    <3>1. req'[q] = req[q] /\ At(q, "write off") /\ req[q].target \in Admins
      BY <2>5, <2>9
    <3>2. req[q].off
      BY <3>1, Zenon
    <3>3. AnotherAdmin(req[q].target)
      BY <2>1, <3>1, <3>2, Zenon DEF OffWasCounted
    <3> QED BY <2>4, <3>1, <3>3 DEF AnotherAdmin
  <2>12. OnlyAccountsDisabled'
    BY <1>2 DEF AccountsInv, AccountsType, OnlyAccountsDisabled
  <2> QED BY <2>6, <2>8, <2>10, <2>11, <2>12
<1>3. ~crossed' => AdminRemains'
  OBVIOUS
<1> QED BY <1>1, <1>2, <1>3 DEF AccountsInv

\* A step of the one change under way: what it leaves of itself is enough.
LEMMA OneChangeMoves ==
  ASSUME RequestsType, AccountsInv, ~crossed' => ~crossed, AccountsType',
         ~crossed => OnlyAccountsDisabled',
         NEW r \in Request, IsChanging(r), Moves(r, AccountRequest),
         (At(r, "role") \/ At(r, "count role") \/ At(r, "write role"))' => req'[r].to # None,
         (At(r, "off") \/ At(r, "count off") \/ At(r, "write off"))' => req'[r].off # None,
         ~crossed => /\ (At(r, "count role") \/ At(r, "write role")
                          \/ At(r, "count off") \/ At(r, "write off"))' =>
                            role'[req'[r].target] # None
                     /\ At(r, "write role")' /\ req'[r].to # "admin" =>
                          AnotherAdmin(req[r].target)' \/ req'[r].target \notin Admins'
                     /\ At(r, "write off")' /\ req'[r].off =>
                          AnotherAdmin(req[r].target)' \/ req'[r].target \notin Admins'
                     /\ AdminRemains'
  PROVE  AccountsInv'
<1>1. ChangesSay'
  BY DEF AccountsInv, ChangesSay, Moves, At
<1>2. ASSUME ~crossed'
      PROVE  ChangesApart' /\ RowWasRead' /\ RoleWasCounted' /\ OffWasCounted'
  <2>1. \A q \in Request \ {r} : ~IsChanging(q)
    BY <1>2 DEF AccountsInv, ChangesApart
  <2>2. \A q \in Request \ {r} : ~IsChanging(q)'
    BY <2>1 DEF IsChanging, Moves
  <2>3. \A q \in Request \ {r} :
          /\ ~At(q, "count role")' /\ ~At(q, "write role")'
          /\ ~At(q, "count off")' /\ ~At(q, "write off")'
    BY <2>2 DEF IsChanging, At, Changing
  <2>4. ChangesApart'
    BY <2>2 DEF ChangesApart
  <2>5. RowWasRead'
    BY <1>2, <2>3 DEF RowWasRead
  <2>6. RoleWasCounted'
    BY <1>2, <2>3 DEF RoleWasCounted
  <2>7. OffWasCounted'
    <3> SUFFICES ASSUME NEW q \in Request, At(q, "write off")', (req[q].off)',
                        (req[q].target \in Admins)'
                 PROVE  AnotherAdmin(req[q].target)'
      BY Zenon DEF OffWasCounted
    <3>1. q = r
      BY <2>3
    <3> QED BY <1>2, <3>1, Zenon
  <2> QED BY <2>4, <2>5, <2>6, <2>7
<1> QED BY <1>1, <1>2 DEF AccountsInv

\* A step of a request of the accounts: what it does to the request.
LEMMA AccountActMoves ==
  ASSUME RequestsType, AccountsType, NEW r \in Request, AccountAct(r)
  PROVE  Moves(r, AccountRequest)
<1> SetupRequest \subseteq AccountRequest /\ ChangeRequest \subseteq AccountRequest
    /\ RescueRequest \subseteq AccountRequest
  BY DEF AccountRequest
<1>a. ASSUME NEW kind \in {SetupRequest, ChangeRequest, RescueRequest}, Moves(r, kind)
      PROVE  Moves(r, AccountRequest)
  BY <1>a DEF Moves
<1>1. CASE \E u \in User : AsksSetup(r, u)
  <2>1. PICK u \in User : AsksSetup(r, u)
    BY <1>1
  <2>2. [at |-> "any account", target |-> u] \in SetupRequest
    BY DEF SetupRequest
  <2> QED BY <1>a, <2>1, <2>2, RequestBegins DEF AsksSetup
<1>2. CASE \E u \in User, p \in BOOLEAN : AsksRescue(r, u, p)
  <2>1. PICK u \in User, p \in BOOLEAN : AsksRescue(r, u, p)
    BY <1>2
  <2>2. [at |-> "rescue", target |-> u, promote |-> p] \in RescueRequest
    BY DEF RescueRequest
  <2> QED BY <1>a, <2>1, <2>2, RequestBegins DEF AsksRescue
<1>3. CASE \E a, t \in User, to \in Role \cup {None}, off \in BOOLEAN \cup {None} :
             AsksChange(r, a, t, to, off)
  <2>1. PICK a \in User, t \in User, to \in Role \cup {None}, off \in BOOLEAN \cup {None} :
          AsksChange(r, a, t, to, off)
    BY <1>3
  <2>2. [at |-> IF to # None THEN "role" ELSE "off", actor |-> a,
         target |-> t, to |-> to, off |-> off] \in ChangeRequest
    BY DEF ChangeRequest
  <2> QED BY <1>a, <2>1, <2>2, RequestBegins DEF AsksChange
<1>4. CASE FindsAccount(r) \/ InsertsFirst(r) \/ Disarms(r)
  <2>1. req[r] \in SetupRequest
    BY <1>4, AtAccounts DEF FindsAccount, InsertsFirst, Disarms, AccountSteps
  <2>2. Ends(r) \/ Goes(r, "insert") \/ Goes(r, "disarm")
    BY <1>4 DEF FindsAccount, InsertsFirst, Disarms
  <2> QED BY <1>a, <2>1, <2>2, SetupGoesOn, RequestEnds
<1>5. CASE ReadsRole(r) \/ CountsAdmins(r) \/ WritesRole(r) \/ ReadsOff(r) \/ WritesOff(r)
  <2>1. req[r] \in ChangeRequest
    BY <1>5, AtAccounts
       DEF ReadsRole, CountsAdmins, WritesRole, ReadsOff, WritesOff, AccountSteps, Changing
  <2>2. Ends(r) \/ Goes(r, "count role") \/ Goes(r, "write role") \/ Goes(r, "off")
        \/ Goes(r, "count off") \/ Goes(r, "write off")
    BY <1>5 DEF ReadsRole, CountsAdmins, WritesRole, ReadsOff, WritesOff, AfterRole
  <2> QED BY <1>a, <2>1, <2>2, ChangeGoesOn, RequestEnds
<1>6. CASE RescueEnables(r) \/ RescuePromotes(r)
  <2>1. req[r] \in RescueRequest
    BY <1>6, AtAccounts DEF RescueEnables, RescuePromotes, AccountSteps, Changing
  <2>2. Ends(r) \/ Goes(r, "promote")
    BY <1>6 DEF RescueEnables, RescuePromotes
  <2> QED BY <1>a, <2>1, <2>2, RescueGoesOn, RequestEnds
<1> QED BY <1>1, <1>2, <1>3, <1>4, <1>5, <1>6 DEF AccountAct

\* Requests that change nothing of the accounts, and the first account.
LEMMA SetupKeeps ==
  ASSUME RequestsType, AccountsInv, NEW r \in Request,
         (\E u \in User : AsksSetup(r, u)) \/ FindsAccount(r) \/ InsertsFirst(r) \/ Disarms(r)
  PROVE  AccountsInv'
<1>1. CASE \E u \in User : AsksSetup(r, u)
  <2>1. PICK u \in User : AsksSetup(r, u)
    BY <1>1
  <2> DEFINE what == [at |-> "any account", target |-> u]
  <2>2. what \in SetupRequest /\ what.at = "any account" /\ Begins(r, what)
    BY <2>1 DEF SetupRequest, AsksSetup
  <2> HIDE DEF what
  <2>3. Moves(r, SetupRequest) /\ req'[r].at = "any account"
    BY <2>2, RequestBegins
  <2>4. role' = role /\ disabled' = disabled
    BY <2>1 DEF AsksSetup, accounts
  <2>5. crossed' = crossed
    BY <2>1 DEF AsksSetup, accounts
  <2>6. \A q \in Request : req'[q] = req[q] \/ req'[q] = None \/ req'[q].at \notin Changing
    BY <2>3 DEF Moves, Changing
  <2>7. AccountsType' /\ (AdminRemains => AdminRemains')
    BY <2>4 DEF AccountsInv, AccountsType, AdminRemains, Admins
  <2> QED BY <2>4, <2>5, <2>6, <2>7, AccountsQuiet DEF AccountsInv
<1>2. CASE FindsAccount(r) \/ InsertsFirst(r) \/ Disarms(r)
  <2>1. req[r] \in SetupRequest
    BY <1>2, AtAccounts DEF FindsAccount, InsertsFirst, Disarms, AccountSteps
  <2>2. Ends(r) \/ Goes(r, "insert") \/ Goes(r, "disarm")
    BY <1>2 DEF FindsAccount, InsertsFirst, Disarms
  <2>3. \A q \in Request : req'[q] = req[q] \/ req'[q] = None \/ req'[q].at \notin Changing
    BY <2>1, <2>2, SetupGoesOn, RequestEnds DEF Moves, Changing
  <2>4. crossed' = crossed
    BY <1>2 DEF FindsAccount, InsertsFirst, Disarms, accounts
  <2>5. CASE role' = role /\ disabled' = disabled
    <3>1. AccountsType' /\ (AdminRemains => AdminRemains')
      BY <2>5 DEF AccountsInv, AccountsType, AdminRemains, Admins
    <3> QED BY <2>3, <2>4, <2>5, <3>1, AccountsQuiet DEF AccountsInv
  <2>6. CASE InsertsFirst(r) /\ role[req[r].target] = None
    <3>1. /\ role' = [role EXCEPT ![req[r].target] = "admin"] /\ disabled' = disabled
          /\ req[r].target \in User /\ role[req[r].target] = None
      BY <2>1, <2>6 DEF InsertsFirst, SetupRequest
    <3>2. AccountsType'
      BY <3>1 DEF AccountsInv, AccountsType, Role
    <3>3. ~crossed => req[r].target \in Admins'
      BY <3>1 DEF AccountsInv, AccountsType, OnlyAccountsDisabled, Admins
    <3>4. ~crossed => AdminRemains'
      BY <3>3 DEF AdminRemains
    <3>5. \A u \in User : role[u] # None => role'[u] = role[u]
      BY <3>1 DEF AccountsInv, AccountsType
    <3> QED BY <2>3, <2>4, <3>1, <3>2, <3>4, <3>5, AccountsQuiet DEF AccountsInv
  <2> QED BY <1>2, <2>5, <2>6 DEF FindsAccount, InsertsFirst, Disarms, accounts
<1> QED BY <1>1, <1>2

\* An account more, made by an administrator.
LEMMA CreatesKeeps ==
  ASSUME RequestsType, AccountsInv,
         NEW a \in User, NEW u \in User, NEW to \in Role, Creates(a, u, to)
  PROVE  AccountsInv'
<1>1. /\ a \in Admins /\ role[u] = None /\ role' = [role EXCEPT ![u] = to]
      /\ disabled' = disabled /\ req' = req
  BY DEF Creates, MayAdmin, Admins
<1>2. crossed' = crossed
  BY DEF Creates
<1>3. AccountsType' /\ \A x \in User : role[x] # None => role'[x] = role[x]
  BY <1>1 DEF AccountsInv, AccountsType
<1>4. a # u
  BY <1>1, AccountsAssumption DEF Admins, Role
<1>5. a \in Admins'
  BY <1>1, <1>4 DEF Admins, AccountsInv, AccountsType
<1>6. AdminRemains'
  BY <1>5 DEF AdminRemains
<1> QED BY <1>1, <1>2, <1>3, <1>6, AccountsQuiet DEF AccountsInv

\* A change begins: no other is under way, or they cross.
LEMMA ChangeBegins ==
  ASSUME RequestsType, AccountsInv, NEW r \in Request,
         \/ \E u \in User, p \in BOOLEAN : AsksRescue(r, u, p)
         \/ \E a, t \in User, to \in Role \cup {None}, off \in BOOLEAN \cup {None} :
              AsksChange(r, a, t, to, off)
  PROVE  AccountsInv'
<1>1. role' = role /\ disabled' = disabled
  BY DEF AsksRescue, AsksChange
<1>2. ~crossed' => ~crossed /\ \A q \in Request : ~IsChanging(q)
  BY DEF AsksRescue, AsksChange, Crosses, IsChanging
<1>3. /\ Moves(r, AccountRequest) /\ req[r] = None /\ req'[r] # None
      /\ req'[r].at = "rescue" \/ (req'[r].at = "role" /\ req'[r].to # None)
                               \/ (req'[r].at = "off" /\ req'[r].off # None)
  <2>1. CASE \E u \in User, p \in BOOLEAN : AsksRescue(r, u, p)
    <3>1. PICK u \in User, p \in BOOLEAN : AsksRescue(r, u, p)
      BY <2>1
    <3>2. [at |-> "rescue", target |-> u, promote |-> p] \in AccountRequest
      BY DEF RescueRequest, AccountRequest
    <3> QED BY <3>1, <3>2, RequestBegins, NoneIsNoRequest DEF AsksRescue
  <2>2. CASE \E a, t \in User, to \in Role \cup {None}, off \in BOOLEAN \cup {None} :
               AsksChange(r, a, t, to, off)
    <3>1. PICK a \in User, t \in User, to \in Role \cup {None}, off \in BOOLEAN \cup {None} :
            AsksChange(r, a, t, to, off)
      BY <2>2
    <3> DEFINE what == [at |-> IF to # None THEN "role" ELSE "off", actor |-> a,
                        target |-> t, to |-> to, off |-> off]
    <3>2. what \in AccountRequest
      BY DEF ChangeRequest, AccountRequest
    <3>3. (what.at = "role" /\ what.to # None) \/ (what.at = "off" /\ what.off # None)
      <4>1. to # None \/ off # None
        BY <3>1 DEF AsksChange
      <4> QED BY <4>1
    <3>4. Begins(r, what)
      BY <3>1 DEF AsksChange
    <3> HIDE DEF what
    <3> QED BY <3>2, <3>3, <3>4, RequestBegins, NoneIsNoRequest
  <2> QED BY <2>1, <2>2
<1>4. /\ AccountsType' /\ (OnlyAccountsDisabled => OnlyAccountsDisabled')
      /\ AdminRemains => AdminRemains'
  BY <1>1 DEF AccountsInv, AccountsType, OnlyAccountsDisabled, AdminRemains, Admins
<1>5. ChangesSay'
  BY <1>3 DEF AccountsInv, ChangesSay, At, Moves
<1>6. ASSUME ~crossed'
      PROVE  ChangesApart' /\ RowWasRead' /\ RoleWasCounted' /\ OffWasCounted'
  <2>1. \A q \in Request \ {r} : ~IsChanging(q)'
    BY <1>2, <1>3, <1>6 DEF IsChanging, Moves
  <2>2. \A q \in Request :
          /\ ~At(q, "count role")' /\ ~At(q, "write role")'
          /\ ~At(q, "count off")' /\ ~At(q, "write off")'
    BY <1>3, <2>1 DEF IsChanging, At, Changing
  <2>3. ChangesApart'
    BY <2>1 DEF ChangesApart
  <2> QED BY <2>2, <2>3 DEF RowWasRead, RoleWasCounted, OffWasCounted
<1> QED BY <1>2, <1>4, <1>5, <1>6 DEF AccountsInv

\* The steps of a change: its row, the count, the write (update_user).
LEMMA ChangeKeeps ==
  ASSUME RequestsType, AccountsInv, NEW r \in Request,
         ReadsRole(r) \/ CountsAdmins(r) \/ WritesRole(r) \/ ReadsOff(r) \/ WritesOff(r)
  PROVE  AccountsInv'
<1>1. req[r] \in ChangeRequest /\ IsChanging(r)
  BY AtAccounts
     DEF ReadsRole, CountsAdmins, WritesRole, ReadsOff, WritesOff, AccountSteps, Changing,
         IsChanging, At
<1>2. Moves(r, AccountRequest)
  BY AccountActMoves DEF AccountAct, AccountsInv
<1>3. crossed' = crossed
  BY DEF ReadsRole, CountsAdmins, WritesRole, ReadsOff, WritesOff, accounts
<1> DEFINE t == req[r].target
<1>4. t \in User /\ None \notin Role
  BY <1>1, AccountsAssumption DEF ChangeRequest
<1>5. CASE Ends(r) /\ role' = role /\ disabled' = disabled
  <2>1. \A q \in Request : req'[q] = req[q] \/ req'[q] = None \/ req'[q].at \notin Changing
    BY <1>5 DEF Ends, RequestsType
  <2>2. AccountsType' /\ (AdminRemains => AdminRemains')
    BY <1>5 DEF AccountsInv, AccountsType, AdminRemains, Admins
  <2> QED BY <1>3, <1>5, <2>1, <2>2, AccountsQuiet DEF AccountsInv
<1>6. ASSUME NEW s \in {"count role", "write role", "count off", "write off"}, Goes(r, s),
             role' = role, disabled' = disabled, ~crossed => role[t] # None,
             s \in {"count role", "write role"} => req[r].to # None,
             s \in {"count off", "write off"} => req[r].off # None,
             s = "write role" /\ req[r].to # "admin" => AnotherAdmin(t) \/ t \notin Admins,
             s = "write off" /\ req[r].off => AnotherAdmin(t) \/ t \notin Admins
      PROVE  AccountsInv'
  <2>1. /\ req'[r] \in ChangeRequest /\ req'[r].at = s /\ req'[r].target = t
        /\ req'[r].to = req[r].to
    BY <1>1, <1>6, ChangeGoesOn
  <2>2. req'[r].off = req[r].off
    BY <1>1, <1>6, ChangeGoesOn
  <2>3. /\ AccountsType' /\ (OnlyAccountsDisabled => OnlyAccountsDisabled')
        /\ AdminRemains => AdminRemains'
    BY <1>6 DEF AccountsInv, AccountsType, OnlyAccountsDisabled, AdminRemains, Admins
  <2>4. (At(r, "role") \/ At(r, "count role") \/ At(r, "write role"))' => req'[r].to # None
    BY <1>6, <2>1 DEF At
  <2>5. (At(r, "off") \/ At(r, "count off") \/ At(r, "write off"))' => req'[r].off # None
    BY <1>6, <2>1, <2>2 DEF At
  <2>6. ~crossed => role'[req'[r].target] # None
    BY <1>6, <2>1
  <2>7. /\ AnotherAdmin(t) => AnotherAdmin(req[r].target)'
        /\ t \notin Admins => req'[r].target \notin Admins'
    BY <1>6, <2>1 DEF AnotherAdmin, Admins
  <2>8. At(r, "write role")' /\ req'[r].to # "admin" =>
          AnotherAdmin(req[r].target)' \/ req'[r].target \notin Admins'
    BY <1>6, <2>1, <2>7 DEF At
  <2>9. At(r, "write off")' /\ req'[r].off =>
          AnotherAdmin(req[r].target)' \/ req'[r].target \notin Admins'
    <3> SUFFICES ASSUME At(r, "write off")', req'[r].off
                 PROVE  AnotherAdmin(req[r].target)' \/ req'[r].target \notin Admins'
      OBVIOUS
    <3>1. s = "write off"
      BY <2>1 DEF At
    <3>2. req[r].off
      BY <2>2, Zenon
    <3> QED BY <1>6, <2>7, <3>1, <3>2, Zenon
  <2>10. ~crossed => OnlyAccountsDisabled' /\ AdminRemains'
    BY <2>3 DEF AccountsInv
  <2> QED BY <1>1, <1>2, <1>3, <2>3, <2>4, <2>5, <2>6, <2>8, <2>9, <2>10, OneChangeMoves
<1>7. CASE ReadsRole(r)
  <2>1. At(r, "role") /\ req[r].to # None /\ role' = role /\ disabled' = disabled
    BY <1>7 DEF ReadsRole, AccountsInv, ChangesSay, accounts
  <2>2. CASE Goes(r, "count role") /\ role[t] # None
    BY <1>6, <2>1, <2>2
  <2>3. CASE Goes(r, "write role") /\ role[t] # None /\ ~(Demotes(r) /\ t \notin disabled)
    BY <1>6, <2>1, <2>3 DEF Demotes, Admins
  <2> QED BY <1>5, <1>7, <2>1, <2>2, <2>3 DEF ReadsRole
<1>8. CASE ReadsOff(r)
  <2>1. At(r, "off") /\ req[r].off # None /\ role' = role /\ disabled' = disabled
    BY <1>8 DEF ReadsOff, AccountsInv, ChangesSay, accounts
  <2>2. CASE Goes(r, "count off") /\ role[t] # None
    BY <1>6, <2>1, <2>2
  <2>3. CASE Goes(r, "write off") /\ role[t] # None /\ ~(Closes(r) /\ role[t] = "admin")
    BY <1>6, <2>1, <2>3 DEF Closes, Admins
  <2> QED BY <1>5, <1>8, <2>1, <2>2, <2>3 DEF ReadsOff

<1>9. CASE CountsAdmins(r)
  <2>1. role' = role /\ disabled' = disabled
    BY <1>9 DEF CountsAdmins, accounts
  <2>2. CASE At(r, "count role") /\ ~TooFew /\ Goes(r, "write role")
    <3>1. req[r].to # None /\ (~crossed => role[t] # None)
      BY <2>2 DEF AccountsInv, ChangesSay, RowWasRead
    <3>2. AnotherAdmin(t)
      BY <2>2, NotTooFew
    <3> QED BY <1>6, <2>1, <2>2, <3>1, <3>2
  <2>3. CASE At(r, "count off") /\ ~TooFew /\ Goes(r, "write off")
    <3>1. req[r].off # None /\ (~crossed => role[t] # None)
      BY <2>3 DEF AccountsInv, ChangesSay, RowWasRead
    <3>2. AnotherAdmin(t)
      BY <2>3, NotTooFew
    <3> QED BY <1>6, <2>1, <2>3, <3>1, <3>2
  <2> QED BY <1>5, <1>9, <2>1, <2>2, <2>3 DEF CountsAdmins
<1>10. CASE WritesRole(r)
  <2>1. /\ role' = [role EXCEPT ![t] = req[r].to] /\ disabled' = disabled
        /\ At(r, "write role") /\ ((Goes(r, "off") /\ req[r].off # None) \/ Ends(r))
    BY <1>10 DEF WritesRole, AfterRole
  <2>2. req[r].to \in Role
    BY <1>1, <2>1 DEF AccountsInv, ChangesSay, ChangeRequest
  <2>3. AccountsType' /\ (~crossed => OnlyAccountsDisabled')
    BY <1>4, <2>1, <2>2 DEF AccountsInv, AccountsType, OnlyAccountsDisabled
  <2>4. ~crossed => AdminRemains'
    <3> SUFFICES ASSUME ~crossed PROVE Admins' # {}
      BY DEF AdminRemains
    <3>1. role[t] # None /\ Admins # {}
      BY <1>4, <2>1 DEF AccountsInv, RowWasRead, AdminRemains
    <3>2. CASE req[r].to = "admin" /\ t \in Admins
      BY <1>4, <2>1, <3>2 DEF Admins, AccountsInv, AccountsType
    <3>3. CASE AnotherAdmin(t) \/ t \notin Admins
      <4>1. PICK u \in Admins : u # t
        BY <3>1, <3>3 DEF AnotherAdmin
      <4>2. u \in Admins'
        BY <1>4, <2>1, <4>1 DEF Admins, AccountsInv, AccountsType
      <4> QED BY <4>2
    <3> QED BY <2>1, <3>2, <3>3 DEF AccountsInv, RoleWasCounted
  <2>5. req'[r] = None \/ (req'[r].at = "off" /\ req'[r].off # None)
    BY <1>1, <2>1, ChangeGoesOn, RequestEnds
  <2> QED BY <1>1, <1>2, <1>3, <2>3, <2>4, <2>5, OneChangeMoves DEF At
<1>11. CASE WritesOff(r)
  <2>1. /\ disabled' \in {disabled \cup {t}, disabled \ {t}} /\ role' = role
        /\ At(r, "write off") /\ Ends(r)
    BY <1>11 DEF WritesOff
  <2>2. ~crossed => /\ role[t] # None /\ AdminRemains
                    /\ disabled' # disabled \ {t} => AnotherAdmin(t) \/ t \notin Admins
    <3>1. ~crossed => role[t] # None /\ AdminRemains
      BY <2>1 DEF AccountsInv, RowWasRead
    <3>2. disabled' # disabled \ {t} => req[r].off
      BY <1>11 DEF WritesOff
    <3>3. ~crossed /\ req[r].off => AnotherAdmin(t) \/ t \notin Admins
      BY <2>1, Zenon DEF AccountsInv, OffWasCounted
    <3> QED BY <3>1, <3>2, <3>3
  <2>3. AccountsType' /\ (~crossed => OnlyAccountsDisabled')
    BY <1>4, <2>1, <2>2 DEF AccountsInv, AccountsType, OnlyAccountsDisabled
  <2>4. ~crossed => AdminRemains'
    <3> SUFFICES ASSUME ~crossed PROVE Admins' # {}
      BY DEF AdminRemains
    <3>1. role[t] # None /\ Admins # {}
      BY <1>4, <2>1, <2>2 DEF AdminRemains
    <3>2. CASE AnotherAdmin(t) \/ t \notin Admins
      <4>1. PICK u \in Admins : u # t
        BY <3>1, <3>2 DEF AnotherAdmin
      <4>2. u \in Admins'
        BY <2>1, <4>1 DEF Admins
      <4> QED BY <4>2
    <3>3. CASE disabled' = disabled \ {t} /\ t \in Admins
      BY <2>1, <3>3 DEF Admins
    <3> QED BY <2>2, <3>2, <3>3
  <2>5. req'[r] = None
    BY <1>1, <2>1, RequestEnds
  <2> QED BY <1>1, <1>2, <1>3, <2>3, <2>4, <2>5, OneChangeMoves DEF At
<1> QED BY <1>7, <1>8, <1>9, <1>10, <1>11

\* The rescue command only gives (reset-password).
LEMMA RescueKeeps ==
  ASSUME RequestsType, AccountsInv, NEW r \in Request, RescueEnables(r) \/ RescuePromotes(r)
  PROVE  AccountsInv'
<1>1. req[r] \in RescueRequest /\ IsChanging(r)
  BY AtAccounts DEF RescueEnables, RescuePromotes, AccountSteps, Changing, IsChanging, At
<1>2. Moves(r, AccountRequest)
  BY AccountActMoves DEF AccountAct, AccountsInv
<1>3. crossed' = crossed
  BY DEF RescueEnables, RescuePromotes
<1> DEFINE t == req[r].target
<1>4. t \in User /\ None \notin Role /\ "admin" \in Role
  BY <1>1, AccountsAssumption DEF RescueRequest, Role
<1>5. req'[r] = None \/ req'[r].at = "promote"
  BY <1>1, RescueGoesOn, RequestEnds DEF RescueEnables, RescuePromotes
<1>6. CASE RescueEnables(r)
  <2>1. disabled' \subseteq disabled /\ role' = role
    BY <1>6 DEF RescueEnables
  <2>2. AccountsType' /\ (OnlyAccountsDisabled => OnlyAccountsDisabled')
    BY <2>1 DEF AccountsInv, AccountsType, OnlyAccountsDisabled
  <2>3. AdminRemains => AdminRemains'
    BY <2>1 DEF AdminRemains, Admins
  <2>4. ~crossed => OnlyAccountsDisabled' /\ AdminRemains'
    BY <2>2, <2>3 DEF AccountsInv
  <2> QED BY <1>1, <1>2, <1>3, <1>5, <2>2, <2>4, OneChangeMoves DEF At
<1>7. CASE RescuePromotes(r)
  <2>1. role' = [role EXCEPT ![t] = "admin"] /\ disabled' = disabled
    BY <1>7 DEF RescuePromotes
  <2>2. AccountsType' /\ (OnlyAccountsDisabled => OnlyAccountsDisabled')
    BY <1>4, <2>1 DEF AccountsInv, AccountsType, OnlyAccountsDisabled
  <2>3. OnlyAccountsDisabled /\ AdminRemains => AdminRemains'
    <3>1. Admins \subseteq Admins'
      BY <1>4, <2>1 DEF Admins, AccountsInv, AccountsType
    <3>2. t \notin disabled => t \in Admins'
      BY <1>4, <2>1 DEF Admins, AccountsInv, AccountsType
    <3>3. OnlyAccountsDisabled /\ AdminRemains /\ t \in disabled => Admins # {}
      BY <1>4 DEF OnlyAccountsDisabled, AdminRemains
    <3> QED BY <3>1, <3>2, <3>3 DEF AdminRemains
  <2>4. ~crossed => OnlyAccountsDisabled' /\ AdminRemains'
    BY <2>2, <2>3 DEF AccountsInv
  <2> QED BY <1>1, <1>2, <1>3, <1>5, <2>2, <2>4, OneChangeMoves DEF At
<1> QED BY <1>6, <1>7

\* A step of the accounts.
LEMMA AccountsStep ==
  ASSUME RequestsType, AccountsInv, AccountsNext
  PROVE  RequestsType' /\ AccountsInv'
<1>1. ASSUME NEW r \in Request, AccountAct(r)
      PROVE  RequestsType' /\ AccountsInv'
  <2>1. Moves(r, AccountRequest)
    BY <1>1, AccountActMoves DEF AccountsInv
  <2>2. \E x : req' = [req EXCEPT ![r] = x]
    BY <1>1 DEF AccountAct, AsksSetup, AsksRescue, AsksChange, FindsAccount, InsertsFirst, Disarms,
         ReadsRole, CountsAdmins, WritesRole, ReadsOff, WritesOff, RescueEnables,
         RescuePromotes, AfterRole, Begins, Goes, Ends
  <2>3. RequestsType'
    BY <2>1, <2>2 DEF RequestsType, Moves
  <2>4. AccountsInv'
    BY <1>1, SetupKeeps, ChangeBegins, ChangeKeeps, RescueKeeps DEF AccountAct
  <2> QED BY <2>3, <2>4
<1>2. ASSUME NEW a \in User, NEW u \in User, NEW to \in Role, Creates(a, u, to)
      PROVE  RequestsType' /\ AccountsInv'
  BY <1>2, CreatesKeeps DEF Creates, RequestsType
<1> QED BY <1>1, <1>2 DEF AccountsNext, AccountAct

-----------------------------------------------------------------------------
(* The telephones.                                                         *)

PhonesType ==
  /\ code \in [Code -> CodeRow \cup {None}]
  /\ device \in [Device -> DeviceRow \cup {None}]
  /\ phone \in [Device -> Phone]

Pairing(r) == At(r, "owner") \/ At(r, "pair")

\* A telephone about to be paired is unknown yet, its code is spent and has
\* paired nobody.
PairsNew ==
  \A r \in Request : Pairing(r) =>
    /\ ~Known(req[r].device)
    /\ code[req[r].code] # None /\ code[req[r].code].is = "used"
    /\ \A d \in Device : Known(d) => device[d].code # req[r].code

PairedBySpent ==
  \A d \in Device : Known(d) /\ device[d].code # None =>
    code[device[d].code] # None /\ code[device[d].code].is = "used"

PairingsApart ==
  \A q, r \in Request :
    Pairing(q) /\ Pairing(r) /\ (req[q].device = req[r].device \/ req[q].code = req[r].code) =>
      q = r

\* Only a paired telephone holds a token, asks for one, or is archived.
TokenIsKnown == \A d \in Device : phone[d].token => Known(d)
AsksAsKnown ==
  \A r \in Request :
    At(r, "secret of device") \/ At(r, "row of device") \/ At(r, "serve") \/ At(r, "archive") =>
      Known(req[r].device)

\* What was sent after the revocation stops at the row.
StopsAtRow ==
  \A r \in Request :
    /\ At(r, "row of device") /\ req[r].after => device[req[r].device].revoked
    /\ At(r, "serve") => ~req[r].after

PhonesInv ==
  /\ PhonesType /\ PairsNew /\ PairedBySpent /\ PairingsApart /\ TokenIsKnown /\ AsksAsKnown
  /\ StopsAtRow /\ RevokedIsShutOut

PhoneAct(r) ==
  \/ \E d \in Device :
       \/ \E c \in Code : Pairs(r, d, c)
       \/ AsksToken(r, d) \/ UsesToken(r, d)
       \/ \E a \in User : AsksArchive(r, a, d)
  \/ LooksAtOwner(r) \/ InsertsDevice(r) \/ GrantsToken(r)
  \/ LooksAtDevice(r) \/ Serves(r) \/ Archives(r)

\* A request at a step of the telephones is one of theirs.
LEMMA AtPhones ==
  ASSUME RequestsType, NEW r \in Request, NEW s \in PhoneSteps, At(r, s)
  PROVE  /\ req[r] \in PhoneRequest /\ req[r].at = s
         /\ s \in {"owner", "pair"} => req[r] \in PairRequest
         /\ s = "secret of device" => req[r] \in TokenRequest
         /\ s \in {"row of device", "serve"} => req[r] \in UseRequest
         /\ s = "archive" => req[r] \in ArchiveRequest
<1>1. /\ req[r] \in AccountRequest \cup PersonRequest \cup PhoneRequest \cup {None}
      /\ req[r] # None /\ req[r].at = s
  BY DEF RequestsType, At
<1>2. req[r].at \notin PersonSteps /\ req[r].at \notin AccountSteps
  BY <1>1 DEF AccountSteps, PersonSteps, PhoneSteps, Changing
<1>3. req[r] \in PhoneRequest
  BY <1>1, <1>2, KindOfRequest
<1> QED BY <1>1, <1>3, PhoneKinds

\* A request that goes on keeps what it carries.
LEMMA PairGoesOn ==
  ASSUME RequestsType, NEW r \in Request, req[r] \in PairRequest, NEW s \in {"owner", "pair"},
         Goes(r, s)
  PROVE  /\ Moves(r, PairRequest) /\ req'[r] \in PairRequest /\ req'[r].at = s
         /\ req'[r].target = req[r].target /\ req'[r].device = req[r].device
         /\ req'[r].code = req[r].code
BY DEF RequestsType, Goes, Moves, PairRequest

\* A request that goes on keeps what it carries.
LEMMA UseGoesOn ==
  ASSUME RequestsType, NEW r \in Request, req[r] \in UseRequest,
         NEW s \in {"row of device", "serve"}, Goes(r, s)
  PROVE  /\ Moves(r, UseRequest) /\ req'[r] \in UseRequest /\ req'[r].at = s
         /\ req'[r].target = req[r].target /\ req'[r].device = req[r].device
         /\ req'[r].after = req[r].after
BY DEF RequestsType, Goes, Moves, UseRequest

\* What leaves spent codes spent and paired telephones paired, and begins or
\* moves no request of theirs.
LEMMA PhonesKept ==
  ASSUME RequestsType, PhonesInv, PhonesType', RevokedIsShutOut',
         \A q \in Request : req'[q] = req[q] \/ req'[q] = None \/ req'[q].at \notin PhoneSteps,
         \A c \in Code : code[c] # None /\ code[c].is = "used" => code'[c] = code[c],
         \A d \in Device : /\ Known(d)' <=> Known(d)
                           /\ Known(d) => device'[d].code = device[d].code,
         \A d \in Device : device[d].revoked => device'[d].revoked,
         \A d \in Device : phone'[d].token => phone[d].token \/ Known(d)
  PROVE  PhonesInv'
<1>1. \A q \in Request, s \in PhoneSteps : At(q, s)' => At(q, s) /\ req'[q] = req[q]
  BY DEF At
<1>2. \A q \in Request : Pairing(q)' =>
        Pairing(q) /\ req'[q] = req[q] /\ req[q].device \in Device /\ req[q].code \in Code
  BY <1>1, AtPhones DEF Pairing, PhoneSteps, PairRequest
<1>0. \A q \in Request :
        At(q, "secret of device") \/ At(q, "row of device") \/ At(q, "serve") \/ At(q, "archive")
          => req[q].device \in Device
  BY AtPhones DEF PhoneSteps, TokenRequest, UseRequest, ArchiveRequest
<1>3. TokenIsKnown'
  BY DEF PhonesInv, TokenIsKnown
<1>4. PairsNew'
  BY <1>2 DEF PhonesInv, PairsNew
<1>5. PairingsApart'
  BY <1>2 DEF PhonesInv, PairingsApart
<1>6. AsksAsKnown'
  BY <1>0, <1>1 DEF PhonesInv, AsksAsKnown, PhoneSteps
<1>7. StopsAtRow'
  <2> SUFFICES ASSUME NEW r \in Request
               PROVE  /\ At(r, "row of device")' /\ req'[r].after => device'[req'[r].device].revoked
                      /\ At(r, "serve")' => ~req'[r].after
    BY DEF StopsAtRow
  <2>1. At(r, "row of device")' => At(r, "row of device") /\ req'[r] = req[r]
    BY <1>1 DEF PhoneSteps
  <2>2. At(r, "serve")' => At(r, "serve") /\ req'[r] = req[r]
    BY <1>1 DEF PhoneSteps
  <2>3. /\ At(r, "row of device") /\ req[r].after => device[req[r].device].revoked
        /\ At(r, "serve") => ~req[r].after
    BY Zenon DEF PhonesInv, StopsAtRow
  <2>4. At(r, "row of device") => req[r].device \in Device
    BY <1>0
  <2> QED BY <2>1, <2>2, <2>3, <2>4, Zenon
<1>8. PairedBySpent'
  BY DEF PhonesInv, PhonesType, PairedBySpent, Known, DeviceRow
<1> QED BY <1>3, <1>4, <1>5, <1>6, <1>7, <1>8 DEF PhonesInv

\* A step of a telephone's request: what it does to the request.
LEMMA PhoneActMoves ==
  ASSUME RequestsType, PhonesInv, AccountsType, NEW r \in Request, PhoneAct(r)
  PROVE  Moves(r, PhoneRequest)
<1> PairRequest \subseteq PhoneRequest /\ TokenRequest \subseteq PhoneRequest
    /\ UseRequest \subseteq PhoneRequest /\ ArchiveRequest \subseteq PhoneRequest
  BY DEF PhoneRequest
<1>a. ASSUME NEW kind \in {PairRequest, TokenRequest, UseRequest, ArchiveRequest}, Moves(r, kind)
      PROVE  Moves(r, PhoneRequest)
  BY <1>a DEF Moves
<1>1. ASSUME NEW d \in Device, NEW c \in Code, Pairs(r, d, c)
      PROVE  Moves(r, PhoneRequest)
  <2>1. code[c].owner \in User
    BY <1>1 DEF Pairs, CanBePresented, PhonesInv, PhonesType, CodeRow
  <2>2. [at |-> "owner", target |-> code[c].owner, device |-> d, code |-> c] \in PairRequest
    BY <2>1 DEF PairRequest
  <2> QED BY <1>a, <1>1, <2>2, RequestBegins DEF Pairs
<1>2. ASSUME NEW d \in Device, AsksToken(r, d)
      PROVE  Moves(r, PhoneRequest)
  <2>1. /\ device[d] \in DeviceRow /\ phone[d].secret \in Nat
        /\ device[d].owner \in User /\ device[d].revoked \in BOOLEAN
    BY <1>2 DEF AsksToken, Known, PhonesInv, PhonesType, DeviceRow, Phone
  <2>2. [at |-> "secret of device", device |-> d, target |-> device[d].owner,
         secret |-> phone[d].secret, revoked |-> device[d].revoked] \in TokenRequest
    BY <2>1 DEF TokenRequest
  <2> QED BY <1>a, <1>2, <2>2, RequestBegins DEF AsksToken
<1>3. ASSUME NEW d \in Device, UsesToken(r, d)
      PROVE  Moves(r, PhoneRequest)
  <2>1. device[d].owner \in User /\ device[d].revoked \in BOOLEAN
    BY <1>3 DEF UsesToken, Known, PhonesInv, PhonesType, TokenIsKnown, DeviceRow
  <2>2. [at |-> "row of device", device |-> d, target |-> device[d].owner,
         after |-> device[d].revoked] \in UseRequest
    BY <2>1 DEF UseRequest
  <2> QED BY <1>a, <1>3, <2>2, RequestBegins DEF UsesToken
<1>4. ASSUME NEW d \in Device, NEW a \in User, AsksArchive(r, a, d)
      PROVE  Moves(r, PhoneRequest)
  <2>1. [at |-> "archive", device |-> d] \in ArchiveRequest
    BY DEF ArchiveRequest
  <2> QED BY <1>a, <1>4, <2>1, RequestBegins DEF AsksArchive
<1>5. CASE LooksAtOwner(r) \/ InsertsDevice(r)
  <2>1. req[r] \in PairRequest /\ (Ends(r) \/ Goes(r, "pair"))
    BY <1>5, AtPhones DEF LooksAtOwner, InsertsDevice, PhoneSteps
  <2> QED BY <1>a, <2>1, PairGoesOn, RequestEnds
<1>6. CASE GrantsToken(r)
  <2>1. req[r] \in TokenRequest /\ Ends(r)
    BY <1>6, AtPhones DEF GrantsToken, PhoneSteps
  <2> QED BY <1>a, <2>1, RequestEnds
<1>7. CASE LooksAtDevice(r) \/ Serves(r)
  <2>1. req[r] \in UseRequest /\ (Ends(r) \/ Goes(r, "serve"))
    BY <1>7, AtPhones DEF LooksAtDevice, Serves, PhoneSteps
  <2> QED BY <1>a, <2>1, UseGoesOn, RequestEnds
<1>8. CASE Archives(r)
  <2>1. req[r] \in ArchiveRequest /\ Ends(r)
    BY <1>8, AtPhones DEF Archives, PhoneSteps
  <2> QED BY <1>a, <2>1, RequestEnds
<1> QED BY <1>1, <1>2, <1>3, <1>4, <1>5, <1>6, <1>7, <1>8 DEF PhoneAct

\* A row with another flag, or another secret, is a row, of the same code.
LEMMA RowFlags ==
  ASSUME NEW row \in DeviceRow
  PROVE  /\ \A b \in BOOLEAN :
              /\ [row EXCEPT !.revoked = b] \in DeviceRow
              /\ [row EXCEPT !.revoked = b].code = row.code
              /\ [row EXCEPT !.archived = b] \in DeviceRow
              /\ [row EXCEPT !.archived = b].code = row.code
         /\ [row EXCEPT !.secret = @ + 1] \in DeviceRow
         /\ [row EXCEPT !.secret = @ + 1].code = row.code
BY DEF DeviceRow

\* The flags are apart.
LEMMA FlagsApart ==
  ASSUME NEW row \in DeviceRow
  PROVE  /\ [row EXCEPT !.revoked = TRUE].revoked
         /\ \A b \in BOOLEAN : row.revoked => [row EXCEPT !.archived = b].revoked
         /\ row.revoked => [row EXCEPT !.secret = @ + 1].revoked
BY DEF DeviceRow

\* Steps that are no request's, and those that end a request without a change
\* of who is paired: codes issued and lapsed, revocations, archives, new
\* secrets, tokens granted and lost.
LEMMA TablesKeep ==
  ASSUME RequestsType, PhonesInv, late' = late,
         \/ req' = req
         \/ \E r \in Request : Ends(r),
         \/ \E a \in User, c \in Code : IssuesCode(a, c)
         \/ \E c \in Code : LapsesCode(c)
         \/ \E a \in User, d \in Device : Revokes(a, d) \/ Unarchives(a, d) \/ Rotates(a, d)
         \/ \E d \in Device : LosesToken(d)
         \/ \E r \in Request : GrantsToken(r) \/ Archives(r)
  PROVE  PhonesInv'
<1> USE DevicesAssumption
<1>0. /\ \A q \in Request : req'[q] = req[q] \/ req'[q] = None \/ req'[q].at \notin PhoneSteps
      /\ RevokedIsShutOut'
  BY DEF RequestsType, Ends, PhonesInv, RevokedIsShutOut
<1>1. CASE \E a \in User, c \in Code : IssuesCode(a, c)
  <2>1. PICK a \in User, c \in Code : IssuesCode(a, c)
    BY <1>1
  <2>2. [owner |-> a, is |-> "open"] \in CodeRow
    BY DEF CodeRow
  <2>3. PhonesType' /\ device' = device /\ phone' = phone
    BY <2>1, <2>2 DEF IssuesCode, PhonesInv, PhonesType
  <2>4. \A x : code[x] # None /\ code[x].is = "used" => code'[x] = code[x]
    BY <2>1 DEF IssuesCode, PhonesInv, PhonesType
  <2> QED BY <1>0, <2>3, <2>4, PhonesKept DEF Known
<1>2. CASE \E c \in Code : LapsesCode(c)
  <2>1. PICK c \in Code : LapsesCode(c)
    BY <1>2
  <2>3. PhonesType' /\ device' = device /\ phone' = phone
    BY <2>1 DEF LapsesCode, CanBePresented, PhonesInv, PhonesType, CodeRow
  <2>4. \A x : code[x] # None /\ code[x].is = "used" => code'[x] = code[x]
    BY <2>1 DEF LapsesCode, CanBePresented, PhonesInv, PhonesType
  <2> QED BY <1>0, <2>3, <2>4, PhonesKept DEF Known
<1>3. ASSUME NEW d \in Device, Known(d), code' = code, phone' = phone,
             NEW row \in DeviceRow, device' = [device EXCEPT ![d] = row],
             row.code = device[d].code, device[d].revoked => row.revoked
      PROVE  PhonesInv'
  <2>1. PhonesType'
    BY <1>3 DEF PhonesInv, PhonesType
  <2>2. \A x \in Device : /\ Known(x)' <=> Known(x)
                          /\ Known(x) => device'[x].code = device[x].code
    BY <1>3 DEF Known, PhonesInv, PhonesType
  <2>3. \A x \in Device : device[x].revoked => device'[x].revoked
    <3> TAKE x \in Device
    <3>1. CASE x = d
      <4>1. device'[x] = row
        BY <1>3, <3>1 DEF PhonesInv, PhonesType
      <4> QED BY <1>3, <3>1, <4>1, Zenon
    <3>2. CASE x # d
      <4>1. device'[x] = device[x]
        BY <1>3, <3>2 DEF PhonesInv, PhonesType
      <4> QED BY <4>1, Zenon
    <3> QED BY <3>1, <3>2
  <2> QED BY <1>0, <1>3, <2>1, <2>2, <2>3, PhonesKept
<1>8. ASSUME NEW d \in Device, Known(d), code' = code, phone' = phone,
             \/ device' = [device EXCEPT ![d].revoked = TRUE]
             \/ \E b \in BOOLEAN : device' = [device EXCEPT ![d].archived = b]
             \/ device' = [device EXCEPT ![d].secret = @ + 1]
      PROVE  PhonesInv'
  <2>1. device[d] \in DeviceRow
    BY <1>8 DEF Known, PhonesInv, PhonesType
  <2>2. CASE device' = [device EXCEPT ![d].revoked = TRUE]
    BY <1>3, <1>8, <2>1, <2>2, RowFlags, FlagsApart
  <2>3. ASSUME NEW b \in BOOLEAN, device' = [device EXCEPT ![d].archived = b]
        PROVE  PhonesInv'
    BY <1>3, <1>8, <2>1, <2>3, RowFlags, FlagsApart
  <2>4. CASE device' = [device EXCEPT ![d].secret = @ + 1]
    BY <1>3, <1>8, <2>1, <2>4, RowFlags, FlagsApart
  <2> QED BY <1>8, <2>2, <2>3, <2>4
<1>4. CASE \E a \in User, d \in Device : Revokes(a, d) \/ Unarchives(a, d) \/ Rotates(a, d)
  BY <1>4, <1>8 DEF Revokes, Unarchives, Rotates, Over
<1>5. CASE \E r \in Request : Archives(r)
  <2>1. PICK r \in Request : Archives(r)
    BY <1>5
  <2>2. req[r].device \in Device /\ Known(req[r].device)
    BY <2>1, AtPhones DEF Archives, PhoneSteps, ArchiveRequest, PhonesInv, AsksAsKnown
  <2> QED BY <1>8, <2>1, <2>2 DEF Archives
<1>6. CASE \E d \in Device : LosesToken(d)
  <2>1. PICK d \in Device : LosesToken(d)
    BY <1>6
  <2>2. PhonesType' /\ device' = device /\ code' = code
    BY <2>1 DEF LosesToken, PhonesInv, PhonesType, Phone
  <2>3. \A x \in Device : phone'[x].token => phone[x].token
    BY <2>1 DEF LosesToken, PhonesInv, PhonesType, Phone
  <2> QED BY <1>0, <2>2, <2>3, PhonesKept DEF Known
<1>7. CASE \E r \in Request : GrantsToken(r)
  <2>1. PICK r \in Request : GrantsToken(r)
    BY <1>7
  <2> DEFINE d == req[r].device
  <2>2. d \in Device /\ Known(d)
    BY <2>1, AtPhones DEF GrantsToken, PhoneSteps, TokenRequest, PhonesInv, AsksAsKnown
  <2>3. /\ device' = device /\ code' = code
        /\ phone' = phone \/ \E b \in BOOLEAN : phone' = [phone EXCEPT ![d].token = b]
    <3>1. \A heard \in BOOLEAN : (phone[d].token \/ heard) \in BOOLEAN
      OBVIOUS
    <3> QED BY <2>1, <2>2, <3>1 DEF GrantsToken, PhonesInv, PhonesType
  <2>4. PhonesType' /\ \A x \in Device : x # d => phone'[x] = phone[x]
    <3>1. \A p \in Phone, b \in BOOLEAN : [p EXCEPT !.token = b] \in Phone
      BY DEF Phone
    <3>2. phone' = phone \/ \E p \in Phone : phone' = [phone EXCEPT ![d] = p]
      BY <2>2, <2>3, <3>1 DEF PhonesInv, PhonesType
    <3> QED BY <2>2, <2>3, <3>2 DEF PhonesInv, PhonesType
  <2> QED BY <1>0, <2>2, <2>3, <2>4, PhonesKept DEF Known
<1> QED BY <1>1, <1>2, <1>4, <1>5, <1>6, <1>7

\* Requests of telephones that leave the tables alone: what becomes of the one
\* that moves is enough.
LEMMA OnePhoneMoves ==
  ASSUME PhonesInv, code' = code, device' = device, phone' = phone, RevokedIsShutOut',
         NEW r \in Request, Moves(r, PhoneRequest),
         Pairing(r)' => /\ Pairing(r) /\ req'[r].device = req[r].device
                        /\ req'[r].code = req[r].code,
         (At(r, "secret of device") \/ At(r, "row of device") \/ At(r, "serve") \/ At(r, "archive"))'
           => Known(req'[r].device),
         At(r, "row of device")' /\ req'[r].after => device[req'[r].device].revoked,
         At(r, "serve")' => ~req'[r].after
  PROVE  PhonesInv'
<1>1. PhonesType' /\ TokenIsKnown' /\ PairedBySpent'
  BY DEF PhonesInv, PhonesType, TokenIsKnown, PairedBySpent, Known
<1>0. \A q \in Request : Pairing(q)' => /\ Pairing(q) /\ req'[q].device = req[q].device
                                        /\ req'[q].code = req[q].code
  BY DEF Pairing, Moves, At
<1>2. PairsNew'
  BY <1>0 DEF PhonesInv, PairsNew, Known
<1>3. PairingsApart'
  BY <1>0 DEF PhonesInv, PairingsApart
<1>4. AsksAsKnown'
  BY DEF PhonesInv, AsksAsKnown, Moves, At, Known
<1>5. StopsAtRow'
  <2> SUFFICES ASSUME NEW q \in Request
               PROVE  /\ At(q, "row of device")' /\ req'[q].after => device'[req'[q].device].revoked
                      /\ At(q, "serve")' => ~req'[q].after
    BY DEF StopsAtRow
  <2>1. CASE q = r
    BY <2>1, Zenon
  <2>2. CASE q # r
    <3>1. /\ req'[q] = req[q]
          /\ At(q, "row of device")' => At(q, "row of device")
          /\ At(q, "serve")' => At(q, "serve")
      BY <2>2 DEF Moves, At
    <3>2. /\ At(q, "row of device") /\ req[q].after => device[req[q].device].revoked
          /\ At(q, "serve") => ~req[q].after
      BY Zenon DEF PhonesInv, StopsAtRow
    <3> QED BY <3>1, <3>2, Zenon
  <2> QED BY <2>1, <2>2
<1> QED BY <1>1, <1>2, <1>3, <1>4, <1>5 DEF PhonesInv

\* A telephone asks, with its secret or its token, or is to be archived; its
\* row is looked at; it is served.
LEMMA PhoneAsksKeeps ==
  ASSUME RequestsType, PhonesInv, AccountsType, NEW r \in Request,
         \/ \E d \in Device : \/ AsksToken(r, d) \/ UsesToken(r, d)
                              \/ \E a \in User : AsksArchive(r, a, d)
         \/ LooksAtOwner(r) \/ LooksAtDevice(r) \/ Serves(r)
  PROVE  PhonesInv'
<1>0. Moves(r, PhoneRequest)
  BY PhoneActMoves DEF PhoneAct
<1>a. code' = code /\ device' = device /\ phone' = phone
  BY DEF AsksToken, UsesToken, AsksArchive, LooksAtOwner, LooksAtDevice, Serves, devices
<1>1. ASSUME NEW d \in Device, Known(d), late' = late, NEW what, Begins(r, what),
             what.at \in {"secret of device", "archive"}, what.device = d
      PROVE  PhonesInv'
  <2>1. req'[r] = what
    BY <1>1 DEF Begins, RequestsType
  <2>2. RevokedIsShutOut'
    BY <1>1 DEF RevokedIsShutOut, PhonesInv
  <2> QED BY <1>0, <1>a, <1>1, <2>1, <2>2, OnePhoneMoves DEF At, Pairing
<1>6. CASE \E d \in Device : AsksToken(r, d)
  <2>1. PICK d \in Device : AsksToken(r, d)
    BY <1>6
  <2> DEFINE what == [at |-> "secret of device", device |-> d, target |-> device[d].owner,
                      secret |-> phone[d].secret, revoked |-> device[d].revoked]
  <2>2. Begins(r, what) /\ Known(d) /\ what.at = "secret of device" /\ what.device = d
    BY <2>1 DEF AsksToken
  <2>3. late' = late
    BY <2>1 DEF AsksToken, devices
  <2> HIDE DEF what
  <2> QED BY <1>1, <2>2, <2>3
<1>7. CASE \E d \in Device, a \in User : AsksArchive(r, a, d)
  <2>1. PICK d \in Device, a \in User : AsksArchive(r, a, d)
    BY <1>7
  <2> DEFINE what == [at |-> "archive", device |-> d]
  <2>2. Begins(r, what) /\ Known(d) /\ what.at = "archive" /\ what.device = d
    BY <2>1 DEF AsksArchive, Over
  <2>3. late' = late
    BY <2>1 DEF AsksArchive, devices
  <2> HIDE DEF what
  <2> QED BY <1>1, <2>2, <2>3
<1>2. CASE \E d \in Device : UsesToken(r, d)
  <2>1. PICK d \in Device : UsesToken(r, d)
    BY <1>2
  <2>2. late' = late
    BY <2>1 DEF UsesToken, devices
  <2> DEFINE what == [at |-> "row of device", device |-> d, target |-> device[d].owner,
                      after |-> device[d].revoked]
  <2>3. /\ what.device = d /\ what.at = "row of device" /\ Begins(r, what)
        /\ what.after = device[d].revoked
    BY <2>1 DEF UsesToken
  <2> HIDE DEF what
  <2>4. req'[r] = what /\ Known(d)
    BY <2>1, <2>3 DEF Begins, RequestsType, UsesToken, PhonesInv, TokenIsKnown
  <2>5. req'[r].after => device[req'[r].device].revoked
    <3>1. what.after = device[what.device].revoked
      BY <2>3
    <3> QED BY <2>4, <3>1, Zenon
  <2>6. RevokedIsShutOut'
    BY <2>2 DEF RevokedIsShutOut, PhonesInv
  <2>7. req'[r].at = "row of device" /\ req'[r].device = d
    BY <2>3, <2>4
  <2> QED BY <1>0, <1>a, <2>4, <2>5, <2>6, <2>7, OnePhoneMoves DEF At, Pairing
<1>3. CASE LooksAtOwner(r)
  <2>1. req[r] \in PairRequest /\ (Ends(r) \/ Goes(r, "pair")) /\ Pairing(r)
    BY <1>3, AtPhones DEF LooksAtOwner, PhoneSteps, Pairing
  <2>2. late' = late
    BY <1>3 DEF LooksAtOwner, devices
  <2>3. RevokedIsShutOut'
    BY <2>2 DEF RevokedIsShutOut, PhonesInv
  <2>4. req'[r] = None \/ /\ req'[r].at = "pair" /\ req'[r].device = req[r].device
                          /\ req'[r].code = req[r].code
    BY <2>1, PairGoesOn, RequestEnds
  <2> QED BY <1>0, <1>a, <2>1, <2>3, <2>4, OnePhoneMoves DEF At, Pairing
<1>4. CASE LooksAtDevice(r)
  <2>1. req[r] \in UseRequest /\ At(r, "row of device")
    BY <1>4, AtPhones DEF LooksAtDevice, PhoneSteps
  <2>2. late' = late
    BY <1>4 DEF LooksAtDevice, devices
  <2>3. RevokedIsShutOut'
    BY <2>2 DEF RevokedIsShutOut, PhonesInv
  <2>4. CASE Ends(r)
    BY <1>0, <1>a, <2>1, <2>3, <2>4, RequestEnds, OnePhoneMoves DEF At, Pairing
  <2>5. CASE ~device[req[r].device].revoked /\ Goes(r, "serve")
    <3>1. req'[r].at = "serve" /\ req'[r].device = req[r].device /\ req'[r].after = req[r].after
      BY <2>1, <2>5, UseGoesOn
    <3>2. ~req[r].after
      BY <2>1, <2>5, Zenon DEF PhonesInv, StopsAtRow
    <3>3. ~req'[r].after
      <4>1. req'[r].after = req[r].after
        BY <3>1
      <4> QED BY <3>2, <4>1, Zenon
    <3>4. Known(req[r].device)
      BY <2>1 DEF PhonesInv, AsksAsKnown
    <3> QED BY <1>0, <1>a, <2>3, <3>1, <3>3, <3>4, OnePhoneMoves DEF At, Pairing
  <2> QED BY <1>4, <2>4, <2>5 DEF LooksAtDevice, Shut
<1>5. CASE Serves(r)
  <2>1. ~req[r].after
    BY <1>5, Zenon DEF Serves, PhonesInv, StopsAtRow
  <2>2. RevokedIsShutOut'
    BY <1>5, <2>1, Zenon DEF Serves, PhonesInv, RevokedIsShutOut
  <2>3. req'[r] = None
    BY <1>5 DEF Serves, Ends, RequestsType
  <2> QED BY <1>0, <1>a, <2>2, <2>3, OnePhoneMoves DEF At, Pairing
<1> QED BY <1>2, <1>3, <1>4, <1>5, <1>6, <1>7

\* A code is presented: it is spent, and nobody else presents it.
LEMMA PairsKeeps ==
  ASSUME RequestsType, PhonesInv, AccountsType, NEW r \in Request, NEW d \in Device,
         NEW c \in Code, Pairs(r, d, c)
  PROVE  PhonesInv'
<1>1. Moves(r, PhoneRequest)
  BY PhoneActMoves DEF PhoneAct
<1>2. /\ code' = [code EXCEPT ![c].is = "used"] /\ device' = device /\ phone' = phone
      /\ code[c] # None /\ code[c].is = "open" /\ ~Known(d)
      /\ \A q \in Request : Pairing(q) => req[q].device # d
  BY DEF Pairs, Consumed, CanBePresented, Pairing, At
<1>3. req'[r].at = "owner" /\ req'[r].device = d /\ req'[r].code = c
  <2> DEFINE what == [at |-> "owner", target |-> code[c].owner, device |-> d, code |-> c]
  <2>1. Begins(r, what) /\ what.at = "owner" /\ what.device = d /\ what.code = c
    BY DEF Pairs
  <2> HIDE DEF what
  <2> QED BY <2>1 DEF Begins, RequestsType
<1>4. /\ PhonesType' /\ code'[c] # None /\ code'[c].is = "used"
      /\ \A x \in Code \ {c} : code'[x] = code[x]
  <2>1. [code[c] EXCEPT !.is = "used"] \in CodeRow
    BY <1>2 DEF PhonesInv, PhonesType, CodeRow
  <2> QED BY <1>2, <2>1, DevicesAssumption DEF PhonesInv, PhonesType, CodeRow
<1>5. \A q \in Request \ {r} : Pairing(q)' =>
        /\ Pairing(q) /\ req'[q] = req[q] /\ req[q].device # d /\ req[q].code # c
        /\ req[q].code \in Code
  <2>1. \A q \in Request : Pairing(q) => req[q].code \in Code
    BY AtPhones DEF Pairing, PhoneSteps, PairRequest
  <2> QED BY <1>1, <1>2, <2>1 DEF Pairing, Moves, At, PhonesInv, PairsNew
<1>6. \A x \in Device : Known(x) => device[x].code # c
  BY <1>2, DevicesAssumption DEF PhonesInv, PairedBySpent
<1>7. PairsNew'
  BY <1>2, <1>3, <1>4, <1>5, <1>6 DEF PhonesInv, PairsNew, Known
<1>8. PairingsApart'
  BY <1>3, <1>5 DEF PhonesInv, PairingsApart
<1>9. TokenIsKnown' /\ AsksAsKnown' /\ StopsAtRow' /\ PairedBySpent' /\ RevokedIsShutOut'

  <2>1. TokenIsKnown'
    BY <1>2 DEF PhonesInv, TokenIsKnown, Known
  <2>2. \A q \in Request, s \in PhoneSteps \ {"owner", "pair"} :
          At(q, s)' => At(q, s) /\ req'[q] = req[q]
    BY <1>1, <1>3 DEF Moves, At
  <2>3. AsksAsKnown'
    BY <1>2, <2>2 DEF PhonesInv, AsksAsKnown, Known, PhoneSteps
  <2>4. StopsAtRow'
    <3> SUFFICES ASSUME NEW q \in Request
                 PROVE  /\ At(q, "row of device")' /\ req'[q].after =>
                             device'[req'[q].device].revoked
                        /\ At(q, "serve")' => ~req'[q].after
      BY DEF StopsAtRow
    <3>1. At(q, "row of device")' => At(q, "row of device") /\ req'[q] = req[q]
      BY <2>2 DEF PhoneSteps
    <3>2. At(q, "serve")' => At(q, "serve") /\ req'[q] = req[q]
      BY <2>2 DEF PhoneSteps
    <3>3. /\ At(q, "row of device") /\ req[q].after => device[req[q].device].revoked
          /\ At(q, "serve") => ~req[q].after
      BY Zenon DEF PhonesInv, StopsAtRow
    <3> QED BY <1>2, <3>1, <3>2, <3>3, Zenon
  <2>5. PairedBySpent'
    BY <1>2, <1>4 DEF PhonesInv, PhonesType, PairedBySpent, Known, DeviceRow
  <2>6. late' = late
    BY DEF Pairs
  <2>7. RevokedIsShutOut'
    BY <2>6 DEF RevokedIsShutOut, PhonesInv
  <2> QED BY <2>1, <2>3, <2>4, <2>5, <2>7
<1> QED BY <1>4, <1>7, <1>8, <1>9 DEF PhonesInv

\* The telephone is paired: nobody else had this identity, nor came by this code.
LEMMA InsertsKeeps ==
  ASSUME RequestsType, PhonesInv, AccountsType, NEW r \in Request, InsertsDevice(r)
  PROVE  PhonesInv'
<1> DEFINE d == req[r].device
<1> DEFINE row == [owner |-> req[r].target, code |-> req[r].code, secret |-> 0,
                   revoked |-> FALSE, archived |-> FALSE]
<1>1. req[r] \in PairRequest /\ Pairing(r) /\ Moves(r, PhoneRequest) /\ req'[r] = None
  BY AtPhones, RequestEnds, PhoneActMoves DEF InsertsDevice, PhoneSteps, Pairing, PhoneAct
<1>2. row \in DeviceRow /\ row.code = req[r].code /\ req[r].code \in Code /\ d \in Device
  BY <1>1 DEF DeviceRow, PairRequest
<1>3. /\ device' = [device EXCEPT ![d] = row] /\ code' = code
      /\ \E p \in Phone : phone' = [phone EXCEPT ![d] = p] /\ p.token = phone[d].token
  <2>1. \A p \in Phone : [p EXCEPT !.secret = 0] \in Phone /\ [p EXCEPT !.secret = 0].token = p.token
    BY DEF Phone
  <2>2. phone[d] \in Phone
    BY <1>2 DEF PhonesInv, PhonesType
  <2> QED BY <2>1, <2>2 DEF InsertsDevice
<1>4. late' = late
  BY DEF InsertsDevice
<1> HIDE DEF row
<1>5. ~Known(d) /\ device'[d] # None /\ \A x \in Device \ {d} : device'[x] = device[x]
  <2>1. ~Known(d)
    BY <1>1 DEF PhonesInv, PairsNew
  <2>2. row # None
    BY <1>2, DevicesAssumption
  <2>3. device'[d] = row /\ \A x \in Device \ {d} : device'[x] = device[x]
    BY <1>2, <1>3 DEF PhonesInv, PhonesType
  <2> QED BY <2>1, <2>2, <2>3 DEF Known
<1>6. PhonesType'
  BY <1>2, <1>3 DEF PhonesInv, PhonesType
<1>7. TokenIsKnown'
  BY <1>2, <1>3, <1>5 DEF PhonesInv, PhonesType, TokenIsKnown, Known
<1>8. \A q \in Request, s \in PhoneSteps : At(q, s)' => At(q, s) /\ req'[q] = req[q] /\ q # r
  BY <1>1 DEF Moves, At
<1>9. \A q \in Request : Pairing(q)' => Pairing(q) /\ req'[q] = req[q] /\ q # r
  BY <1>8 DEF Pairing, PhoneSteps
<1>10. \A q \in Request : Pairing(q)' => req[q].device # d /\ req[q].code # row.code
  BY <1>1, <1>2, <1>9 DEF PhonesInv, PairingsApart
<1>11. PairsNew'
  BY <1>2, <1>3, <1>5, <1>9, <1>10 DEF PhonesInv, PhonesType, PairsNew, Known
<1>12. PairingsApart'
  BY <1>9 DEF PhonesInv, PairingsApart
<1>13. \A q \in Request :
         At(q, "secret of device") \/ At(q, "row of device") \/ At(q, "serve") \/ At(q, "archive")
           => req[q].device \in Device \ {d} /\ Known(req[q].device)
  BY <1>5, AtPhones DEF PhonesInv, AsksAsKnown, PhoneSteps, TokenRequest, UseRequest, ArchiveRequest
<1>14. AsksAsKnown'
  BY <1>5, <1>8, <1>13 DEF AsksAsKnown, Known, PhoneSteps
<1>15. StopsAtRow'
  <2> SUFFICES ASSUME NEW q \in Request
               PROVE  /\ At(q, "row of device")' /\ req'[q].after => device'[req'[q].device].revoked
                      /\ At(q, "serve")' => ~req'[q].after
    BY DEF StopsAtRow
  <2>1. At(q, "row of device")' => /\ At(q, "row of device") /\ req'[q] = req[q]
                                   /\ device'[req[q].device] = device[req[q].device]
    BY <1>5, <1>8, <1>13 DEF PhoneSteps
  <2>2. At(q, "serve")' => At(q, "serve") /\ req'[q] = req[q]
    BY <1>8 DEF PhoneSteps
  <2>3. /\ At(q, "row of device") /\ req[q].after => device[req[q].device].revoked
        /\ At(q, "serve") => ~req[q].after
    BY Zenon DEF PhonesInv, StopsAtRow
  <2> QED BY <2>1, <2>2, <2>3, Zenon
<1>16. PairedBySpent'
  BY <1>1, <1>2, <1>3, <1>5 DEF PhonesInv, PhonesType, PairedBySpent, PairsNew, Known
<1>17. RevokedIsShutOut'
  BY <1>4 DEF RevokedIsShutOut, PhonesInv
<1> QED BY <1>6, <1>7, <1>11, <1>12, <1>14, <1>15, <1>16, <1>17 DEF PhonesInv

\* A step of the telephones.
LEMMA PhonesStep ==
  ASSUME RequestsType, PhonesInv, AccountsType, DevicesNext
  PROVE  RequestsType' /\ PhonesInv'
<1>1. ASSUME NEW r \in Request, PhoneAct(r)
      PROVE  RequestsType' /\ PhonesInv'
  <2>1. Moves(r, PhoneRequest)
    BY <1>1, PhoneActMoves
  <2>2. \E x : req' = [req EXCEPT ![r] = x]
    BY <1>1 DEF PhoneAct, Pairs, AsksToken, UsesToken, AsksArchive, LooksAtOwner, InsertsDevice,
         GrantsToken, LooksAtDevice, Serves, Archives, Begins, Goes, Ends
  <2>3. RequestsType'
    BY <2>1, <2>2 DEF RequestsType, Moves
  <2>4. CASE GrantsToken(r) \/ Archives(r)
    <3>1. Ends(r)
      BY <2>4 DEF GrantsToken, Archives
    <3>2. late' = late
      BY <2>4 DEF GrantsToken, Archives
    <3> QED BY <2>3, <2>4, <3>1, <3>2, TablesKeep
  <2>5. CASE ~(GrantsToken(r) \/ Archives(r))
    BY <1>1, <2>3, <2>5, PairsKeeps, InsertsKeeps, PhoneAsksKeeps DEF PhoneAct
  <2> QED BY <2>4, <2>5
<1>2. CASE \/ \E a \in User, c \in Code : IssuesCode(a, c)
           \/ \E c \in Code : LapsesCode(c)
           \/ \E a \in User, d \in Device : Revokes(a, d) \/ Unarchives(a, d) \/ Rotates(a, d)
           \/ \E d \in Device : LosesToken(d)
  <2>1. req' = req
    BY <1>2 DEF IssuesCode, LapsesCode, Revokes, Unarchives, Rotates, LosesToken
  <2>2. late' = late
    BY <1>2 DEF IssuesCode, LapsesCode, Revokes, Unarchives, Rotates, LosesToken
  <2>3. PhonesInv'
    BY <1>2, <2>1, <2>2, TablesKeep
  <2> QED BY <2>1, <2>3 DEF RequestsType
<1> QED BY <1>1, <1>2 DEF DevicesNext, PhoneAct

\* The variables of the abstract code.
Open   == {c \in Code : CanBePresented(c)}
Used   == {c \in Code : code[c] # None /\ code[c].is = "used"}
Gained == {p \in Code \X Device : Known(p[2]) /\ device[p[2]].code = p[1]}

\* What leaves the codes and who is paired by which is nothing to the abstract code.
LEMMA CodesStutter ==
  ASSUME code' = code,
         \A d \in Device : /\ Known(d)' <=> Known(d)
                           /\ Known(d) => device'[d].code = device[d].code
  PROVE  UNCHANGED <<Open, Used, Gained>>
<1>1. Open' = Open /\ Used' = Used
  BY DEF Open, Used, CanBePresented
<1>2. Gained' = Gained
  BY DEF Gained
<1> QED BY <1>1, <1>2

\* Each step of a pairing code is one of the abstract code, or none.
LEMMA CodesStep ==
  ASSUME RequestsType, PhonesInv, DevicesNext
  PROVE  ShortCode!Next \/ UNCHANGED <<Open, Used, Gained>>
<1> USE DEF Open, Used, Gained
<1>1. ASSUME NEW a \in User, NEW c \in Code, IssuesCode(a, c)
      PROVE  ShortCode!Next
  <2>1. /\ code[c] = None /\ code' = [code EXCEPT ![c] = [owner |-> a, is |-> "open"]]
        /\ device' = device /\ [owner |-> a, is |-> "open"] \in CodeRow
    BY <1>1 DEF IssuesCode, CodeRow
  <2>2. c \notin Open \cup Used
    BY <2>1 DEF CanBePresented
  <2>3. Open' = Open \cup {c} /\ Used' = Used
    BY <2>1, DevicesAssumption DEF CanBePresented, PhonesInv, PhonesType
  <2>4. Gained' = Gained
    BY <2>1 DEF Known
  <2> QED BY <2>2, <2>3, <2>4 DEF ShortCode!Next, ShortCode!Issue
<1>2. ASSUME NEW c \in Code, LapsesCode(c)
      PROVE  ShortCode!Next
  <2>1. /\ CanBePresented(c) /\ code' = [code EXCEPT ![c].is = "late"] /\ device' = device
        /\ [code[c] EXCEPT !.is = "late"] \in CodeRow
    BY <1>2 DEF LapsesCode, CanBePresented, PhonesInv, PhonesType, CodeRow
  <2>2. Open' = Open \ {c} /\ Used' = Used /\ c \in Open
    BY <2>1, DevicesAssumption DEF CanBePresented, PhonesInv, PhonesType, CodeRow
  <2>3. Gained' = Gained
    BY <2>1 DEF Known
  <2> QED BY <2>2, <2>3 DEF ShortCode!Next, ShortCode!Lapse
<1>3. ASSUME NEW r \in Request, NEW d \in Device, NEW c \in Code, Pairs(r, d, c)
      PROVE  ShortCode!Next
  <2>1. /\ CanBePresented(c) /\ code' = [code EXCEPT ![c].is = "used"] /\ device' = device
        /\ [code[c] EXCEPT !.is = "used"] \in CodeRow
    BY <1>3 DEF Pairs, Consumed, CanBePresented, PhonesInv, PhonesType, CodeRow
  <2>2. Open' = Open \ {c} /\ Used' = Used \cup {c} /\ c \in Open
    BY <2>1, DevicesAssumption DEF CanBePresented, PhonesInv, PhonesType, CodeRow
  <2>3. Gained' = Gained
    BY <2>1 DEF Known
  <2> QED BY <2>2, <2>3 DEF ShortCode!Next, ShortCode!Present
<1>4. ASSUME NEW r \in Request, InsertsDevice(r)
      PROVE  ShortCode!Next
  <2> DEFINE d == req[r].device
             c == req[r].code
             row == [owner |-> req[r].target, code |-> c, secret |-> 0,
                     revoked |-> FALSE, archived |-> FALSE]
  <2>1. req[r] \in PairRequest /\ Pairing(r)
    BY <1>4, AtPhones DEF InsertsDevice, PhoneSteps, Pairing
  <2>2. row \in DeviceRow /\ row.code = c /\ c \in Code /\ d \in Device
    BY <2>1 DEF DeviceRow, PairRequest
  <2>3. device' = [device EXCEPT ![d] = row] /\ code' = code
    BY <1>4 DEF InsertsDevice
  <2> HIDE DEF row
  <2>4. /\ c \in Used /\ ~Known(d) /\ \A x \in Device : Known(x) => device[x].code # c
    BY <2>1, <2>2 DEF PhonesInv, PairsNew
  <2>5. ~\E x \in Device : <<c, x>> \in Gained
    BY <2>4
  <2>6. row # None /\ device'[d] = row /\ \A x \in Device \ {d} : device'[x] = device[x]
    BY <2>2, <2>3, DevicesAssumption DEF PhonesInv, PhonesType
  <2>7. Gained' = Gained \cup {<<c, d>>}
    BY <2>2, <2>4, <2>6 DEF Known
  <2>8. Open' = Open /\ Used' = Used
    BY <2>3 DEF CanBePresented
  <2> QED BY <2>2, <2>4, <2>5, <2>7, <2>8 DEF ShortCode!Next, ShortCode!Gain

<1>5. CASE \/ \E a \in User, d \in Device : Revokes(a, d) \/ Unarchives(a, d) \/ Rotates(a, d)
           \/ \E r \in Request : Archives(r)
  <2>1. PICK d \in Device :
          /\ Known(d) /\ code' = code
          /\ \/ device' = [device EXCEPT ![d].revoked = TRUE]
             \/ \E b \in BOOLEAN : device' = [device EXCEPT ![d].archived = b]
             \/ device' = [device EXCEPT ![d].secret = @ + 1]
    <3>1. CASE \E a \in User, d \in Device : Revokes(a, d) \/ Unarchives(a, d) \/ Rotates(a, d)
      BY <3>1 DEF Revokes, Unarchives, Rotates, Over
    <3>2. CASE \E r \in Request : Archives(r)
      <4>1. PICK r \in Request : Archives(r)
        BY <3>2
      <4>2. req[r].device \in Device /\ Known(req[r].device)
        BY <4>1, AtPhones DEF Archives, PhoneSteps, ArchiveRequest, PhonesInv, AsksAsKnown
      <4> QED BY <4>1, <4>2 DEF Archives
    <3> QED BY <1>5, <3>1, <3>2
  <2>2. device[d] \in DeviceRow
    BY <2>1 DEF Known, PhonesInv, PhonesType
  <2>3. \E row \in DeviceRow : device' = [device EXCEPT ![d] = row] /\ row.code = device[d].code
    BY ZenonT(30), <2>1, <2>2, RowFlags
  <2>4. \A x \in Device : /\ Known(x)' <=> Known(x)
                          /\ Known(x) => device'[x].code = device[x].code
    BY <2>1, <2>3, DevicesAssumption DEF Known, PhonesInv, PhonesType
  <2> QED BY <2>1, <2>4, CodesStutter
<1>6. CASE \/ \E r \in Request, d \in Device :
                AsksToken(r, d) \/ UsesToken(r, d) \/ \E a \in User : AsksArchive(r, a, d)
           \/ \E r \in Request : LooksAtOwner(r) \/ GrantsToken(r) \/ LooksAtDevice(r) \/ Serves(r)
           \/ \E d \in Device : LosesToken(d)
  <2>1. code' = code /\ device' = device
    BY <1>6 DEF AsksToken, UsesToken, AsksArchive, LooksAtOwner, GrantsToken, LooksAtDevice, Serves,
         LosesToken, devices
  <2> QED BY <2>1, CodesStutter DEF Known
<1> QED BY <1>1, <1>2, <1>3, <1>4, <1>5, <1>6 DEF DevicesNext

\* A step of persons, of the accounts, or the hub starting again, is nothing to
\* the telephones.
LEMMA PhonesLeftAlone ==
  ASSUME PhonesInv, RequestsType, UNCHANGED <<code, device, phone>>, late' = late,
         \/ req' = req
         \/ req' = [r \in Request |-> None]
         \/ \E r \in Request : Moves(r, AccountRequest) \/ Moves(r, PersonRequest)
  PROVE  PhonesInv' /\ UNCHANGED <<Open, Used, Gained>>
<1>1. \A q \in Request : req'[q] = req[q] \/ req'[q] = None \/ req'[q].at \notin PhoneSteps
  BY KindOfRequest DEF Moves, AccountSteps, Changing, PersonSteps, PhoneSteps
<1>2. PhonesType'
  BY DEF PhonesInv, PhonesType
<1>3. RevokedIsShutOut'
  BY DEF PhonesInv, RevokedIsShutOut
<1>4. \A d \in Device : Known(d)' <=> Known(d)
  BY DEF Known
<1>5. \A d \in Device : device[d].revoked => device'[d].revoked
  BY Zenon
<1>6. \A d \in Device : phone'[d].token => phone[d].token \/ Known(d)
  BY Zenon
<1>7. PhonesInv'
  BY <1>1, <1>2, <1>3, <1>4, <1>5, <1>6, PhonesKept
<1> QED BY <1>4, <1>7, CodesStutter

-----------------------------------------------------------------------------
(* Persons.                                                                *)

Factor == [on : BOOLEAN, secret : Nat, last : Int]

PersonsType ==
  /\ factor \in [User -> Factor] /\ drawn \in Nat /\ clock \in Nat /\ spent \subseteq Proof
  /\ challenge \in [User -> Nat] /\ sent \in Nat

\* A secret is drawn for one account.
SecretsApart ==
  /\ \A u \in User : factor[u].secret <= drawn
  /\ \A u, v \in User : factor[u].secret = factor[v].secret /\ factor[u].secret # 0 => u = v

IsOnFactor(r) == req[r] # None /\ req[r].at \in OnFactor
OneOnFactor ==
  \A q, r \in Request :
    IsOnFactor(q) /\ IsOnFactor(r) /\ req[q].target = req[r].target => q = r

\* What a request alone on a factor found there is there still.
Found(q, f) ==
  /\ q.at \in {"secret", "last", "note", "first step"} => f.on
  /\ q.at \in {"draw", "enable", "clear"} => ~f.on
  /\ q.at \in {"last", "note"} => q.secret = f.secret /\ f.secret # 0
  /\ q.at = "note" => q.code[1] = f.secret /\ q.code[2] > f.last
  /\ q.at \in {"enable", "first step"} => q.code[1] = f.secret /\ f.secret # 0
FactorAsFound ==
  \A r \in Request : req[r] # None => Found(req[r], factor[req[r].target])
ConfirmedIsProven ==
  \A r \in Request : At(r, "enable") \/ At(r, "first step") => req[r].code[1] \in proven

RequiredIsProven == \A u \in User : factor[u].on => factor[u].secret \in proven

\* A request about to open a session by a code.
Bears(r) == At(r, "open") /\ req[r].secret # 0

\* Codes are of secrets that were drawn.
CodesAreDrawn ==
  /\ \A p \in spent : p[1] \in 0..drawn
  /\ \A r \in Request :
       \/ At(r, "secret") \/ At(r, "last") \/ At(r, "note") \/ Bears(r)
       \/ At(r, "enable") \/ At(r, "first step")
       => req[r].code[1] \in 1..drawn

FactorInv ==
  /\ SecretsApart /\ CodesAreDrawn
  /\ ConfirmedIsProven
  /\ ~mixed => OneOnFactor /\ FactorAsFound /\ RequiredIsProven

\* The codes that opened a session, or are about to, are of the past: the last
\* step accepted is theirs or a later one, or the secret is about to go.
Presented == spent \cup {req[r].code : r \in {q \in Request : Bears(q)}}
IsDropped(u)   == \E r \in Request : At(r, "clear") /\ req[r].target = u
IsConfirmed(u) == \E r \in Request : At(r, "first step") /\ req[r].target = u
PresentedArePast ==
  \A u \in User, p \in Presented :
    p[1] = factor[u].secret /\ p[1] # 0 =>
      \/ IsDropped(u)
      \/ factor[u].on /\ p[2] <= factor[u].last /\ ~IsConfirmed(u)

\* Nobody bears a code spent, nor one somebody else bears.
BearersApart ==
  /\ \A r \in Request : Bears(r) => req[r].code \notin spent
  /\ \A q, r \in Request : Bears(q) /\ Bears(r) /\ req[q].code = req[r].code => q = r

CodesInv == ~mixed /\ ~halved => PresentedArePast /\ BearersApart

\* Challenges are sent once, and answered once.
KeysInv ==
  /\ \A u \in User : challenge[u] <= sent /\ (challenge[u] # 0 => <<0, challenge[u]>> \notin spent)
  /\ \A u, v \in User : challenge[u] = challenge[v] /\ challenge[u] # 0 => u = v
  /\ \A p \in spent : p[1] = 0 => p[2] <= sent
  /\ \A r \in Request : At(r, "account") =>
       /\ req[r].proof[1] = 0 /\ req[r].proof[2] \in 1..sent /\ req[r].proof \notin spent
       /\ \A u \in User : challenge[u] # req[r].proof[2]
  /\ \A q, r \in Request :
       At(q, "account") /\ At(r, "account") /\ req[q].proof = req[r].proof => q = r

PersonsInv == PersonsType /\ FactorInv /\ CodesInv /\ KeysInv /\ OneSessionPerProof

PersonAct(r) ==
  \/ \E u \in User :
       \/ \E p \in Codes \cup {NoCode} : AsksLogin(r, u, p)
       \/ \E p \in Codes : AsksConfirm(r, u, p)
       \/ \E c \in 1..sent : AnswersKey(r, u, c)
       \/ AsksSecret(r, u) \/ AsksDrop(r, u)
  \/ LooksAtSecret(r) \/ LooksAtLast(r) \/ NotesStep(r) \/ OpensSession(r)
  \/ DrawsSecret(r) \/ Requires(r) \/ NotesFirst(r)
  \/ SwitchesOff(r) \/ ClearsSecret(r) \/ GoesUnheeded(r) \/ LooksAtAccount(r)

\* A request at a step of persons is one of theirs.
LEMMA AtPersons ==
  ASSUME RequestsType, NEW r \in Request, NEW s \in PersonSteps, At(r, s)
  PROVE  /\ req[r] \in PersonRequest /\ req[r].at = s
         /\ s \in {"secret", "last", "note", "open"} => req[r] \in LoginRequest
         /\ s = "draw" => req[r] \in DrawRequest
         /\ s \in {"enable", "first step"} => req[r] \in ConfirmRequest
         /\ s \in {"switch off", "clear"} => req[r] \in DropRequest
         /\ s = "account" => req[r] \in KeyRequest
<1>1. /\ req[r] \in AccountRequest \cup PersonRequest \cup PhoneRequest \cup {None}
      /\ req[r] # None /\ req[r].at = s
  BY DEF RequestsType, At
<1>2. req[r].at \notin PhoneSteps /\ req[r].at \notin AccountSteps
  BY <1>1 DEF AccountSteps, PersonSteps, PhoneSteps, Changing
<1>3. req[r] \in PersonRequest
  BY <1>1, <1>2, KindOfRequest
<1> QED BY <1>1, <1>3, PersonKinds

\* A request that goes on keeps what it carries.
LEMMA LoginGoesOn ==
  ASSUME RequestsType, NEW r \in Request, req[r] \in LoginRequest,
         NEW s \in {"secret", "last", "note", "open"}, NEW k \in Nat,
         req' = [req EXCEPT ![r].secret = k, ![r].at = s]
  PROVE  /\ Moves(r, LoginRequest) /\ req'[r] \in LoginRequest /\ req'[r].at = s
         /\ req'[r].target = req[r].target /\ req'[r].code = req[r].code /\ req'[r].secret = k
BY DEF RequestsType, Moves, LoginRequest

\* A request that goes on keeps what it carries.
LEMMA LoginGoes ==
  ASSUME RequestsType, NEW r \in Request, req[r] \in LoginRequest,
         NEW s \in {"secret", "last", "note", "open"}, Goes(r, s)
  PROVE  /\ Moves(r, LoginRequest) /\ req'[r] \in LoginRequest /\ req'[r].at = s
         /\ req'[r].target = req[r].target /\ req'[r].code = req[r].code
         /\ req'[r].secret = req[r].secret
BY DEF RequestsType, Goes, Moves, LoginRequest

\* A request that goes on keeps what it carries.
LEMMA ConfirmGoes ==
  ASSUME RequestsType, NEW r \in Request, req[r] \in ConfirmRequest,
         NEW s \in {"enable", "first step"}, Goes(r, s)
  PROVE  /\ Moves(r, ConfirmRequest) /\ req'[r] \in ConfirmRequest /\ req'[r].at = s
         /\ req'[r].target = req[r].target /\ req'[r].code = req[r].code
BY DEF RequestsType, Goes, Moves, ConfirmRequest

\* A request that goes on keeps what it carries.
LEMMA DropGoes ==
  ASSUME RequestsType, NEW r \in Request, req[r] \in DropRequest,
         NEW s \in {"switch off", "clear"}, Goes(r, s)
  PROVE  /\ Moves(r, DropRequest) /\ req'[r] \in DropRequest /\ req'[r].at = s
         /\ req'[r].target = req[r].target
BY DEF RequestsType, Goes, Moves, DropRequest

\* A code that may be shown is of a secret drawn.
LEMMA CodesAreProofs ==
  ASSUME PersonsType
  PROVE  /\ \A p \in Codes : p \in Proof /\ p[1] \in 1..drawn
         /\ NoCode \in Proof
BY DEF PersonsType, Codes, NoCode, Proof

\* A request one of whose writes failed unheeded ends, or is about to open its session.
LEMMA UnheededMoves ==
  ASSUME RequestsType, PersonsType, NEW r \in Request, GoesUnheeded(r)
  PROVE  /\ Moves(r, LoginRequest) \/ Moves(r, ConfirmRequest) \/ Moves(r, DropRequest)
         /\ \/ /\ At(r, "note") /\ req[r] \in LoginRequest /\ req'[r] \in LoginRequest
               /\ req'[r].at = "open" /\ req'[r].target = req[r].target
               /\ req'[r].code = req[r].code /\ spent' = spent
            \/ /\ At(r, "first step") /\ req[r] \in ConfirmRequest /\ req'[r] = None
               /\ spent' = spent \cup {req[r].code}
            \/ At(r, "clear") /\ req[r] \in DropRequest /\ req'[r] = None /\ spent' = spent
         /\ \A q \in Request \ {r} : req'[q] = req[q]
<1>1. CASE At(r, "note") /\ Goes(r, "open") /\ spent' = spent
  <2>1. req[r] \in LoginRequest
    BY <1>1, AtPersons DEF PersonSteps
  <2>2. \A q \in Request \ {r} : req'[q] = req[q]
    BY <1>1 DEF Goes, RequestsType
  <2>3. /\ Moves(r, LoginRequest) /\ req'[r] \in LoginRequest /\ req'[r].at = "open"
        /\ req'[r].target = req[r].target /\ req'[r].code = req[r].code
    BY <1>1, <2>1, LoginGoes
  <2> QED BY <1>1, <2>1, <2>2, <2>3
<1>2. CASE At(r, "first step") /\ Ends(r) /\ spent' = spent \cup {req[r].code}
  <2>1. req[r] \in ConfirmRequest
    BY <1>2, AtPersons DEF PersonSteps
  <2>2. Moves(r, ConfirmRequest) /\ req'[r] = None
    BY <1>2, <2>1, RequestEnds
  <2>3. \A q \in Request \ {r} : req'[q] = req[q]
    BY <1>2 DEF Ends, RequestsType
  <2> QED BY <1>2, <2>1, <2>2, <2>3
<1>3. CASE At(r, "clear") /\ Ends(r) /\ spent' = spent
  <2>1. req[r] \in DropRequest
    BY <1>3, AtPersons DEF PersonSteps
  <2>2. Moves(r, DropRequest) /\ req'[r] = None
    BY <1>3, <2>1, RequestEnds
  <2>3. \A q \in Request \ {r} : req'[q] = req[q]
    BY <1>3 DEF Ends, RequestsType
  <2> QED BY <1>3, <2>1, <2>2, <2>3
<1> QED BY <1>1, <1>2, <1>3 DEF GoesUnheeded

\* A step of a person's request: what it does to the request.
LEMMA PersonActMoves ==
  ASSUME RequestsType, PersonsType, NEW r \in Request, PersonAct(r)
  PROVE  Moves(r, PersonRequest) \/ req' = req
<1> LoginRequest \subseteq PersonRequest /\ DrawRequest \subseteq PersonRequest
    /\ ConfirmRequest \subseteq PersonRequest /\ DropRequest \subseteq PersonRequest
    /\ KeyRequest \subseteq PersonRequest
  BY DEF PersonRequest
<1>a. ASSUME NEW kind \in {LoginRequest, DrawRequest, ConfirmRequest, DropRequest, KeyRequest},
             Moves(r, kind)
      PROVE  Moves(r, PersonRequest)
  BY <1>a DEF Moves
<1>1. ASSUME NEW u \in User, NEW p \in Codes \cup {NoCode}, AsksLogin(r, u, p)
      PROVE  Moves(r, PersonRequest)
  <2>1. [at |-> IF factor[u].on THEN "secret" ELSE "open", target |-> u,
         code |-> p, secret |-> 0] \in LoginRequest
    BY CodesAreProofs DEF LoginRequest
  <2> QED BY <1>a, <1>1, <2>1, RequestBegins DEF AsksLogin
<1>2. ASSUME NEW u \in User, NEW p \in Codes, AsksConfirm(r, u, p)
      PROVE  Moves(r, PersonRequest)
  <2>1. [at |-> "enable", target |-> u, code |-> p] \in ConfirmRequest
    BY CodesAreProofs DEF ConfirmRequest
  <2> QED BY <1>a, <1>2, <2>1, RequestBegins DEF AsksConfirm
<1>3. ASSUME NEW u \in User, NEW c \in 1..sent, AnswersKey(r, u, c)
      PROVE  Moves(r, PersonRequest) \/ req' = req
  <2>1. [at |-> "account", target |-> u, proof |-> <<0, c>>] \in KeyRequest
    BY DEF KeyRequest, Proof, PersonsType
  <2> QED BY <1>a, <1>3, <2>1, RequestBegins DEF AnswersKey
<1>4. ASSUME NEW u \in User, AsksSecret(r, u)
      PROVE  Moves(r, PersonRequest)
  <2>1. [at |-> "draw", target |-> u] \in DrawRequest
    BY DEF DrawRequest
  <2> QED BY <1>a, <1>4, <2>1, RequestBegins DEF AsksSecret
<1>5. ASSUME NEW u \in User, AsksDrop(r, u)
      PROVE  Moves(r, PersonRequest)
  <2>1. [at |-> "switch off", target |-> u] \in DropRequest
    BY DEF DropRequest
  <2> QED BY <1>a, <1>5, <2>1, RequestBegins DEF AsksDrop
<1>6. CASE LooksAtSecret(r)
  <2>1. req[r] \in LoginRequest
    BY <1>6, AtPersons DEF LooksAtSecret, PersonSteps
  <2>2. factor[req[r].target].secret \in Nat
    BY <2>1 DEF LoginRequest, PersonsType, Factor
  <2> QED BY <1>a, <1>6, <2>1, <2>2, LoginGoesOn, RequestEnds DEF LooksAtSecret
<1>7. CASE LooksAtLast(r) \/ NotesStep(r) \/ OpensSession(r)
  <2>1. req[r] \in LoginRequest
    BY <1>7, AtPersons DEF LooksAtLast, NotesStep, OpensSession, PersonSteps
  <2>2. Ends(r) \/ Goes(r, "note") \/ Goes(r, "open")
    BY <1>7 DEF LooksAtLast, NotesStep, OpensSession, Opens
  <2> QED BY <1>a, <2>1, <2>2, LoginGoes, RequestEnds
<1>8. CASE DrawsSecret(r)
  <2>1. req[r] \in DrawRequest /\ Ends(r)
    BY <1>8, AtPersons DEF DrawsSecret, PersonSteps
  <2> QED BY <1>a, <2>1, RequestEnds
<1>9. CASE Requires(r) \/ NotesFirst(r)
  <2>1. req[r] \in ConfirmRequest /\ (Ends(r) \/ Goes(r, "first step"))
    BY <1>9, AtPersons DEF Requires, NotesFirst, PersonSteps
  <2> QED BY <1>a, <2>1, ConfirmGoes, RequestEnds
<1>10. CASE SwitchesOff(r) \/ ClearsSecret(r)
  <2>1. req[r] \in DropRequest /\ (Ends(r) \/ Goes(r, "clear"))
    BY <1>10, AtPersons DEF SwitchesOff, ClearsSecret, PersonSteps
  <2> QED BY <1>a, <2>1, DropGoes, RequestEnds
<1>11. CASE LooksAtAccount(r)
  <2>1. req[r] \in KeyRequest /\ Ends(r)
    BY <1>11, AtPersons DEF LooksAtAccount, PersonSteps, Opens
  <2> QED BY <1>a, <2>1, RequestEnds
<1>12. CASE GoesUnheeded(r)
  BY <1>a, <1>12, UnheededMoves
<1> QED BY <1>1, <1>2, <1>3, <1>4, <1>5, <1>6, <1>7, <1>8, <1>9, <1>10, <1>11, <1>12 DEF PersonAct

\* A request on a factor is about somebody's.
LEMMA TargetIsUser ==
  ASSUME RequestsType, NEW r \in Request, IsOnFactor(r)
  PROVE  req[r].target \in User
<1>1. \E s \in PersonSteps \ {"account", "open"} : At(r, s)
  BY DEF IsOnFactor, OnFactor, PersonSteps, At
<1> QED BY <1>1, AtPersons DEF PersonSteps, LoginRequest, DrawRequest, ConfirmRequest, DropRequest

\* A longer range has what a shorter one has.
LEMMA RangeGrows ==
  ASSUME NEW m \in Nat, NEW n \in Nat, m <= n
  PROVE  0..m \subseteq 0..n /\ 1..m \subseteq 1..n
OBVIOUS

\* A request that moves alone on the factor it is about, or moves nothing there:
\* what becomes of its own factor is enough.
LEMMA FactorMoves ==
  ASSUME RequestsType, FactorInv, ~mixed' => ~mixed, NEW r \in Request, NEW t \in User,
         \A q \in Request \ {r} : req'[q] = req[q],
         req'[r] # None => req'[r].target = t,
         \A u \in User \ {t} : factor'[u] = factor[u],
         proven \subseteq proven', drawn \in Nat, drawn' \in Nat, drawn <= drawn',
         SecretsApart', \A p \in spent' \ spent : p[1] \in 0..drawn',
         (\/ At(r, "secret") \/ At(r, "last") \/ At(r, "note") \/ Bears(r)
          \/ At(r, "enable") \/ At(r, "first step"))'
         => req'[r].code[1] \in 1..drawn',
         (At(r, "enable") \/ At(r, "first step"))' => req'[r].code[1] \in proven',
         ~mixed' /\ (IsOnFactor(r)' \/ factor' # factor) =>
           \A q \in Request \ {r} : ~(IsOnFactor(q) /\ req[q].target = t),
         ~mixed' /\ req'[r] # None => Found(req'[r], factor'[t]),
         ~mixed' /\ factor'[t].on => factor'[t].secret \in proven'
  PROVE  FactorInv'
<1>1. CodesAreDrawn'
  <2>0. 0..drawn \subseteq 0..drawn' /\ 1..drawn \subseteq 1..drawn'
    BY RangeGrows
  <2>1. \A p \in spent' : p[1] \in 0..drawn'
    <3>1. \A p \in spent : p[1] \in 0..drawn
      BY DEF FactorInv, CodesAreDrawn
    <3> QED BY <2>0, <3>1
  <2>2. \A q \in Request \ {r} :
          (\/ At(q, "secret") \/ At(q, "last") \/ At(q, "note") \/ Bears(q)
           \/ At(q, "enable") \/ At(q, "first step"))'
          => req'[q].code[1] \in 1..drawn'
    <3> TAKE q \in Request \ {r}
    <3>1. \/ At(q, "secret") \/ At(q, "last") \/ At(q, "note") \/ Bears(q)
          \/ At(q, "enable") \/ At(q, "first step")
          => req[q].code[1] \in 1..drawn
      BY DEF FactorInv, CodesAreDrawn
    <3>2. req'[q] = req[q]
      OBVIOUS
    <3> QED BY <2>0, <3>1, <3>2 DEF At, Bears
  <2> QED BY <2>1, <2>2 DEF CodesAreDrawn
<1>2. ConfirmedIsProven'
  BY DEF FactorInv, ConfirmedIsProven, At
<1>3. ASSUME ~mixed'
      PROVE  OneOnFactor' /\ FactorAsFound' /\ RequiredIsProven'
  <2>1. OneOnFactor /\ FactorAsFound /\ RequiredIsProven
    BY <1>3 DEF FactorInv
  <2>2. \A q \in Request \ {r} : IsOnFactor(q)' => IsOnFactor(q) /\ req'[q].target = req[q].target
    BY DEF IsOnFactor
  <2>3. OneOnFactor'
    <3>1. IsOnFactor(r)' => req'[r].target = t
      BY DEF IsOnFactor
    <3> QED BY <1>3, <2>1, <2>2, <3>1 DEF OneOnFactor
  <2>4. FactorAsFound'
    <3> SUFFICES ASSUME NEW q \in Request, req'[q] # None
                 PROVE  Found(req'[q], factor'[req'[q].target])
      BY DEF FactorAsFound
    <3>1. CASE q = r
      <4>1. Found(req'[r], factor'[t]) /\ req'[r].target = t
        BY <1>3, <3>1
      <4> QED BY <3>1, <4>1, Zenon
    <3>2. CASE q # r /\ req[q].at \notin OnFactor
      BY <3>2 DEF Found, OnFactor
    <3>3. CASE q # r /\ req[q].at \in OnFactor
      <4>1. req'[q] = req[q] /\ IsOnFactor(q) /\ Found(req[q], factor[req[q].target])
        BY <2>1, <3>3 DEF IsOnFactor, FactorAsFound
      <4>2. factor'[req[q].target] = factor[req[q].target]
        BY <1>3, <3>3, <4>1, TargetIsUser
      <4> QED BY <4>1, <4>2, Zenon
    <3> QED BY <3>1, <3>2, <3>3
  <2>5. RequiredIsProven'
    <3> SUFFICES ASSUME NEW u \in User, factor'[u].on PROVE factor'[u].secret \in proven'
      BY DEF RequiredIsProven
    <3>1. CASE u = t
      BY <1>3, <3>1, Zenon
    <3>2. CASE u # t
      <4>1. factor'[u] = factor[u]
        BY <3>2
      <4>2. factor[u].on
        BY <4>1, Zenon
      <4> QED BY <2>1, <4>1, <4>2, Zenon DEF RequiredIsProven
    <3> QED BY <3>1, <3>2
  <2> QED BY <2>3, <2>4, <2>5
<1> QED BY <1>1, <1>2, <1>3 DEF FactorInv

\* No secret is drawn.
LEMMA NoneDrawn ==
  ASSUME PersonsType, drawn' = drawn
  PROVE  drawn \in Nat /\ drawn' \in Nat /\ drawn <= drawn'
BY DEF PersonsType

\* A request that moves and leaves the factors as they are.
LEMMA RequestMovesOnFactor ==
  ASSUME RequestsType, PersonsType, FactorInv, ~mixed' => ~mixed, NEW r \in Request, NEW t \in User,
         \A q \in Request \ {r} : req'[q] = req[q],
         req'[r] # None => req'[r].target = t,
         factor' = factor, drawn' = drawn, proven \subseteq proven',
         \A p \in spent' \ spent : p[1] \in 0..drawn,
         (\/ At(r, "secret") \/ At(r, "last") \/ At(r, "note") \/ Bears(r)
          \/ At(r, "enable") \/ At(r, "first step"))'
         => req'[r].code[1] \in 1..drawn,
         (At(r, "enable") \/ At(r, "first step"))' => req'[r].code[1] \in proven',
         ~mixed' /\ IsOnFactor(r)' =>
           \A q \in Request \ {r} : ~(IsOnFactor(q) /\ req[q].target = t),
         ~mixed' /\ req'[r] # None => Found(req'[r], factor[t])
  PROVE  FactorInv'
<1>1. SecretsApart'
  BY DEF FactorInv, SecretsApart
<1>2. ~mixed' /\ req'[r] # None => Found(req'[r], factor'[t])
  BY Zenon
<1>3. ~mixed' /\ factor'[t].on => factor'[t].secret \in proven'
  <2> SUFFICES ASSUME ~mixed', factor'[t].on PROVE factor'[t].secret \in proven'
    OBVIOUS
  <2>1. RequiredIsProven /\ factor[t].on
    BY Zenon DEF FactorInv
  <2> QED BY <2>1, Zenon DEF RequiredIsProven
<1>4. drawn \in Nat /\ drawn' \in Nat /\ drawn <= drawn'
  BY NoneDrawn
<1>5. \A u \in User \ {t} : factor'[u] = factor[u]
  OBVIOUS
<1>6. \A p \in spent' \ spent : p[1] \in 0..drawn'
  OBVIOUS
<1>7. (\/ At(r, "secret") \/ At(r, "last") \/ At(r, "note") \/ Bears(r)
       \/ At(r, "enable") \/ At(r, "first step"))'
      => req'[r].code[1] \in 1..drawn'
  OBVIOUS
<1> QED BY <1>1, <1>2, <1>3, <1>4, <1>5, <1>6, <1>7, FactorMoves

\* A request alone on the factor it begins with.
LEMMA MeetsNobody ==
  ASSUME NEW u, Meets(u), ~mixed'
  PROVE  ~mixed /\ \A q \in Request : ~(IsOnFactor(q) /\ req[q].target = u)
BY DEF Meets, IsOnFactor

\* A request on a factor is alone there.
LEMMA AloneOnFactor ==
  ASSUME FactorInv, ~mixed, NEW r \in Request, IsOnFactor(r)
  PROVE  \A q \in Request \ {r} : ~(IsOnFactor(q) /\ req[q].target = req[r].target)
BY DEF FactorInv, OneOnFactor

\* Requests that begin on a factor.
LEMMA BeginsOnFactor ==
  ASSUME RequestsType, PersonsType, FactorInv, NEW r \in Request, NEW u \in User,
         \/ \E p \in Codes \cup {NoCode} : AsksLogin(r, u, p)
         \/ AsksSecret(r, u) \/ AsksDrop(r, u)
         \/ \E p \in Codes : AsksConfirm(r, u, p)
  PROVE  FactorInv'
<1>0. spent' = spent /\ factor' = factor /\ drawn' = drawn
  BY DEF AsksLogin, AsksSecret, AsksDrop, AsksConfirm
<1>1. ASSUME NEW p \in Codes \cup {NoCode}, AsksLogin(r, u, p)
      PROVE  FactorInv'
  <2> DEFINE what == [at |-> IF factor[u].on THEN "secret" ELSE "open", target |-> u,
                      code |-> p, secret |-> 0]
  <2>1. /\ Begins(r, what) /\ what.target = u /\ what.secret = 0 /\ what.code = p
        /\ factor[u].on => what.at = "secret" /\ p \in Codes
        /\ ~factor[u].on => what.at = "open"
    BY <1>1 DEF AsksLogin
  <2> HIDE DEF what
  <2>2. req'[r] = what /\ \A q \in Request \ {r} : req'[q] = req[q]
    BY <2>1 DEF Begins, RequestsType
  <2>3. proven' = proven
    BY <1>1 DEF AsksLogin
  <2>4. ~mixed' => ~mixed /\ \A q \in Request : ~(IsOnFactor(q) /\ req[q].target = u)
    BY <1>1, MeetsNobody DEF AsksLogin
  <2>5. Found(what, factor[u])
    BY <2>1 DEF Found
  <2>6. /\ (\/ At(r, "secret") \/ At(r, "last") \/ At(r, "note") \/ Bears(r)
            \/ At(r, "enable") \/ At(r, "first step"))'
           => req'[r].code[1] \in 1..drawn
        /\ ~(At(r, "enable") \/ At(r, "first step"))'
    BY <2>1, <2>2, CodesAreProofs DEF At, Bears
  <2> QED BY <1>0, <2>1, <2>2, <2>3, <2>4, <2>5, <2>6, RequestMovesOnFactor
<1>2. ASSUME NEW what, Begins(r, what), what.target = u, Meets(u), proven' = proven,
             what.at = "switch off" \/ (what.at = "draw" /\ ~factor[u].on)
      PROVE  FactorInv'
  <2>2. req'[r] = what /\ \A q \in Request \ {r} : req'[q] = req[q]
    BY <1>2 DEF Begins, RequestsType
  <2>4. ~mixed' => ~mixed /\ \A q \in Request : ~(IsOnFactor(q) /\ req[q].target = u)
    BY <1>2, MeetsNobody
  <2>5. Found(what, factor[u])
    BY <1>2 DEF Found
  <2>6. ~(\/ At(r, "secret") \/ At(r, "last") \/ At(r, "note") \/ Bears(r)
          \/ At(r, "enable") \/ At(r, "first step"))'
    BY <1>2, <2>2 DEF At, Bears
  <2> QED BY <1>0, <1>2, <2>2, <2>4, <2>5, <2>6, RequestMovesOnFactor
<1>4. CASE AsksSecret(r, u)
  <2> DEFINE what == [at |-> "draw", target |-> u]
  <2>1. Begins(r, what) /\ what.target = u /\ what.at = "draw" /\ ~factor[u].on
    BY <1>4 DEF AsksSecret
  <2>2. Meets(u) /\ proven' = proven
    BY <1>4 DEF AsksSecret
  <2> HIDE DEF what
  <2> QED BY <1>2, <2>1, <2>2
<1>5. CASE AsksDrop(r, u)
  <2> DEFINE what == [at |-> "switch off", target |-> u]
  <2>1. Begins(r, what) /\ what.target = u /\ what.at = "switch off"
    BY <1>5 DEF AsksDrop
  <2>2. Meets(u) /\ proven' = proven
    BY <1>5 DEF AsksDrop
  <2> HIDE DEF what
  <2> QED BY <1>2, <2>1, <2>2
<1>3. ASSUME NEW p \in Codes, AsksConfirm(r, u, p)
      PROVE  FactorInv'
  <2> DEFINE what == [at |-> "enable", target |-> u, code |-> p]
  <2>1. Begins(r, what) /\ what.target = u /\ what.code = p /\ what.at = "enable"
    BY <1>3 DEF AsksConfirm
  <2> HIDE DEF what
  <2>2. req'[r] = what /\ \A q \in Request \ {r} : req'[q] = req[q]
    BY <2>1 DEF Begins, RequestsType
  <2>3. proven' = proven \cup {p[1]} /\ p[1] = factor[u].secret /\ p[1] \in 1..drawn
    BY <1>3, CodesAreProofs DEF AsksConfirm, Accepts
  <2>4. ~mixed' => /\ ~mixed /\ ~factor[u].on
                   /\ \A q \in Request : ~(IsOnFactor(q) /\ req[q].target = u)
    BY <1>3 DEF AsksConfirm, IsOnFactor
  <2>5. ~mixed' => Found(what, factor[u])
    BY <2>1, <2>3, <2>4 DEF Found
  <2>6. req'[r].code[1] \in 1..drawn /\ req'[r].code[1] \in proven'
    BY <2>1, <2>2, <2>3
  <2> QED BY ZenonT(30), <1>0, <2>1, <2>2, <2>3, <2>4, <2>5, <2>6, RequestMovesOnFactor
<1> QED BY <1>1, <1>3, <1>4, <1>5

\* What a request alone on a factor reads and finds.
LEMMA WhatIsFound ==
  ASSUME FactorInv, ~mixed, NEW r \in Request, NEW s, At(r, s)
  PROVE  Found(req[r], factor[req[r].target]) /\ req[r] # None /\ req[r].at = s
BY DEF FactorInv, FactorAsFound, At

\* The steps of a login that look, and those that open a session.
LEMMA LooksOnFactor ==
  ASSUME RequestsType, PersonsType, FactorInv, KeysInv, NEW r \in Request,
         LooksAtSecret(r) \/ LooksAtLast(r) \/ OpensSession(r) \/ LooksAtAccount(r)
  PROVE  FactorInv'
<1>0. factor' = factor /\ drawn' = drawn /\ proven' = proven
  BY DEF LooksAtSecret, LooksAtLast, OpensSession, LooksAtAccount, logins, seen
<1>a. mixed' = mixed
  BY DEF LooksAtSecret, LooksAtLast, OpensSession, LooksAtAccount, logins, seen
<1>b. \A q \in Request \ {r} : req'[q] = req[q]
  BY DEF LooksAtSecret, LooksAtLast, OpensSession, LooksAtAccount, Opens, Ends, Goes, RequestsType
<1> DEFINE t == req[r].target
<1>1. CASE LooksAtSecret(r)
  <2>1. req[r] \in LoginRequest /\ At(r, "secret") /\ t \in User /\ IsOnFactor(r)
    BY <1>1, AtPersons DEF LooksAtSecret, PersonSteps, LoginRequest, IsOnFactor, OnFactor, At
  <2>2. spent' = spent
    BY <1>1 DEF LooksAtSecret, logins, seen
  <2>3. CASE Ends(r)
    <3>1. req'[r] = None
      BY <2>1, <2>3, RequestEnds
    <3> QED BY <1>0, <1>a, <1>b, <2>1, <2>2, <3>1, RequestMovesOnFactor DEF At, Bears, IsOnFactor
  <2>4. CASE factor[t].secret # 0 /\ req' = [req EXCEPT ![r].secret = factor[t].secret, ![r].at = "last"]
    <3>1. factor[t].secret \in Nat
      BY <2>1 DEF PersonsType, Factor
    <3>2. /\ req'[r].at = "last" /\ req'[r].target = t /\ req'[r].code = req[r].code
          /\ req'[r].secret = factor[t].secret
      BY <2>1, <2>4, <3>1, LoginGoesOn
    <3>3. ~mixed => factor[t].on
      BY <2>1, WhatIsFound DEF Found
    <3>4. ~mixed => Found(req'[r], factor[t])
      BY <2>4, <3>2, <3>3 DEF Found
    <3>5. req[r].code[1] \in 1..drawn
      BY <2>1 DEF FactorInv, CodesAreDrawn
    <3>6. ~mixed => \A q \in Request \ {r} : ~(IsOnFactor(q) /\ req[q].target = t)
      BY <2>1, AloneOnFactor
    <3>7. ~(At(r, "enable") \/ At(r, "first step"))'
      BY <3>2 DEF At
    <3> QED BY <1>0, <1>a, <1>b, <2>1, <2>2, <3>2, <3>4, <3>5, <3>6, <3>7, RequestMovesOnFactor
  <2> QED BY <1>1, <2>3, <2>4 DEF LooksAtSecret
<1>2. CASE LooksAtLast(r)
  <2>1. req[r] \in LoginRequest /\ At(r, "last") /\ t \in User /\ IsOnFactor(r)
    BY <1>2, AtPersons DEF LooksAtLast, PersonSteps, LoginRequest, IsOnFactor, OnFactor, At
  <2>2. spent' = spent
    BY <1>2 DEF LooksAtLast, logins, seen
  <2>3. CASE Ends(r)
    <3>1. req'[r] = None
      BY <2>1, <2>3, RequestEnds
    <3> QED BY <1>0, <1>a, <1>b, <2>1, <2>2, <3>1, RequestMovesOnFactor DEF At, Bears, IsOnFactor
  <2>4. CASE Accepts(req[r].code, req[r].secret, factor[t].last) /\ Goes(r, "note")
    <3>1. /\ req'[r].at = "note" /\ req'[r].target = t /\ req'[r].code = req[r].code
          /\ req'[r].secret = req[r].secret
      BY <2>1, <2>4, LoginGoes
    <3>2. ~mixed => factor[t].on /\ req[r].secret = factor[t].secret /\ factor[t].secret # 0
      BY <2>1, WhatIsFound DEF Found
    <3>3. ~mixed => Found(req'[r], factor[t])
      BY <2>4, <3>1, <3>2 DEF Found, Accepts
    <3>4. req[r].code[1] \in 1..drawn
      BY <2>1 DEF FactorInv, CodesAreDrawn
    <3>5. ~mixed => \A q \in Request \ {r} : ~(IsOnFactor(q) /\ req[q].target = t)
      BY <2>1, AloneOnFactor
    <3>6. ~(At(r, "enable") \/ At(r, "first step"))'
      BY <3>1 DEF At
    <3> QED BY <1>0, <1>a, <1>b, <2>1, <2>2, <3>1, <3>3, <3>4, <3>5, <3>6, RequestMovesOnFactor
  <2> QED BY <1>2, <2>3, <2>4 DEF LooksAtLast
<1>3. CASE OpensSession(r)
  <2>1. req[r] \in LoginRequest /\ At(r, "open") /\ t \in User /\ Ends(r)
    BY <1>3, AtPersons DEF OpensSession, PersonSteps, LoginRequest, Opens
  <2>2. \A p \in spent' \ spent : p[1] \in 0..drawn
    <3>1. \A p \in spent' \ spent : p = req[r].code /\ req[r].secret # 0
      BY <1>3 DEF OpensSession, Opens
    <3>2. req[r].secret # 0 => req[r].code[1] \in 1..drawn
      BY <2>1 DEF FactorInv, CodesAreDrawn, Bears
    <3> QED BY <3>1, <3>2
  <2>3. req'[r] = None
    BY <2>1, RequestEnds
  <2> QED BY <1>0, <1>a, <1>b, <2>1, <2>2, <2>3, RequestMovesOnFactor DEF At, Bears, IsOnFactor
<1>4. CASE LooksAtAccount(r)
  <2>1. req[r] \in KeyRequest /\ At(r, "account") /\ t \in User /\ Ends(r)
    BY <1>4, AtPersons DEF LooksAtAccount, PersonSteps, KeyRequest, Opens
  <2>2. \A p \in spent' \ spent : p[1] \in 0..drawn
    <3>1. \A p \in spent' \ spent : p = req[r].proof
      BY <1>4 DEF LooksAtAccount, Opens
    <3>2. req[r].proof[1] = 0 /\ drawn \in Nat
      BY <2>1 DEF KeysInv, PersonsType
    <3> QED BY <3>1, <3>2
  <2>3. req'[r] = None
    BY <2>1, RequestEnds
  <2> QED BY <1>0, <1>a, <1>b, <2>1, <2>2, <2>3, RequestMovesOnFactor DEF At, Bears, IsOnFactor
<1> QED BY <1>1, <1>2, <1>3, <1>4

\* A factor with another last step, required or not.
LEMMA FactorLast ==
  ASSUME NEW f \in Factor, NEW k \in Int
  PROVE  /\ [f EXCEPT !.last = k] \in Factor /\ [f EXCEPT !.last = k].secret = f.secret
         /\ [f EXCEPT !.last = k].last = k /\ [f EXCEPT !.last = k].on = f.on
         /\ \A b \in BOOLEAN :
              /\ [f EXCEPT !.on = b, !.last = k] \in Factor
              /\ [f EXCEPT !.on = b, !.last = k].secret = f.secret
              /\ [f EXCEPT !.on = b, !.last = k].last = k
              /\ [f EXCEPT !.on = b, !.last = k].on = b
BY DEF Factor

\* A factor with another secret.
LEMMA FactorSecret ==
  ASSUME NEW f \in Factor, NEW s \in Nat
  PROVE  /\ [f EXCEPT !.secret = s] \in Factor /\ [f EXCEPT !.secret = s].secret = s
         /\ [f EXCEPT !.secret = s].last = f.last /\ [f EXCEPT !.secret = s].on = f.on
BY DEF Factor

\* What a request writes of its factor, and that it writes no other.
LEMMA FactorWritten ==
  ASSUME RequestsType, PersonsType, NEW r \in Request,
         \/ NotesStep(r) \/ NotesFirst(r) \/ Requires(r) \/ SwitchesOff(r) \/ ClearsSecret(r)
         \/ DrawsSecret(r)
  PROVE  /\ req[r].target \in User /\ IsOnFactor(r)
         /\ factor' \in [User -> Factor]
         /\ \A u \in User \ {req[r].target} : factor'[u] = factor[u]
         /\ \E f, g \in Factor :
              /\ f = factor[req[r].target] /\ g = factor'[req[r].target]
              /\ NotesStep(r) \/ NotesFirst(r) =>
                   req[r].code \in Proof /\ g = [f EXCEPT !.last = req[r].code[2]]
              /\ Requires(r) => g = [f EXCEPT !.on = TRUE, !.last = Never]
              /\ SwitchesOff(r) => g = [f EXCEPT !.on = FALSE, !.last = Never]
              /\ ClearsSecret(r) => g = [f EXCEPT !.secret = 0]
              /\ DrawsSecret(r) => g = [f EXCEPT !.secret = drawn + 1] /\ drawn' = drawn + 1
<1> DEFINE t == req[r].target
<1>1. t \in User /\ IsOnFactor(r)
  BY AtPersons DEF NotesStep, NotesFirst, Requires, SwitchesOff, ClearsSecret, DrawsSecret,
     PersonSteps, LoginRequest, ConfirmRequest, DropRequest, DrawRequest, IsOnFactor, OnFactor, At
<1>2. factor \in [User -> Factor] /\ factor[t] \in Factor
  BY <1>1 DEF PersonsType
<1>3. CASE NotesStep(r) \/ NotesFirst(r)
  <2>1. req[r].code \in Proof /\ req[r].code[2] \in Int
    BY <1>3, AtPersons DEF NotesStep, NotesFirst, PersonSteps, LoginRequest, ConfirmRequest, Proof
  <2>2. factor' = [factor EXCEPT ![t] = [factor[t] EXCEPT !.last = req[r].code[2]]]
    BY <1>2, <1>3 DEF NotesStep, NotesFirst, WithFirst
  <2>3. [factor[t] EXCEPT !.last = req[r].code[2]] \in Factor
    BY <1>2, <2>1, FactorLast
  <2> QED BY <1>1, <1>2, <1>3, <2>1, <2>2, <2>3 DEF NotesStep, NotesFirst, Requires, SwitchesOff, ClearsSecret, DrawsSecret, At
<1>4. CASE Requires(r)
  <2>2. factor' = [factor EXCEPT ![t] = [factor[t] EXCEPT !.on = TRUE, !.last = Never]]
    BY <1>2, <1>4 DEF Requires
  <2>1. Never \in Int
    BY DEF Never
  <2>3. [factor[t] EXCEPT !.on = TRUE, !.last = Never] \in Factor
    BY <1>2, <2>1, FactorLast
  <2> QED BY ZenonT(30), <1>1, <1>2, <1>4, <2>2, <2>3 DEF NotesStep, NotesFirst, Requires, SwitchesOff, ClearsSecret, DrawsSecret, At
<1>5. CASE SwitchesOff(r)
  <2>2. factor' = [factor EXCEPT ![t] = [factor[t] EXCEPT !.on = FALSE, !.last = Never]]
    BY <1>2, <1>5 DEF SwitchesOff, SwitchedOff
  <2>1. Never \in Int
    BY DEF Never
  <2>3. [factor[t] EXCEPT !.on = FALSE, !.last = Never] \in Factor
    BY <1>2, <2>1, FactorLast
  <2> QED BY <1>1, <1>2, <1>5, <2>2, <2>3 DEF NotesStep, NotesFirst, Requires, SwitchesOff, ClearsSecret, DrawsSecret, At
<1>6. CASE ClearsSecret(r)
  <2>2. factor' = [factor EXCEPT ![t] = [factor[t] EXCEPT !.secret = 0]]
    BY <1>2, <1>6 DEF ClearsSecret
  <2>3. [factor[t] EXCEPT !.secret = 0] \in Factor
    BY <1>2, FactorSecret
  <2> QED BY <1>1, <1>2, <1>6, <2>2, <2>3 DEF NotesStep, NotesFirst, Requires, SwitchesOff, ClearsSecret, DrawsSecret, At
<1>7. CASE DrawsSecret(r)
  <2>2. factor' = [factor EXCEPT ![t] = [factor[t] EXCEPT !.secret = drawn + 1]] /\ drawn' = drawn + 1
    BY <1>2, <1>7 DEF DrawsSecret
  <2>3. [factor[t] EXCEPT !.secret = drawn + 1] \in Factor
    <3>1. drawn + 1 \in Nat
      BY DEF PersonsType
    <3> QED BY <1>2, <3>1, FactorSecret
  <2> QED BY <1>1, <1>2, <1>7, <2>2, <2>3 DEF NotesStep, NotesFirst, Requires, SwitchesOff, ClearsSecret, DrawsSecret, At
<1> QED BY <1>3, <1>4, <1>5, <1>6, <1>7

\* A factor written keeps its secret, loses it, or has a new one.
LEMMA SecretsStayApart ==
  ASSUME PersonsType, SecretsApart, NEW t \in User, factor' \in [User -> Factor],
         \A u \in User \ {t} : factor'[u] = factor[u],
         \/ factor'[t].secret \in {0, factor[t].secret} /\ drawn' = drawn
         \/ factor'[t].secret = drawn + 1 /\ drawn' = drawn + 1
  PROVE  SecretsApart' /\ drawn \in Nat /\ drawn' \in Nat /\ drawn <= drawn'
<1>1. drawn \in Nat /\ \A u \in User : factor[u].secret \in Nat /\ factor[u].secret <= drawn
  BY DEF PersonsType, SecretsApart, Factor
<1>2. \A u, v \in User : factor[u].secret = factor[v].secret /\ factor[u].secret # 0 => u = v
  BY DEF SecretsApart
<1>3. \A u \in User \ {t} : factor'[u].secret = factor[u].secret
  OBVIOUS
<1>4. CASE factor'[t].secret \in {0, factor[t].secret} /\ drawn' = drawn
  BY <1>1, <1>2, <1>3, <1>4 DEF SecretsApart
<1>5. CASE factor'[t].secret = drawn + 1 /\ drawn' = drawn + 1
  BY <1>1, <1>2, <1>3, <1>5 DEF SecretsApart
<1> QED BY <1>4, <1>5

\* The steps that write a factor.
LEMMA WritesOnFactor ==
  ASSUME RequestsType, PersonsType, FactorInv, NEW r \in Request,
         \/ NotesStep(r) \/ NotesFirst(r) \/ Requires(r) \/ SwitchesOff(r) \/ ClearsSecret(r)
         \/ DrawsSecret(r)
  PROVE  FactorInv'
<1> DEFINE t == req[r].target
           f == factor[t]
<1>1. /\ t \in User /\ IsOnFactor(r) /\ factor' \in [User -> Factor]
      /\ \A u \in User \ {t} : factor'[u] = factor[u]
  BY FactorWritten
<1>2. mixed' = mixed
  BY DEF NotesStep, NotesFirst, Requires, SwitchesOff, ClearsSecret, DrawsSecret, seen
<1>3. proven' = proven /\ \A q \in Request \ {r} : req'[q] = req[q]
  BY DEF NotesStep, NotesFirst, Requires, SwitchesOff, ClearsSecret, DrawsSecret, seen, Goes, Ends,
     RequestsType
<1>4. ~mixed => \A q \in Request \ {r} : ~(IsOnFactor(q) /\ req[q].target = t)
  BY <1>1, AloneOnFactor
<1>5. SecretsApart /\ f \in Factor /\ (~mixed => RequiredIsProven)
  BY <1>1 DEF FactorInv, PersonsType
<1>6. CASE NotesStep(r)
  <2>1. /\ factor'[t] = [f EXCEPT !.last = req[r].code[2]] /\ req[r].code[2] \in Int
        /\ drawn' = drawn /\ spent' = spent
    BY <1>6, FactorWritten DEF NotesStep, seen, Proof
  <2>2. factor'[t].secret = f.secret /\ (factor'[t].on <=> f.on)
    <3> HIDE DEF f, t
    <3> QED BY <1>5, <2>1 DEF Factor
  <2>3. /\ req[r] \in LoginRequest /\ req'[r].at = "open" /\ req'[r].target = t
        /\ req'[r].code = req[r].code /\ At(r, "note")
    BY <1>6, AtPersons, LoginGoes DEF NotesStep, PersonSteps
  <2>4. req[r].code[1] \in 1..drawn
    BY <2>3 DEF FactorInv, CodesAreDrawn
  <2>5. SecretsApart' /\ drawn \in Nat /\ drawn' \in Nat /\ drawn <= drawn'
    BY <1>1, <1>5, <2>1, <2>2, SecretsStayApart
  <2>6. Found(req'[r], factor'[t]) /\ ~(At(r, "enable") \/ At(r, "first step"))'
    BY <2>3 DEF Found, At
  <2>7. ~mixed' /\ factor'[t].on => factor'[t].secret \in proven'
    BY <1>1, <1>2, <1>3, <1>5, <2>2, Zenon DEF RequiredIsProven
  <2> QED BY <1>1, <1>2, <1>3, <1>4, <2>1, <2>3, <2>4, <2>5, <2>6, <2>7, FactorMoves
<1>7. CASE NotesFirst(r)
  <2>1. /\ factor'[t] = [f EXCEPT !.last = req[r].code[2]] /\ req[r].code[2] \in Int
        /\ drawn' = drawn /\ spent' = spent \cup {req[r].code}
    BY <1>7, FactorWritten DEF NotesFirst, Proof
  <2>2. factor'[t].secret = f.secret /\ (factor'[t].on <=> f.on)
    <3> HIDE DEF f, t
    <3> QED BY <1>5, <2>1 DEF Factor
  <2>3. At(r, "first step") /\ req'[r] = None
    BY <1>7 DEF NotesFirst, Ends, RequestsType
  <2>4. req[r].code[1] \in 1..drawn
    BY <2>3 DEF FactorInv, CodesAreDrawn
  <2>5. SecretsApart' /\ drawn \in Nat /\ drawn' \in Nat /\ drawn <= drawn'
    BY <1>1, <1>5, <2>1, <2>2, SecretsStayApart
  <2>6. ~(\/ At(r, "secret") \/ At(r, "last") \/ At(r, "note") \/ Bears(r)
          \/ At(r, "enable") \/ At(r, "first step"))'
    BY <2>3 DEF At, Bears
  <2>7. ~mixed' /\ factor'[t].on => factor'[t].secret \in proven'
    BY <1>1, <1>2, <1>3, <1>5, <2>2, Zenon DEF RequiredIsProven
  <2>8. \A p \in spent' \ spent : p[1] \in 0..drawn'
    BY <2>1, <2>4
  <2> QED BY <1>1, <1>2, <1>3, <1>4, <2>3, <2>5, <2>6, <2>7, <2>8, FactorMoves
<1>8. CASE Requires(r)
  <2>1. factor'[t] = [f EXCEPT !.on = TRUE, !.last = Never] /\ drawn' = drawn /\ spent' = spent
    BY <1>8, FactorWritten DEF Requires, seen
  <2>2. factor'[t].secret = f.secret /\ factor'[t].on
    <3>1. Never \in Int
      BY DEF Never
    <3> HIDE DEF f, t
    <3> QED BY <1>5, <2>1, <3>1 DEF Factor
  <2>3. /\ req[r] \in ConfirmRequest /\ req'[r].at = "first step" /\ req'[r].target = t
        /\ req'[r].code = req[r].code /\ At(r, "enable")
    BY <1>8, AtPersons, ConfirmGoes DEF Requires, PersonSteps
  <2>4. req[r].code[1] \in 1..drawn /\ req[r].code[1] \in proven
    BY <2>3 DEF FactorInv, CodesAreDrawn, ConfirmedIsProven
  <2>5. SecretsApart' /\ drawn \in Nat /\ drawn' \in Nat /\ drawn <= drawn'
    BY <1>1, <1>5, <2>1, <2>2, SecretsStayApart
  <2>6. ~mixed => req[r].code[1] = f.secret /\ f.secret # 0
    BY <2>3, WhatIsFound DEF Found
  <2>7. ~mixed => Found(req'[r], factor'[t]) /\ factor'[t].secret \in proven'
    BY <1>3, <2>2, <2>3, <2>4, <2>6 DEF Found
  <2>8. ~mixed' => Found(req'[r], factor'[t]) /\ factor'[t].secret \in proven'
    BY <1>2, <2>7
  <2>9. req'[r].code[1] \in 1..drawn' /\ req'[r].code[1] \in proven'
    BY <1>3, <2>1, <2>3, <2>4
  <2> QED BY <1>1, <1>2, <1>3, <1>4, <2>1, <2>3, <2>5, <2>8, <2>9, FactorMoves
<1>9. CASE SwitchesOff(r)
  <2>1. factor'[t] = [f EXCEPT !.on = FALSE, !.last = Never] /\ drawn' = drawn /\ spent' = spent
    BY <1>9, FactorWritten DEF SwitchesOff, seen
  <2>2. factor'[t].secret = f.secret /\ ~factor'[t].on
    <3>1. Never \in Int
      BY DEF Never
    <3> HIDE DEF f, t
    <3> QED BY <1>5, <2>1, <3>1 DEF Factor
  <2>3. req[r] \in DropRequest /\ req'[r].at = "clear" /\ req'[r].target = t
    BY <1>9, AtPersons, DropGoes DEF SwitchesOff, PersonSteps
  <2>5. SecretsApart' /\ drawn \in Nat /\ drawn' \in Nat /\ drawn <= drawn'
    BY <1>1, <1>5, <2>1, <2>2, SecretsStayApart
  <2>6. /\ Found(req'[r], factor'[t])
        /\ ~(\/ At(r, "secret") \/ At(r, "last") \/ At(r, "note") \/ Bears(r)
             \/ At(r, "enable") \/ At(r, "first step"))'
    BY <2>2, <2>3 DEF Found, At, Bears
  <2> QED BY <1>1, <1>2, <1>3, <1>4, <2>1, <2>2, <2>3, <2>5, <2>6, FactorMoves
<1>10. CASE ClearsSecret(r) \/ DrawsSecret(r)
  <2>1. /\ spent' = spent /\ req'[r] = None
        /\ ClearsSecret(r) => factor'[t] = [f EXCEPT !.secret = 0] /\ drawn' = drawn
        /\ DrawsSecret(r) => factor'[t] = [f EXCEPT !.secret = drawn + 1] /\ drawn' = drawn + 1
    BY <1>10, FactorWritten DEF ClearsSecret, DrawsSecret, seen, Ends, RequestsType
  <2>2. drawn + 1 \in Nat /\ 0 \in Nat
    BY DEF PersonsType
  <2>3. /\ factor'[t].on <=> f.on
        /\ \/ factor'[t].secret = 0 /\ drawn' = drawn
           \/ factor'[t].secret = drawn + 1 /\ drawn' = drawn + 1
    <3>1. Never \in Int
      BY DEF Never
    <3> HIDE DEF f, t
    <3> QED BY <1>5, <1>10, <2>1, <2>2, <3>1 DEF Factor
  <2>4. SecretsApart' /\ drawn \in Nat /\ drawn' \in Nat /\ drawn <= drawn'
    BY <1>1, <1>5, <2>3, SecretsStayApart
  <2>5. ~mixed => ~f.on
    BY <1>10, WhatIsFound DEF Found, ClearsSecret, DrawsSecret
  <2>6. ~mixed' => ~factor'[t].on
    BY <1>2, <2>3, <2>5, Zenon
  <2>7. ~(\/ At(r, "secret") \/ At(r, "last") \/ At(r, "note") \/ Bears(r)
          \/ At(r, "enable") \/ At(r, "first step"))'
    BY <2>1 DEF At, Bears
  <2> QED BY <1>1, <1>2, <1>3, <1>4, <2>1, <2>4, <2>6, <2>7, FactorMoves
<1> QED BY <1>6, <1>7, <1>8, <1>9, <1>10

\* What requests do that touch no factor: they begin, end or go on elsewhere.
LEMMA FactorQuiet ==
  ASSUME FactorInv, factor' = factor, drawn' = drawn, proven' = proven, mixed' = mixed,
         \A p \in spent' \ spent : p[1] \in 0..drawn,
         \A q \in Request : req'[q] = req[q] \/ req'[q] = None \/
                            req'[q].at \notin PersonSteps \ {"account"}
  PROVE  FactorInv'
<1>1. \A q \in Request :
        req'[q] # None /\ req'[q].at \in PersonSteps \ {"account"} => req'[q] = req[q]
  OBVIOUS
<1>2. SecretsApart'
  BY DEF FactorInv, SecretsApart
<1>3. CodesAreDrawn'
  BY <1>1 DEF FactorInv, CodesAreDrawn, At, Bears, PersonSteps
<1>4. ConfirmedIsProven'
  BY <1>1 DEF FactorInv, ConfirmedIsProven, At, PersonSteps
<1>5. ASSUME ~mixed'
      PROVE  OneOnFactor' /\ FactorAsFound' /\ RequiredIsProven'
  <2>1. OneOnFactor /\ FactorAsFound /\ RequiredIsProven
    BY <1>5 DEF FactorInv
  <2>2. OneOnFactor'
    BY ZenonT(30), <1>1, <2>1 DEF OneOnFactor, IsOnFactor, OnFactor, PersonSteps
  <2>3. FactorAsFound'
    <3> SUFFICES ASSUME NEW q \in Request, req'[q] # None
                 PROVE  Found(req'[q], factor'[req'[q].target])
      BY DEF FactorAsFound
    <3>1. CASE req'[q].at \notin PersonSteps \ {"account"}
      BY <3>1 DEF Found, PersonSteps
    <3>2. CASE req'[q].at \in PersonSteps \ {"account"}
      <4>1. req'[q] = req[q] /\ Found(req[q], factor[req[q].target])
        BY <1>1, <2>1, <3>2 DEF FactorAsFound
      <4> QED BY <4>1, Zenon
    <3> QED BY <3>1, <3>2
  <2>4. RequiredIsProven'
    BY <2>1, Zenon DEF RequiredIsProven
  <2> QED BY <2>2, <2>3, <2>4
<1> QED BY <1>2, <1>3, <1>4, <1>5 DEF FactorInv

\* Nothing changes of the codes presented, of who is dropping a factor and of
\* who just confirmed one.
LEMMA PastKept ==
  ASSUME PresentedArePast, factor' = factor, \A p \in Presented' \ Presented : p[1] = 0,
         \A q \in Request :
           req'[q] = req[q] \/ ~(At(q, "clear") \/ At(q, "first step")')
  PROVE  PresentedArePast'
<1>1. \A u \in User : (IsDropped(u) => IsDropped(u)') /\ (IsConfirmed(u)' => IsConfirmed(u))
  BY DEF IsDropped, IsConfirmed, At
<1> SUFFICES ASSUME NEW u \in User, NEW p \in Presented', p[1] = factor[u].secret, p[1] # 0
             PROVE  \/ IsDropped(u)'
                    \/ factor'[u].on /\ p[2] <= factor'[u].last /\ ~IsConfirmed(u)'
  BY DEF PresentedArePast
<1>2. p \in Presented
  OBVIOUS
<1>3. IsDropped(u) \/ (factor[u].on /\ p[2] <= factor[u].last /\ ~IsConfirmed(u))
  BY <1>2 DEF PresentedArePast
<1> QED BY <1>1, <1>3, Zenon

\* Elsewhere than on the factor a request writes, the codes presented stay past.
LEMMA PastElsewhere ==
  ASSUME PresentedArePast, SecretsApart, NEW r \in Request, NEW t \in User,
         \A q \in Request \ {r} : req'[q] = req[q],
         req[r].target = t, req'[r] # None => req'[r].target = t,
         \A u \in User \ {t} : factor'[u] = factor[u],
         NEW u \in User \ {t}, NEW p \in Presented',
         p \in Presented \/ p[1] = factor[t].secret, p[1] = factor'[u].secret, p[1] # 0
  PROVE  IsDropped(u)' \/ (factor'[u].on /\ p[2] <= factor'[u].last /\ ~IsConfirmed(u)')
<1>1. factor'[u] = factor[u] /\ u # t
  OBVIOUS
<1>2. p \in Presented
  BY <1>1 DEF SecretsApart
<1>3. IsDropped(u) \/ (factor[u].on /\ p[2] <= factor[u].last /\ ~IsConfirmed(u))
  BY <1>1, <1>2 DEF PresentedArePast
<1>4. (IsDropped(u) => IsDropped(u)') /\ (IsConfirmed(u)' => IsConfirmed(u))
  BY <1>1 DEF IsDropped, IsConfirmed, At
<1> QED BY <1>1, <1>3, <1>4, Zenon

\* Nobody bears another code than before.
LEMMA BearersKept ==
  ASSUME BearersApart, CodesAreDrawn, drawn \in Nat, \A p \in spent' \ spent : p[1] = 0,
         \A q \in Request : Bears(q)' => Bears(q) /\ req'[q].code = req[q].code
  PROVE  BearersApart'
<1>1. \A q \in Request : Bears(q) => req[q].code[1] # 0
  <2>1. 0 \notin 1..drawn
    OBVIOUS
  <2> QED BY <2>1, Zenon DEF CodesAreDrawn
<1> QED BY <1>1 DEF BearersApart

\* A write that fails unheeded leaves the factor as it was found.
LEMMA UnheededOnFactor ==
  ASSUME RequestsType, PersonsType, FactorInv, NEW r \in Request, GoesUnheeded(r)
  PROVE  FactorInv'
<1>1. /\ factor' = factor /\ drawn' = drawn /\ proven' = proven /\ mixed' = mixed
  BY DEF GoesUnheeded
<1>2. \A q \in Request \ {r} : req'[q] = req[q]
  BY UnheededMoves
<1>3. CASE /\ At(r, "note") /\ req[r] \in LoginRequest /\ req'[r] \in LoginRequest
           /\ req'[r].at = "open" /\ req'[r].target = req[r].target
           /\ req'[r].code = req[r].code /\ spent' = spent
  <2>1. req[r].target \in User
    BY <1>3 DEF LoginRequest
  <2>2. req[r].code[1] \in 1..drawn
    BY <1>3 DEF FactorInv, CodesAreDrawn
  <2>3. ~(At(r, "enable") \/ At(r, "first step"))' /\ ~IsOnFactor(r)'
    BY <1>3 DEF At, IsOnFactor, OnFactor
  <2>4. Found(req'[r], factor[req[r].target])
    BY <1>3 DEF Found
  <2> QED BY <1>1, <1>2, <1>3, <2>1, <2>2, <2>3, <2>4, RequestMovesOnFactor
<1>4. CASE /\ req'[r] = None
           /\ spent' = spent \/ (At(r, "first step") /\ spent' = spent \cup {req[r].code})
  <2>1. At(r, "first step") => req[r].code[1] \in 1..drawn
    BY DEF FactorInv, CodesAreDrawn
  <2>2. drawn \in Nat
    BY DEF PersonsType
  <2>3. 1..drawn \subseteq 0..drawn
    BY <2>2
  <2>4. \A p \in spent' \ spent : p[1] \in 0..drawn
    BY <1>4, <2>1, <2>3
  <2> QED BY <1>1, <1>2, <1>4, <2>4, FactorQuiet
<1> QED BY <1>3, <1>4, UnheededMoves

\* A step of persons keeps what is known of the factors.
LEMMA FactorStep ==
  ASSUME RequestsType, PersonsType, FactorInv, KeysInv, LoginsNext
  PROVE  FactorInv'
<1>1. ASSUME NEW r \in Request, NEW u \in User, NEW c \in 1..sent, AnswersKey(r, u, c)
      PROVE  FactorInv'
  <2> DEFINE what == [at |-> "account", target |-> u, proof |-> <<0, c>>]
  <2>1. what.at = "account"
    OBVIOUS
  <2>2. Begins(r, what) \/ req' = req
    BY <1>1 DEF AnswersKey
  <2>3. factor' = factor /\ drawn' = drawn /\ proven' = proven /\ mixed' = mixed /\ spent' = spent
    BY <1>1 DEF AnswersKey, seen
  <2> HIDE DEF what
  <2>4. \A q \in Request : req'[q] = req[q] \/ req'[q] = what
    BY <2>2 DEF Begins, RequestsType
  <2> QED BY <2>1, <2>3, <2>4, FactorQuiet
<1>2. ASSUME NEW r \in Request, NEW u \in User,
             \/ \E p \in Codes \cup {NoCode} : AsksLogin(r, u, p)
             \/ \E p \in Codes : AsksConfirm(r, u, p)
             \/ AsksSecret(r, u) \/ AsksDrop(r, u)
      PROVE  FactorInv'
  BY <1>2, BeginsOnFactor
<1>3. ASSUME NEW r \in Request,
             LooksAtSecret(r) \/ LooksAtLast(r) \/ OpensSession(r) \/ LooksAtAccount(r)
      PROVE  FactorInv'
  BY <1>3, LooksOnFactor
<1>4. ASSUME NEW r \in Request,
             \/ NotesStep(r) \/ NotesFirst(r) \/ Requires(r) \/ SwitchesOff(r) \/ ClearsSecret(r)
             \/ DrawsSecret(r)
      PROVE  FactorInv'
  BY <1>4, WritesOnFactor
<1>5. CASE \/ \E u \in User : StartsKey(u) \/ FinishesKey(u) \/ RemovesKey(u) \/ SendsChallenge(u)
           \/ ForgetsCeremonies \/ Tick
  <2>1. /\ factor' = factor /\ drawn' = drawn /\ proven' = proven /\ mixed' = mixed
        /\ spent' = spent /\ req' = req
    BY <1>5 DEF StartsKey, FinishesKey, RemovesKey, SendsChallenge, ForgetsCeremonies, Tick, seen
  <2> QED BY <2>1, FactorQuiet
<1>6. ASSUME NEW r \in Request, GoesUnheeded(r)
      PROVE  FactorInv'
  BY <1>6, UnheededOnFactor
<1> QED BY <1>1, <1>2, <1>3, <1>4, <1>5, <1>6 DEF LoginsNext

\* Steps that present no code and neither confirm nor drop a factor.
LEMMA CodesQuiet ==
  ASSUME CodesInv, FactorInv, drawn \in Nat, factor' = factor, ~mixed' => ~mixed,
         ~halved' => ~halved, \A p \in spent' \ spent : p[1] = 0,
         \A q \in Request :
           \/ req'[q] = req[q]
           \/ ~(At(q, "clear") \/ At(q, "first step")' \/ Bears(q)')
  PROVE  CodesInv'
<1> SUFFICES ASSUME ~mixed', ~halved'
             PROVE  PresentedArePast' /\ BearersApart'
  BY DEF CodesInv
<1>1. PresentedArePast /\ BearersApart /\ CodesAreDrawn
  BY DEF CodesInv, FactorInv
<1>2. \A q \in Request : Bears(q)' => Bears(q) /\ req'[q].code = req[q].code
  BY DEF Bears, At
<1>3. \A p \in Presented' \ Presented : p[1] = 0
  BY <1>2 DEF Presented
<1>4. \A q \in Request :
        req'[q] = req[q] \/ ~(At(q, "clear") \/ At(q, "first step")')
  OBVIOUS
<1> QED BY <1>1, <1>2, <1>3, <1>4, PastKept, BearersKept

\* Requests that begin, and those that look, present no code.
LEMMA BeginsOnCodes ==
  ASSUME RequestsType, PersonsType, FactorInv, CodesInv, KeysInv, NEW r \in Request,
         \/ \E u \in User :
              \/ \E p \in Codes \cup {NoCode} : AsksLogin(r, u, p)
              \/ \E p \in Codes : AsksConfirm(r, u, p)
              \/ \E c \in 1..sent : AnswersKey(r, u, c)
              \/ AsksSecret(r, u) \/ AsksDrop(r, u)
         \/ LooksAtSecret(r) \/ LooksAtLast(r) \/ LooksAtAccount(r)
  PROVE  CodesInv'
<1>1. factor' = factor /\ drawn \in Nat /\ (~halved' => ~halved) /\ (~mixed' => ~mixed)
  <2>1. factor' = factor /\ drawn \in Nat /\ halved' = halved
    BY DEF AsksLogin, AsksConfirm, AnswersKey, AsksSecret, AsksDrop, LooksAtSecret, LooksAtLast,
           LooksAtAccount, seen, logins, PersonsType
  <2>2. mixed' = mixed \/ (\E u \in User : Meets(u))
        \/ \E u \in User : mixed' = (mixed \/ factor[u].on \/ \E q \in Request :
                 req[q] # None /\ req[q].at \in OnFactor /\ req[q].target = u)
    BY DEF AsksLogin, AsksConfirm, AnswersKey, AsksSecret, AsksDrop, LooksAtSecret, LooksAtLast,
           LooksAtAccount, seen, logins
  <2>3. ~mixed' => ~mixed
    BY <2>2, MeetsNobody, Zenon
  <2> QED BY <2>1, <2>3, Zenon
<1>2. \A p \in spent' \ spent : p[1] = 0
  <2>1. CASE LooksAtAccount(r)
    <3>1. At(r, "account") /\ spent' \subseteq spent \cup {req[r].proof}
      BY <2>1 DEF LooksAtAccount, Opens
    <3> QED BY <3>1 DEF KeysInv
  <2>2. CASE ~LooksAtAccount(r)
    <3>1. spent' = spent
      BY <2>2 DEF AsksLogin, AsksConfirm, AnswersKey, AsksSecret, AsksDrop, LooksAtSecret, LooksAtLast,
                  seen, logins
    <3> QED BY <3>1
  <2> QED BY <2>1, <2>2
<1>3. ASSUME NEW what, Begins(r, what),
             what.at \in {"secret", "draw", "enable", "switch off", "account"} \/ what.secret = 0,
             what.at # "first step"
      PROVE  CodesInv'
  <2>1. \A q \in Request : q # r => req'[q] = req[q]
    BY <1>3 DEF Begins, RequestsType
  <2>2. req[r] = None /\ req'[r] = what
    BY <1>3 DEF Begins, RequestsType
  <2>3. ~(At(r, "clear") \/ At(r, "first step")' \/ Bears(r)')
    BY <1>3, <2>2 DEF At, Bears
  <2> QED BY <1>1, <1>2, <2>1, <2>3, CodesQuiet
<1>4. ASSUME NEW u \in User, NEW p \in Codes \cup {NoCode}, AsksLogin(r, u, p)
      PROVE  CodesInv'
  <2> DEFINE what == [at |-> IF factor[u].on THEN "secret" ELSE "open", target |-> u,
                      code |-> p, secret |-> 0]
  <2>1. Begins(r, what) /\ what.secret = 0 /\ what.at # "first step"
    BY <1>4 DEF AsksLogin
  <2> HIDE DEF what
  <2> QED BY <1>3, <2>1
<1>5. ASSUME NEW u \in User, NEW p \in Codes, AsksConfirm(r, u, p)
      PROVE  CodesInv'
  <2> DEFINE what == [at |-> "enable", target |-> u, code |-> p]
  <2>1. Begins(r, what) /\ what.at = "enable"
    BY <1>5 DEF AsksConfirm
  <2> HIDE DEF what
  <2> QED BY <1>3, <2>1
<1>6. ASSUME NEW u \in User, NEW c \in 1..sent, AnswersKey(r, u, c)
      PROVE  CodesInv'
  <2> DEFINE what == [at |-> "account", target |-> u, proof |-> <<0, c>>]
  <2>1. (Begins(r, what) \/ req' = req) /\ what.at = "account"
    BY <1>6 DEF AnswersKey
  <2> HIDE DEF what
  <2>2. CASE req' = req
    BY <1>1, <1>2, <2>2, CodesQuiet
  <2> QED BY <1>3, <2>1, <2>2
<1>7. ASSUME NEW u \in User, AsksSecret(r, u) \/ AsksDrop(r, u)
      PROVE  CodesInv'
  <2> DEFINE draw == [at |-> "draw", target |-> u]
             drop == [at |-> "switch off", target |-> u]
  <2>1. (Begins(r, draw) \/ Begins(r, drop)) /\ draw.at = "draw" /\ drop.at = "switch off"
    BY <1>7 DEF AsksSecret, AsksDrop
  <2> HIDE DEF draw, drop
  <2> QED BY <1>3, <2>1
<1>8. CASE LooksAtSecret(r) \/ LooksAtLast(r) \/ LooksAtAccount(r)
  <2>1. At(r, "secret") \/ At(r, "last") \/ At(r, "account")
    BY <1>8 DEF LooksAtSecret, LooksAtLast, LooksAtAccount
  <2>2. \A q \in Request : q # r => req'[q] = req[q]
    BY <1>8 DEF LooksAtSecret, LooksAtLast, LooksAtAccount, Opens, Ends, Goes, RequestsType
  <2>3. req'[r] = None \/ req'[r].at \in {"last", "note"}
    <3>1. CASE Ends(r)
      BY <3>1, RequestEnds DEF Ends, RequestsType
    <3>2. CASE ~Ends(r)
      <4>1. req[r] \in LoginRequest
        BY <1>8, <3>2, AtPersons DEF LooksAtSecret, LooksAtLast, LooksAtAccount, Opens, PersonSteps
      <4>2. CASE LooksAtSecret(r)
        <5>1. req' = [req EXCEPT ![r].secret = factor[req[r].target].secret, ![r].at = "last"]
          BY <3>2, <4>2 DEF LooksAtSecret
        <5>2. factor[req[r].target].secret \in Nat
          BY <4>1 DEF LoginRequest, PersonsType, Factor
        <5> QED BY <4>1, <5>1, <5>2, LoginGoesOn
      <4>3. CASE LooksAtLast(r)
        BY <3>2, <4>1, <4>3, LoginGoes DEF LooksAtLast
      <4> QED BY <1>8, <3>2, <4>2, <4>3 DEF LooksAtAccount, Opens
    <3> QED BY <3>1, <3>2
  <2>4. ~(At(r, "clear") \/ At(r, "first step")' \/ Bears(r)')
    BY <2>1, <2>3 DEF At, Bears
  <2> QED BY <1>1, <1>2, <2>2, <2>4, CodesQuiet
<1> QED BY <1>4, <1>5, <1>6, <1>7, <1>8

\* A session that opens spends the code its request bears.
LEMMA OpensOnCodes ==
  ASSUME RequestsType, PersonsType, FactorInv, CodesInv, NEW r \in Request, OpensSession(r)
  PROVE  CodesInv'
<1>1. /\ At(r, "open") /\ req'[r] = None /\ \A q \in Request \ {r} : req'[q] = req[q]
      /\ factor' = factor
  BY DEF OpensSession, Opens, Ends, RequestsType
<1>2. mixed' = mixed /\ halved' = halved
  BY DEF OpensSession
<1>3. spent' = IF Bears(r) THEN spent \cup {req[r].code} ELSE spent
  <2>1. None \notin spent /\ req[r] \in LoginRequest /\ req[r].code \in Proof
    BY <1>1, AtPersons, LoginsAssumption DEF PersonsType, PersonSteps, LoginRequest
  <2>2. req[r].code # None
    BY <2>1, LoginsAssumption
  <2> QED BY <1>1, <2>1, <2>2 DEF OpensSession, Opens, Bears
<1> SUFFICES ASSUME PresentedArePast, BearersApart
             PROVE  PresentedArePast' /\ BearersApart'
  BY <1>2, Zenon DEF CodesInv
<1>4. \A q \in Request : Bears(q)' => Bears(q) /\ req'[q] = req[q] /\ q # r
  BY <1>1 DEF Bears, At
<1>5. Presented' \subseteq Presented
  BY <1>3, <1>4 DEF Presented
<1>6. \A q \in Request :
        req'[q] = req[q] \/ ~(At(q, "clear") \/ At(q, "first step")')
  BY <1>1 DEF At
<1>7. PresentedArePast'
  BY <1>1, <1>5, <1>6, PastKept
<1>8. BearersApart'
  <2>1. \A q \in Request : Bears(q)' => req'[q].code \notin spent'
    BY <1>3, <1>4 DEF BearersApart
  <2>2. \A p, q \in Request : Bears(p)' /\ Bears(q)' /\ req'[p].code = req'[q].code => p = q
    BY <1>4 DEF BearersApart
  <2> QED BY <2>1, <2>2 DEF BearersApart
<1> QED BY <1>7, <1>8

\* A code noted: it is later than the codes presented before it.
LEMMA NotesOnCodes ==
  ASSUME RequestsType, PersonsType, FactorInv, CodesInv, NEW r \in Request,
         NotesStep(r) \/ NotesFirst(r), NEW t, t = req[r].target, NEW k, k = req[r].code
  PROVE  CodesInv'
<1>1. /\ t \in User /\ IsOnFactor(r) /\ factor' \in [User -> Factor] /\ factor[t] \in Factor
      /\ \A u \in User \ {t} : factor'[u] = factor[u]
  BY FactorWritten DEF PersonsType
<1>2. mixed' = mixed /\ halved' = halved
  BY DEF NotesStep, NotesFirst, seen
<1> SUFFICES ASSUME PresentedArePast, BearersApart, ~mixed
             PROVE  PresentedArePast' /\ BearersApart'
  BY <1>2, Zenon DEF CodesInv
<1>3. factor'[t] = [factor[t] EXCEPT !.last = k[2]] /\ k \in Proof
  BY FactorWritten
<1>4. /\ factor'[t].secret = factor[t].secret /\ factor'[t].last = k[2]
      /\ factor'[t].on <=> factor[t].on
  BY <1>1, <1>3 DEF Factor
<1>5. /\ req[r] # None /\ (req'[r] = None \/ req'[r].target = t)
      /\ \A q \in Request \ {r} : req'[q] = req[q]
      /\ NotesStep(r) => At(r, "note") /\ Bears(r)' /\ req'[r].code = k /\ spent' = spent
      /\ NotesFirst(r) => At(r, "first step") /\ req'[r] = None /\ spent' = spent \cup {k}
  <2>1. CASE NotesStep(r)
    <3>1. req[r] \in LoginRequest /\ At(r, "note") /\ Goes(r, "open") /\ spent' = spent
      BY <2>1, AtPersons DEF NotesStep, PersonSteps, seen
    <3>2. /\ req'[r].at = "open" /\ req'[r].target = t /\ req'[r].code = k
          /\ req'[r] \in LoginRequest /\ req'[r].secret = req[r].secret
      BY <3>1, LoginGoes
    <3>3. req[r].secret # 0
      BY <3>1, WhatIsFound DEF Found
    <3>4. Bears(r)'
      BY <3>2, <3>3, LoginsAssumption DEF Bears, At
    <3>5. \A q \in Request \ {r} : req'[q] = req[q]
      BY <3>1 DEF Goes, RequestsType
    <3>6. ~NotesFirst(r)
      BY <3>1 DEF NotesFirst, At
    <3> QED BY <3>1, <3>2, <3>4, <3>5, <3>6 DEF At
  <2>2. CASE NotesFirst(r)
    BY <2>2 DEF NotesFirst, NotesStep, At, Ends, RequestsType
  <2> QED BY <2>1, <2>2
<1>6. /\ factor[t].on /\ k[1] = factor[t].secret /\ factor[t].secret # 0
      /\ NotesStep(r) => k[2] > factor[t].last
  BY <1>5, WhatIsFound DEF Found
<1>7. \A q \in Request \ {r} : ~(IsOnFactor(q) /\ req[q].target = t)
  BY <1>1, AloneOnFactor
<1>8. ~IsDropped(t) /\ ~IsConfirmed(t)' /\ (NotesFirst(r) => IsConfirmed(t))
  <2>1. At(r, "note") \/ At(r, "first step")
    BY <1>5
  <2>2. ~IsDropped(t)
    BY <1>7, <2>1 DEF IsDropped, IsOnFactor, OnFactor, At
  <2>3. ~At(r, "first step")'
    BY <1>5 DEF At, Bears
  <2>4. ~IsConfirmed(t)'
    BY <1>5, <1>7, <2>3 DEF IsConfirmed, IsOnFactor, OnFactor, At
  <2>5. NotesFirst(r) => IsConfirmed(t)
    BY <1>5 DEF IsConfirmed
  <2> QED BY <2>2, <2>4, <2>5
<1>9. Presented' = Presented \cup {k}
  <2>1. \A q \in Request \ {r} : Bears(q)' <=> Bears(q)
    BY <1>5 DEF Bears, At
  <2>2. ~Bears(r)
    BY <1>5 DEF Bears, At
  <2>3. CASE NotesStep(r)
    BY <1>5, <2>1, <2>2, <2>3 DEF Presented
  <2>4. CASE NotesFirst(r)
    <3>1. ~Bears(r)'
      BY <1>5, <2>4 DEF Bears, At
    <3> QED BY ZenonT(30), <1>5, <2>1, <2>2, <2>4, <3>1 DEF Presented
  <2> QED BY <2>3, <2>4
<1>10. k \notin Presented
  <2> SUFFICES ASSUME k \in Presented PROVE FALSE
    OBVIOUS
  <2>1. k[2] <= factor[t].last /\ ~IsConfirmed(t)
    BY <1>1, <1>6, <1>8 DEF PresentedArePast
  <2>2. k[2] \in Int /\ factor[t].last \in Int
    BY <1>1, <1>3 DEF Proof, Factor
  <2>3. k[2] > factor[t].last
    BY <1>6, <1>8, <2>1
  <2> QED BY <2>1, <2>2, <2>3
<1>11. PresentedArePast'
  <2> SUFFICES ASSUME NEW u \in User, NEW p \in Presented', p[1] = factor'[u].secret, p[1] # 0
               PROVE  \/ IsDropped(u)'
                      \/ factor'[u].on /\ p[2] <= factor'[u].last /\ ~IsConfirmed(u)'
    BY DEF PresentedArePast
  <2>1. CASE u = t /\ p = k
    <3>1. factor'[t].on /\ ~IsConfirmed(t)'
      BY <1>4, <1>6, <1>8, Zenon
    <3>2. k[2] <= factor'[t].last
      <4>1. k[2] \in Int /\ factor'[t].last = k[2]
        BY <1>3, <1>4 DEF Proof
      <4> QED BY <4>1
    <3> QED BY <2>1, <3>1, <3>2, Zenon
  <2>2. CASE u = t /\ p \in Presented
    <3>1. p[2] <= factor[t].last /\ ~IsConfirmed(t)
      BY <1>1, <1>4, <1>8, <2>2 DEF PresentedArePast
    <3>2. p[2] \in Int /\ factor[t].last \in Int /\ k[2] \in Int
      <4>1. p \in Proof
        <5>1. \A q \in Request : Bears(q) => req[q].code \in Proof
          BY AtPersons DEF Bears, PersonSteps, LoginRequest
        <5> QED BY <2>2, <5>1 DEF Presented, PersonsType
      <4> QED BY <1>1, <1>3, <4>1 DEF Proof, Factor
    <3>3. p[2] <= k[2]
      <4>1. k[2] > factor[t].last
        BY <1>6, <1>8, <3>1
      <4> QED BY <3>1, <3>2, <4>1
    <3>4. factor'[t].on /\ ~IsConfirmed(t)'
      BY <1>4, <1>6, <1>8, Zenon
    <3>5. p[2] <= factor'[t].last
      BY <1>4, <3>3
    <3> QED BY <2>2, <3>4, <3>5, Zenon
  <2>3. CASE u # t
    <3>1. SecretsApart
      BY DEF FactorInv
    <3>2. p \in Presented \/ p[1] = factor[t].secret
      BY <1>6, <1>9
    <3> QED BY <1>1, <1>5, <2>3, <3>1, <3>2, PastElsewhere
  <2> QED BY <1>9, <2>1, <2>2, <2>3
<1>12. BearersApart'
  <2>1. \A q \in Request \ {r} : Bears(q)' => Bears(q) /\ req'[q].code = req[q].code /\ req[q].code # k
    BY <1>5, <1>10 DEF Bears, At, Presented
  <2>2. k \notin spent
    BY <1>10 DEF Presented
  <2>3. spent' \subseteq spent \cup {k} /\ (Bears(r)' => req'[r].code = k /\ spent' = spent)
    BY <1>5 DEF Bears, At
  <2> QED BY <2>1, <2>2, <2>3 DEF BearersApart
<1> QED BY <1>11, <1>12

\* A factor required, switched off, cleared or drawn anew has no code presented
\* of its secret, or is about to lose it.
LEMMA WritesOnCodes ==
  ASSUME RequestsType, PersonsType, FactorInv, CodesInv, NEW r \in Request,
         Requires(r) \/ SwitchesOff(r) \/ ClearsSecret(r) \/ DrawsSecret(r),
         NEW t, t = req[r].target
  PROVE  CodesInv'
<1>1. /\ t \in User /\ IsOnFactor(r) /\ factor' \in [User -> Factor] /\ factor[t] \in Factor
      /\ \A u \in User \ {t} : factor'[u] = factor[u]
  BY FactorWritten DEF PersonsType
<1>2. mixed' = mixed /\ halved' = halved
  BY DEF Requires, SwitchesOff, ClearsSecret, DrawsSecret, seen
<1> SUFFICES ASSUME PresentedArePast, BearersApart, ~mixed
             PROVE  PresentedArePast' /\ BearersApart'
  BY <1>2, Zenon DEF CodesInv
<1>3. /\ At(r, "enable") \/ At(r, "switch off") \/ At(r, "clear") \/ At(r, "draw")
      /\ spent' = spent /\ (Ends(r) \/ Goes(r, "first step") \/ Goes(r, "clear"))
  BY DEF Requires, SwitchesOff, ClearsSecret, DrawsSecret, seen
<1>4. /\ req[r] # None /\ (req'[r] # None => req'[r].target = t) /\ ~Bears(r)'
      /\ \A q \in Request \ {r} : req'[q] = req[q]
  <2>1. req[r] \in ConfirmRequest \/ req[r] \in DropRequest \/ Ends(r)
    BY <1>3, AtPersons DEF PersonSteps, DrawsSecret, Requires, SwitchesOff, ClearsSecret
  <2>2. CASE Ends(r)
    BY <1>3, <2>2 DEF Ends, RequestsType, At, Bears
  <2>3. CASE ~Ends(r) /\ Requires(r)
    <3>1. req[r] \in ConfirmRequest /\ Goes(r, "first step")
      BY <2>3, AtPersons DEF Requires, PersonSteps
    <3> QED BY <1>3, <3>1, ConfirmGoes DEF Goes, RequestsType, At, Bears
  <2>4. CASE ~Ends(r) /\ SwitchesOff(r)
    <3>1. req[r] \in DropRequest /\ Goes(r, "clear")
      BY <2>4, AtPersons DEF SwitchesOff, PersonSteps
    <3> QED BY <1>3, <3>1, DropGoes DEF Goes, RequestsType, At, Bears
  <2> QED BY <2>2, <2>3, <2>4 DEF ClearsSecret, DrawsSecret
<1>5. \A q \in Request : Bears(q)' => Bears(q) /\ req'[q].code = req[q].code
  BY <1>4 DEF Bears, At
<1>6. Presented' \subseteq Presented
  BY <1>3, <1>5 DEF Presented
<1>7. CodesAreDrawn /\ SecretsApart /\ drawn \in Nat
  BY DEF FactorInv, PersonsType
<1>8. BearersApart'
  BY <1>3, <1>5, <1>7, BearersKept
<1>9. \A q \in Request \ {r} : ~(IsOnFactor(q) /\ req[q].target = t)
  BY <1>1, AloneOnFactor
<1>10. PresentedArePast'
  <2> SUFFICES ASSUME NEW u \in User, NEW p \in Presented', p[1] = factor'[u].secret, p[1] # 0
               PROVE  \/ IsDropped(u)'
                      \/ factor'[u].on /\ p[2] <= factor'[u].last /\ ~IsConfirmed(u)'
    BY DEF PresentedArePast
  <2>0. p \in Presented
    BY <1>6
  <2>1. CASE u # t
    BY <1>1, <1>4, <1>7, <2>0, <2>1, PastElsewhere
  <2>2. CASE u = t /\ Requires(r)
    <3>1. factor'[t] = [factor[t] EXCEPT !.on = TRUE, !.last = Never] /\ At(r, "enable")
      BY <2>2, FactorWritten DEF Requires
    <3>2. factor'[t].secret = factor[t].secret
      BY <1>1, <3>1 DEF Factor
    <3>3. ~factor[t].on
      BY <3>1, WhatIsFound DEF Found
    <3>4. IsDropped(t)
      BY <1>1, <2>0, <2>2, <3>2, <3>3 DEF PresentedArePast
    <3> QED BY <1>9, <3>1, <3>4 DEF IsDropped, IsOnFactor, OnFactor, At
  <2>3. CASE u = t /\ SwitchesOff(r)
    <3>1. req[r] \in DropRequest /\ Goes(r, "clear")
      BY <2>3, AtPersons DEF SwitchesOff, PersonSteps
    <3>2. req'[r].at = "clear" /\ req'[r].target = t /\ req'[r] # None
      BY <3>1, DropGoes, LoginsAssumption
    <3> QED BY <2>3, <3>2 DEF IsDropped, At
  <2>4. CASE u = t /\ ClearsSecret(r)
    <3>1. factor'[t] = [factor[t] EXCEPT !.secret = 0]
      BY <2>4, FactorWritten
    <3>2. factor'[t].secret = 0
      BY <1>1, <3>1 DEF Factor
    <3> QED BY <2>4, <3>2
  <2>5. CASE u = t /\ DrawsSecret(r)
    <3>1. factor'[t] = [factor[t] EXCEPT !.secret = drawn + 1]
      BY <2>5, FactorWritten
    <3>2. factor'[t].secret = drawn + 1
      BY <1>1, <3>1 DEF Factor
    <3>3. p[1] \in 0..drawn
      <4>1. 1..drawn \subseteq 0..drawn
        BY <1>7
      <4>2. \A q \in Request : Bears(q) => req[q].code[1] \in 1..drawn
        BY <1>7 DEF CodesAreDrawn
      <4>3. \A q \in spent : q[1] \in 0..drawn
        BY <1>7 DEF CodesAreDrawn
      <4> QED BY <2>0, <4>1, <4>2, <4>3 DEF Presented
    <3> QED BY <1>7, <2>5, <3>2, <3>3
  <2> QED BY <2>1, <2>2, <2>3, <2>4, <2>5
<1> QED BY <1>8, <1>10

\* A step of persons keeps what is known of the codes presented.
LEMMA CodesKept ==
  ASSUME RequestsType, PersonsType, FactorInv, CodesInv, KeysInv, LoginsNext
  PROVE  CodesInv'
<1>1. ASSUME NEW r \in Request,
             \/ \E u \in User :
                  \/ \E p \in Codes \cup {NoCode} : AsksLogin(r, u, p)
                  \/ \E p \in Codes : AsksConfirm(r, u, p)
                  \/ \E c \in 1..sent : AnswersKey(r, u, c)
                  \/ AsksSecret(r, u) \/ AsksDrop(r, u)
             \/ LooksAtSecret(r) \/ LooksAtLast(r) \/ LooksAtAccount(r)
      PROVE  CodesInv'
  BY <1>1, BeginsOnCodes
<1>2. ASSUME NEW r \in Request, OpensSession(r) \/ NotesStep(r) \/ NotesFirst(r)
      PROVE  CodesInv'
  BY <1>2, OpensOnCodes, NotesOnCodes
<1>3. ASSUME NEW r \in Request,
             Requires(r) \/ SwitchesOff(r) \/ ClearsSecret(r) \/ DrawsSecret(r)
      PROVE  CodesInv'
  BY <1>3, WritesOnCodes
<1>4. CASE \/ \E u \in User : StartsKey(u) \/ FinishesKey(u) \/ RemovesKey(u) \/ SendsChallenge(u)
           \/ ForgetsCeremonies \/ Tick
  <2>1. factor' = factor /\ spent' = spent /\ req' = req
    BY <1>4 DEF StartsKey, FinishesKey, RemovesKey, SendsChallenge, ForgetsCeremonies, Tick, seen
  <2>2. mixed' = mixed /\ halved' = halved
    BY <1>4 DEF StartsKey, FinishesKey, RemovesKey, SendsChallenge, ForgetsCeremonies, Tick, seen
  <2>3. drawn \in Nat
    BY DEF PersonsType
  <2> QED BY <2>1, <2>2, <2>3, CodesQuiet
<1>5. ASSUME NEW r \in Request, GoesUnheeded(r)
      PROVE  CodesInv'
  <2>1. halved'
    BY <1>5 DEF GoesUnheeded
  <2> QED BY <2>1 DEF CodesInv
<1> QED BY <1>1, <1>2, <1>3, <1>4, <1>5 DEF LoginsNext

-----------------------------------------------------------------------------
(* Passkeys.                                                               *)

\* Steps that send no challenge and answer none.
LEMMA KeysQuiet ==
  ASSUME PersonsType, KeysInv, sent' = sent, \A u \in User : challenge'[u] \in {0, challenge[u]},
         \A p \in spent' \ spent : p[1] # 0,
         \A q \in Request : At(q, "account")' => req'[q] = req[q]
  PROVE  KeysInv'
<1>1. \A q \in Request : At(q, "account")' => At(q, "account")
  BY DEF At
<1>2. \A u \in User : challenge'[u] <= sent' /\ (challenge'[u] # 0 => <<0, challenge'[u]>> \notin spent')
  <2> TAKE u \in User
  <2>1. CASE challenge'[u] = challenge[u]
    <3>1. <<0, challenge[u]>>[1] = 0
      OBVIOUS
    <3> QED BY <2>1, <3>1 DEF KeysInv
  <2>2. CASE challenge'[u] = 0
    BY <2>2 DEF PersonsType
  <2> QED BY <2>1, <2>2
<1>3. \A u, v \in User : challenge'[u] = challenge'[v] /\ challenge'[u] # 0 => u = v
  BY DEF KeysInv
<1>4. \A p \in spent' : p[1] = 0 => p[2] <= sent'
  BY DEF KeysInv
<1>5. \A r \in Request : At(r, "account")' =>
        /\ req'[r].proof[1] = 0 /\ req'[r].proof[2] \in 1..sent' /\ req'[r].proof \notin spent'
        /\ \A u \in User : challenge'[u] # req'[r].proof[2]
  <2> SUFFICES ASSUME NEW r \in Request, At(r, "account")'
               PROVE  /\ req'[r].proof[1] = 0 /\ req'[r].proof[2] \in 1..sent
                      /\ req'[r].proof \notin spent'
                      /\ \A u \in User : challenge'[u] # req'[r].proof[2]
    OBVIOUS
  <2>1. /\ req[r].proof[1] = 0 /\ req[r].proof[2] \in 1..sent /\ req[r].proof \notin spent
        /\ \A u \in User : challenge[u] # req[r].proof[2]
    BY <1>1 DEF KeysInv
  <2>2. 0 \notin 1..sent
    OBVIOUS
  <2> QED BY <2>1, <2>2
<1>6. \A q, r \in Request :
        At(q, "account")' /\ At(r, "account")' /\ req'[q].proof = req'[r].proof => q = r
  BY <1>1 DEF KeysInv
<1> QED BY <1>2, <1>3, <1>4, <1>5, <1>6 DEF KeysInv

\* A challenge sent is a new one.
LEMMA SendsOnKeys ==
  ASSUME PersonsType, KeysInv, NEW w \in User, SendsChallenge(w)
  PROVE  KeysInv'
<1>1. /\ sent \in Nat /\ sent' = sent + 1 /\ challenge'[w] = sent + 1
      /\ \A u \in User \ {w} : challenge'[u] = challenge[u]
      /\ spent' = spent /\ req' = req
  BY DEF SendsChallenge, PersonsType, seen
<1>2. \A u \in User : challenge[u] \in Nat /\ challenge[u] <= sent
  BY DEF PersonsType, KeysInv
<1>3. \A u \in User : challenge'[u] <= sent' /\ (challenge'[u] # 0 => <<0, challenge'[u]>> \notin spent')
  <2> TAKE u \in User
  <2>1. CASE u = w
    <3>1. <<0, sent + 1>> \notin spent
      <4> SUFFICES ASSUME <<0, sent + 1>> \in spent PROVE FALSE
        OBVIOUS
      <4>1. <<0, sent + 1>>[2] <= sent
        BY DEF KeysInv
      <4> QED BY <1>1, <4>1
    <3> QED BY <1>1, <2>1, <3>1
  <2>2. CASE u # w
    BY <1>1, <1>2, <2>2 DEF KeysInv
  <2> QED BY <2>1, <2>2
<1>4. \A u, v \in User : challenge'[u] = challenge'[v] /\ challenge'[u] # 0 => u = v
  <2>1. \A u, v \in User : challenge[u] = challenge[v] /\ challenge[u] # 0 => u = v
    BY DEF KeysInv
  <2>2. \A u \in User : challenge[u] # sent + 1
    BY <1>1, <1>2
  <2> QED BY <1>1, <2>1, <2>2
<1>5. \A p \in spent' : p[1] = 0 => p[2] <= sent'
  <2>1. \A p \in spent : p \in Proof /\ (p[1] = 0 => p[2] <= sent)
    BY DEF KeysInv, PersonsType
  <2>2. \A p \in spent : p[2] \in Int
    BY <2>1 DEF Proof
  <2> QED BY <1>1, <2>1, <2>2
<1>6. \A r \in Request : At(r, "account")' =>
        /\ req'[r].proof[1] = 0 /\ req'[r].proof[2] \in 1..sent' /\ req'[r].proof \notin spent'
        /\ \A u \in User : challenge'[u] # req'[r].proof[2]
  <2> SUFFICES ASSUME NEW r \in Request, At(r, "account")
               PROVE  /\ req[r].proof[1] = 0 /\ req[r].proof[2] \in 1..(sent + 1)
                      /\ req[r].proof \notin spent
                      /\ \A u \in User : challenge'[u] # req[r].proof[2]
    BY <1>1 DEF At
  <2>1. /\ req[r].proof[1] = 0 /\ req[r].proof[2] \in 1..sent /\ req[r].proof \notin spent
        /\ \A u \in User : challenge[u] # req[r].proof[2]
    BY DEF KeysInv
  <2>2. sent + 1 \notin 1..sent /\ 1..sent \subseteq 1..(sent + 1)
    BY <1>1
  <2> QED BY <1>1, <2>1, <2>2
<1>7. \A q, r \in Request :
        At(q, "account")' /\ At(r, "account")' /\ req'[q].proof = req'[r].proof => q = r
  BY <1>1 DEF KeysInv, At
<1> QED BY <1>3, <1>4, <1>5, <1>6, <1>7 DEF KeysInv

\* A challenge answered is gone before what the answer is worth is looked at.
LEMMA AnswersOnKeys ==
  ASSUME RequestsType, PersonsType, KeysInv, NEW r \in Request, NEW w \in User, NEW c \in 1..sent,
         AnswersKey(r, w, c), NEW what,
         what = [at |-> "account", target |-> w, proof |-> <<0, c>>]
  PROVE  KeysInv'
<1>1. /\ challenge[w] # 0 /\ challenge'[w] = 0 /\ sent' = sent /\ spent' = spent
      /\ \A u \in User \ {w} : challenge'[u] = challenge[u]
  BY DEF AnswersKey, AfterAnswer, PersonsType, seen
<1>2. CASE req' = req
  BY <1>1, <1>2, KeysQuiet
<1>3. CASE c = challenge[w] /\ Begins(r, what)
  <2>1. what.at = "account" /\ what.proof[1] = 0 /\ what.proof[2] = c /\ what.proof = <<0, c>>
    OBVIOUS
  <2>2. req'[r] = what /\ \A q \in Request \ {r} : req'[q] = req[q]
    BY <1>3 DEF Begins, RequestsType
  <2>3. \A q \in Request \ {r} : At(q, "account")' => At(q, "account")
    BY <2>2 DEF At
  <2>4. /\ \A u \in User : challenge[u] <= sent /\ (challenge[u] # 0 => <<0, challenge[u]>> \notin spent)
        /\ \A u, v \in User : challenge[u] = challenge[v] /\ challenge[u] # 0 => u = v
    BY DEF KeysInv
  <2>5. c # 0 /\ c \in 1..sent /\ <<0, c>> \notin spent /\ \A u \in User : challenge'[u] # c
    BY <1>1, <1>3, <2>4
  <2>6. \A u \in User : challenge'[u] <= sent' /\ (challenge'[u] # 0 => <<0, challenge'[u]>> \notin spent')
    BY <1>1, <2>4 DEF PersonsType
  <2>7. \A u, v \in User : challenge'[u] = challenge'[v] /\ challenge'[u] # 0 => u = v
    BY <1>1, <2>4
  <2>8. \A q \in Request : At(q, "account")' =>
          /\ req'[q].proof[1] = 0 /\ req'[q].proof[2] \in 1..sent' /\ req'[q].proof \notin spent'
          /\ \A u \in User : challenge'[u] # req'[q].proof[2]
    <3> SUFFICES ASSUME NEW q \in Request, At(q, "account")'
                 PROVE  /\ req'[q].proof[1] = 0 /\ req'[q].proof[2] \in 1..sent
                        /\ req'[q].proof \notin spent
                        /\ \A u \in User : challenge'[u] # req'[q].proof[2]
      BY <1>1
    <3>1. CASE q = r
      BY <2>1, <2>2, <2>5, <3>1
    <3>2. CASE q # r
      <4>1. /\ req[q].proof[1] = 0 /\ req[q].proof[2] \in 1..sent /\ req[q].proof \notin spent
            /\ \A u \in User : challenge[u] # req[q].proof[2]
        BY <2>3, <3>2 DEF KeysInv
      <4>2. 0 \notin 1..sent
        OBVIOUS
      <4> QED BY <1>1, <2>2, <3>2, <4>1, <4>2
    <3> QED BY <3>1, <3>2
  <2>9. \A p, q \in Request :
          At(p, "account")' /\ At(q, "account")' /\ req'[p].proof = req'[q].proof => p = q
    <3>1. \A q \in Request \ {r} : At(q, "account")' => req'[q].proof # what.proof
      <4>1. \A q \in Request : At(q, "account") => \A u \in User : challenge[u] # req[q].proof[2]
        BY DEF KeysInv
      <4> QED BY <1>3, <2>1, <2>2, <2>3, <4>1
    <3>2. \A p, q \in Request \ {r} :
            At(p, "account")' /\ At(q, "account")' /\ req'[p].proof = req'[q].proof => p = q
      BY <2>2, <2>3 DEF KeysInv
    <3> QED BY <2>2, <3>1, <3>2
  <2>10. \A p \in spent' : p[1] = 0 => p[2] <= sent'
    BY <1>1 DEF KeysInv
  <2> QED BY <2>6, <2>7, <2>8, <2>9, <2>10 DEF KeysInv
<1> QED BY <1>2, <1>3 DEF AnswersKey

\* The answer whose account is looked at is spent, or forgotten.
LEMMA LooksOnKeys ==
  ASSUME RequestsType, PersonsType, KeysInv, NEW r \in Request, LooksAtAccount(r)
  PROVE  KeysInv'
<1>1. /\ At(r, "account") /\ req'[r] = None /\ \A q \in Request \ {r} : req'[q] = req[q]
      /\ challenge' = challenge /\ sent' = sent
      /\ spent' = spent \/ spent' = spent \cup {req[r].proof}
  BY DEF LooksAtAccount, Opens, Ends, RequestsType
<1>2. CASE spent' = spent
  <2>1. \A q \in Request : At(q, "account")' => req'[q] = req[q]
    BY <1>1 DEF At
  <2>2. \A u \in User : challenge'[u] \in {0, challenge[u]}
    BY <1>1
  <2> QED BY <1>1, <1>2, <2>1, <2>2, KeysQuiet
<1>3. CASE spent' = spent \cup {req[r].proof}
  <2>1. /\ req[r].proof[1] = 0 /\ req[r].proof[2] \in 1..sent
        /\ \A u \in User : challenge[u] # req[r].proof[2]
    BY <1>1 DEF KeysInv
  <2>2. \A q \in Request : At(q, "account")' => At(q, "account") /\ req'[q] = req[q] /\ q # r
    BY <1>1 DEF At
  <2>3. \A u \in User : challenge'[u] <= sent' /\ (challenge'[u] # 0 => <<0, challenge'[u]>> \notin spent')
    <3> SUFFICES ASSUME NEW u \in User
                 PROVE  challenge[u] <= sent /\ (challenge[u] # 0 => <<0, challenge[u]>> \notin spent')
      BY <1>1
    <3>1. <<0, challenge[u]>>[2] = challenge[u]
      OBVIOUS
    <3>2. <<0, challenge[u]>> # req[r].proof
      BY <2>1, <3>1
    <3> QED BY <1>3, <3>2 DEF KeysInv
  <2>4. \A u, v \in User : challenge'[u] = challenge'[v] /\ challenge'[u] # 0 => u = v
    BY <1>1 DEF KeysInv
  <2>5. \A p \in spent' : p[1] = 0 => p[2] <= sent'
    <3>1. \A p \in spent : p[1] = 0 => p[2] <= sent
      BY DEF KeysInv
    <3>2. req[r].proof[2] <= sent
      BY <2>1
    <3> QED BY <1>1, <1>3, <3>1, <3>2
  <2>6. \A q \in Request : At(q, "account")' =>
          /\ req'[q].proof[1] = 0 /\ req'[q].proof[2] \in 1..sent' /\ req'[q].proof \notin spent'
          /\ \A u \in User : challenge'[u] # req'[q].proof[2]
    BY <1>1, <1>3, <2>2 DEF KeysInv
  <2>7. \A p, q \in Request :
          At(p, "account")' /\ At(q, "account")' /\ req'[p].proof = req'[q].proof => p = q
    BY <2>2 DEF KeysInv
  <2> QED BY <2>3, <2>4, <2>5, <2>6, <2>7 DEF KeysInv
<1> QED BY <1>1, <1>2, <1>3

\* A step of persons keeps what is known of the challenges.
LEMMA KeysKept ==
  ASSUME RequestsType, PersonsType, FactorInv, KeysInv, LoginsNext
  PROVE  KeysInv'
<1>1. ASSUME NEW r \in Request, NEW u \in User, NEW c \in 1..sent, AnswersKey(r, u, c)
      PROVE  KeysInv'
  BY <1>1, AnswersOnKeys
<1>2. ASSUME NEW r \in Request, LooksAtAccount(r)
      PROVE  KeysInv'
  BY <1>2, LooksOnKeys
<1>3. ASSUME NEW u \in User, SendsChallenge(u)
      PROVE  KeysInv'
  BY <1>3, SendsOnKeys
<1>4. ASSUME NEW r \in Request,
             \/ \E u \in User :
                  \/ \E p \in Codes \cup {NoCode} : AsksLogin(r, u, p)
                  \/ \E p \in Codes : AsksConfirm(r, u, p)
                  \/ AsksSecret(r, u) \/ AsksDrop(r, u)
             \/ LooksAtSecret(r) \/ LooksAtLast(r) \/ NotesStep(r) \/ OpensSession(r)
             \/ DrawsSecret(r) \/ Requires(r) \/ NotesFirst(r) \/ SwitchesOff(r) \/ ClearsSecret(r)
      PROVE  KeysInv'
  <2>1. sent' = sent /\ challenge' = challenge
    BY <1>4 DEF AsksLogin, AsksConfirm, AsksSecret, AsksDrop, LooksAtSecret, LooksAtLast, NotesStep,
       OpensSession, DrawsSecret, Requires, NotesFirst, SwitchesOff, ClearsSecret, logins
  <2>2. \A p \in spent' \ spent : p[1] # 0
    <3>1. CASE OpensSession(r) \/ NotesFirst(r)
      <4>1. At(r, "first step") \/ Bears(r) \/ spent' = spent
        BY <3>1 DEF OpensSession, NotesFirst, Opens, Bears
      <4>2. spent' \subseteq spent \cup {req[r].code}
        BY <3>1 DEF OpensSession, NotesFirst, Opens
      <4>3. At(r, "first step") \/ Bears(r) => req[r].code[1] \in 1..drawn
        BY DEF FactorInv, CodesAreDrawn
      <4>4. 0 \notin 1..drawn
        BY DEF PersonsType
      <4> QED BY <4>1, <4>2, <4>3, <4>4
    <3>2. CASE ~(OpensSession(r) \/ NotesFirst(r))
      <4>1. spent' = spent
        BY <1>4, <3>2 DEF AsksLogin, AsksConfirm, AsksSecret, AsksDrop, LooksAtSecret, LooksAtLast,
           NotesStep, DrawsSecret, Requires, SwitchesOff, ClearsSecret, logins, seen
      <4> QED BY <4>1
    <3> QED BY <3>1, <3>2
  <2>3. \A q \in Request \ {r} : req'[q] = req[q]
    BY <1>4 DEF AsksLogin, AsksConfirm, AsksSecret, AsksDrop, LooksAtSecret, LooksAtLast, NotesStep,
       OpensSession, DrawsSecret, Requires, NotesFirst, SwitchesOff, ClearsSecret, Begins, Goes, Ends,
       Opens, RequestsType
  <2>4. ~At(r, "account")'
    <3>1. ASSUME NEW what, Begins(r, what), what.at # "account"
          PROVE  ~At(r, "account")'
      BY <3>1 DEF Begins, RequestsType, At
    <3>2. ASSUME NEW u \in User, NEW p, AsksLogin(r, u, p)
          PROVE  ~At(r, "account")'
      <4> DEFINE what == [at |-> IF factor[u].on THEN "secret" ELSE "open", target |-> u,
                          code |-> p, secret |-> 0]
      <4>1. Begins(r, what) /\ what.at # "account"
        BY <3>2 DEF AsksLogin
      <4> HIDE DEF what
      <4> QED BY <3>1, <4>1
    <3>3. ASSUME NEW u \in User, NEW p, AsksConfirm(r, u, p)
          PROVE  ~At(r, "account")'
      <4> DEFINE what == [at |-> "enable", target |-> u, code |-> p]
      <4>1. Begins(r, what) /\ what.at # "account"
        BY <3>3 DEF AsksConfirm
      <4> HIDE DEF what
      <4> QED BY <3>1, <4>1
    <3>4. ASSUME NEW u \in User, AsksSecret(r, u) \/ AsksDrop(r, u)
          PROVE  ~At(r, "account")'
      <4> DEFINE draw == [at |-> "draw", target |-> u]
                 drop == [at |-> "switch off", target |-> u]
      <4>1. (Begins(r, draw) \/ Begins(r, drop)) /\ draw.at # "account" /\ drop.at # "account"
        BY <3>4 DEF AsksSecret, AsksDrop
      <4> HIDE DEF draw, drop
      <4> QED BY <3>1, <4>1
    <3>5. CASE \/ LooksAtSecret(r) \/ LooksAtLast(r) \/ NotesStep(r) \/ OpensSession(r)
               \/ DrawsSecret(r) \/ Requires(r) \/ NotesFirst(r) \/ SwitchesOff(r) \/ ClearsSecret(r)
      <4>1. \/ Ends(r) \/ Goes(r, "note") \/ Goes(r, "open") \/ Goes(r, "first step") \/ Goes(r, "clear")
            \/ LooksAtSecret(r) /\ req' = [req EXCEPT ![r].secret = factor[req[r].target].secret, ![r].at = "last"]
        BY <3>5 DEF LooksAtSecret, LooksAtLast, NotesStep, OpensSession, Opens, DrawsSecret, Requires,
           NotesFirst, SwitchesOff, ClearsSecret
      <4>2. \/ req[r] \in LoginRequest \/ req[r] \in ConfirmRequest \/ req[r] \in DropRequest
            \/ req[r] \in DrawRequest
        BY <3>5, AtPersons DEF LooksAtSecret, LooksAtLast, NotesStep, OpensSession, DrawsSecret, Requires,
           NotesFirst, SwitchesOff, ClearsSecret, PersonSteps
      <4>3. CASE Ends(r)
        BY <4>3 DEF Ends, RequestsType, At
      <4>4. CASE Goes(r, "note") \/ Goes(r, "open") \/ Goes(r, "first step") \/ Goes(r, "clear")
        BY <4>2, <4>4 DEF Goes, RequestsType, At, LoginRequest, ConfirmRequest, DropRequest, DrawRequest
      <4>5. CASE LooksAtSecret(r) /\ req' = [req EXCEPT ![r].secret = factor[req[r].target].secret, ![r].at = "last"]
        <5>1. req[r] \in LoginRequest
          BY <4>5, AtPersons DEF LooksAtSecret, PersonSteps
        <5>2. factor[req[r].target].secret \in Nat
          BY <5>1 DEF LoginRequest, PersonsType, Factor
        <5>3. req'[r].at = "last"
          BY <4>5, <5>1, <5>2, LoginGoesOn
        <5> QED BY <5>3 DEF At
      <4> QED BY <4>1, <4>3, <4>4, <4>5
    <3> QED BY <1>4, <3>2, <3>3, <3>4, <3>5
  <2>5. \A q \in Request : At(q, "account")' => req'[q] = req[q]
    BY <2>3, <2>4 DEF At
  <2>6. \A u \in User : challenge'[u] \in {0, challenge[u]}
    BY <2>1
  <2> QED BY <2>1, <2>2, <2>5, <2>6, KeysQuiet
<1>5. CASE \/ \E u \in User : StartsKey(u) \/ FinishesKey(u) \/ RemovesKey(u)
           \/ ForgetsCeremonies \/ Tick
  <2>1. /\ spent' = spent /\ req' = req /\ sent' = sent
        /\ \A u \in User : challenge'[u] \in {0, challenge[u]}
    BY <1>5 DEF StartsKey, FinishesKey, RemovesKey, ForgetsCeremonies, Tick, seen
  <2> QED BY <2>1, KeysQuiet
<1>6. ASSUME NEW r \in Request, GoesUnheeded(r)
      PROVE  KeysInv'
  <2>1. sent' = sent /\ challenge' = challenge
    BY <1>6 DEF GoesUnheeded
  <2>2. At(r, "first step") => req[r].code[1] \in 1..drawn
    BY DEF FactorInv, CodesAreDrawn
  <2>3. \A p \in spent' \ spent : p[1] # 0
    <3>1. 0 \notin 1..drawn
      BY DEF PersonsType
    <3>2. spent' = spent \/ (At(r, "first step") /\ spent' = spent \cup {req[r].code})
      BY <1>6 DEF GoesUnheeded
    <3> QED BY <2>2, <3>1, <3>2
  <2>4. ~At(r, "account")'
    BY <1>6, UnheededMoves DEF At
  <2>5. \A q \in Request : At(q, "account")' => req'[q] = req[q]
    BY <1>6, <2>4, UnheededMoves
  <2>6. \A u \in User : challenge'[u] \in {0, challenge[u]}
    BY <2>1
  <2> QED BY <2>1, <2>3, <2>5, <2>6, KeysQuiet
<1> QED BY <1>1, <1>2, <1>3, <1>4, <1>5, <1>6 DEF LoginsNext

-----------------------------------------------------------------------------
(* A step of persons.                                                      *)

\* A step of persons keeps the types of their tables.
LEMMA PersonsTypeKept ==
  ASSUME RequestsType, PersonsType, LoginsNext
  PROVE  PersonsType'
<1>1. ASSUME NEW r \in Request,
             \/ NotesStep(r) \/ NotesFirst(r) \/ Requires(r) \/ SwitchesOff(r) \/ ClearsSecret(r)
             \/ DrawsSecret(r)
      PROVE  PersonsType'
  <2>1. factor' \in [User -> Factor]
    BY <1>1, FactorWritten
  <2>2. clock' = clock /\ challenge' = challenge /\ sent' = sent /\ drawn' \in {drawn, drawn + 1}
    BY <1>1 DEF NotesStep, NotesFirst, Requires, SwitchesOff, ClearsSecret, DrawsSecret
  <2>3. spent' \subseteq Proof
    <3>1. CASE NotesFirst(r)
      <4>1. req[r].code \in Proof
        BY <3>1, AtPersons DEF NotesFirst, PersonSteps, ConfirmRequest
      <4> QED BY <3>1, <4>1 DEF NotesFirst, PersonsType
    <3>2. CASE ~NotesFirst(r)
      BY <1>1, <3>2 DEF NotesStep, Requires, SwitchesOff, ClearsSecret, DrawsSecret, seen, PersonsType
    <3> QED BY <3>1, <3>2
  <2> QED BY <2>1, <2>2, <2>3 DEF PersonsType
<1>2. ASSUME NEW r \in Request, OpensSession(r) \/ LooksAtAccount(r)
      PROVE  PersonsType'
  <2>1. /\ clock' = clock /\ challenge' = challenge /\ sent' = sent /\ drawn' = drawn
        /\ factor' = factor
    BY <1>2 DEF OpensSession, LooksAtAccount
  <2>2. spent' \subseteq Proof
    <3>1. CASE OpensSession(r)
      <4>1. req[r].code \in Proof
        BY <3>1, AtPersons DEF OpensSession, PersonSteps, LoginRequest
      <4> QED BY <3>1, <4>1 DEF OpensSession, Opens, PersonsType
    <3>2. CASE LooksAtAccount(r)
      <4>1. req[r].proof \in Proof
        BY <3>2, AtPersons DEF LooksAtAccount, PersonSteps, KeyRequest
      <4> QED BY <3>2, <4>1 DEF LooksAtAccount, Opens, PersonsType
    <3> QED BY <1>2, <3>1, <3>2
  <2> QED BY <2>1, <2>2 DEF PersonsType
<1>3. ASSUME NEW r \in Request, NEW u \in User,
             \/ \E p \in Codes \cup {NoCode} : AsksLogin(r, u, p)
             \/ \E p \in Codes : AsksConfirm(r, u, p)
             \/ \E c \in 1..sent : AnswersKey(r, u, c)
             \/ AsksSecret(r, u) \/ AsksDrop(r, u)
      PROVE  PersonsType'
  <2>1. /\ factor' = factor /\ drawn' = drawn /\ clock' = clock /\ sent' = sent /\ spent' = spent
        /\ challenge' = challenge \/ challenge' = [challenge EXCEPT ![u] = 0]
    BY <1>3 DEF AsksLogin, AsksConfirm, AnswersKey, AfterAnswer, AsksSecret, AsksDrop, seen
  <2> QED BY <2>1 DEF PersonsType
<1>4. ASSUME NEW r \in Request, LooksAtSecret(r) \/ LooksAtLast(r)
      PROVE  PersonsType'
  BY <1>4 DEF LooksAtSecret, LooksAtLast, logins, seen, PersonsType
<1>5. CASE \/ \E u \in User : StartsKey(u) \/ FinishesKey(u) \/ RemovesKey(u) \/ SendsChallenge(u)
           \/ ForgetsCeremonies \/ Tick
  BY <1>5 DEF StartsKey, FinishesKey, RemovesKey, SendsChallenge, ForgetsCeremonies, Tick, seen,
     PersonsType
<1>6. ASSUME NEW r \in Request, GoesUnheeded(r)
      PROVE  PersonsType'
  <2>1. /\ factor' = factor /\ drawn' = drawn /\ clock' = clock /\ sent' = sent
        /\ challenge' = challenge
    BY <1>6 DEF GoesUnheeded
  <2>2. spent' \subseteq Proof
    BY <1>6, UnheededMoves DEF ConfirmRequest, PersonsType
  <2> QED BY <2>1, <2>2 DEF PersonsType
<1> QED BY <1>1, <1>2, <1>3, <1>4, <1>5, <1>6 DEF LoginsNext

\* Two requests that met have met, and a drop cut short was.
LEMMA MetForGood ==
  ASSUME LoginsNext
  PROVE  (mixed => mixed') /\ (halved => halved')
<1>1. halved' = halved \/ halved'
  BY ZenonT(30) DEF LoginsNext, GoesUnheeded, AsksLogin, AsksConfirm, AnswersKey, AsksSecret, AsksDrop, LooksAtSecret, LooksAtLast,
     NotesStep, OpensSession, DrawsSecret, Requires, NotesFirst, SwitchesOff, ClearsSecret,
     LooksAtAccount, StartsKey, FinishesKey, RemovesKey, SendsChallenge, ForgetsCeremonies, Tick,
     seen, logins
<1>2. \/ mixed' = mixed
      \/ \E u \in User : Meets(u)
      \/ \E u \in User : mixed' = (mixed \/ factor[u].on \/ \E q \in Request :
                 req[q] # None /\ req[q].at \in OnFactor /\ req[q].target = u)
  BY ZenonT(30) DEF LoginsNext, GoesUnheeded, AsksLogin, AsksConfirm, AnswersKey, AsksSecret, AsksDrop, LooksAtSecret, LooksAtLast,
     NotesStep, OpensSession, DrawsSecret, Requires, NotesFirst, SwitchesOff, ClearsSecret,
     LooksAtAccount, StartsKey, FinishesKey, RemovesKey, SendsChallenge, ForgetsCeremonies, Tick,
     seen, logins
<1>3. mixed => mixed'
  BY <1>2, MeetsNobody, Zenon
<1>4. halved => halved'
  BY <1>1
<1> QED BY <1>3, <1>4, Zenon

\* A proof that opens a session opened none before.
LEMMA ProofOpensOne ==
  ASSUME RequestsType, PersonsType, CodesInv, KeysInv, OneSessionPerProof, LoginsNext
  PROVE  OneSessionPerProof'
<1>1. ASSUME twice' = twice
      PROVE  OneSessionPerProof'
  BY <1>1, MetForGood, Zenon DEF OneSessionPerProof
<1>2. ASSUME NEW r \in Request, LooksAtAccount(r)
      PROVE  OneSessionPerProof'
  <2>1. req[r].proof \notin spent
    BY <1>2 DEF LooksAtAccount, KeysInv
  <2>2. twice' = twice \/ twice' = (twice \/ (req[r].proof # None /\ req[r].proof \in spent))
    BY <1>2 DEF LooksAtAccount, Opens
  <2>3. twice' => twice
    BY <2>1, <2>2, Zenon
  <2> QED BY <2>3, MetForGood, Zenon DEF OneSessionPerProof
<1>3. ASSUME NEW r \in Request, OpensSession(r)
      PROVE  OneSessionPerProof'
  <2> DEFINE proof == IF req[r].secret = 0 THEN None ELSE req[r].code
  <2>1. ~mixed /\ ~halved => (proof # None => proof \notin spent)
    BY <1>3 DEF OpensSession, CodesInv, BearersApart, Bears
  <2>2. twice' = (twice \/ (proof # None /\ proof \in spent))
    BY <1>3 DEF OpensSession, Opens
  <2> HIDE DEF proof
  <2> QED BY <2>1, <2>2, MetForGood, Zenon DEF OneSessionPerProof
<1>4. \/ twice' = twice
      \/ \E r \in Request : LooksAtAccount(r) \/ OpensSession(r)
  BY ZenonT(30) DEF LoginsNext, GoesUnheeded, AsksLogin, AsksConfirm, AnswersKey, AsksSecret, AsksDrop, LooksAtSecret, LooksAtLast,
     NotesStep, DrawsSecret, Requires, NotesFirst, SwitchesOff, ClearsSecret,
     StartsKey, FinishesKey, RemovesKey, SendsChallenge, ForgetsCeremonies, Tick, seen, logins
<1> QED BY <1>1, <1>2, <1>3, <1>4

\* A step of persons keeps all that is known of them.
LEMMA PersonsStep ==
  ASSUME RequestsType, PersonsInv, LoginsNext
  PROVE  RequestsType' /\ PersonsInv'
<1>1. PersonsInv'
  BY PersonsTypeKept, FactorStep, CodesKept, KeysKept, ProofOpensOne DEF PersonsInv
<1>2. ASSUME NEW r \in Request, PersonAct(r)
      PROVE  RequestsType'
  <2>1. Moves(r, PersonRequest) \/ req' = req
    BY <1>2, PersonActMoves DEF PersonsInv
  <2>2. (\E x : req' = [req EXCEPT ![r] = x]) \/ LooksAtSecret(r) \/ req' = req
    BY <1>2 DEF PersonAct, GoesUnheeded, AsksLogin, AsksConfirm, AnswersKey, AsksSecret, AsksDrop, LooksAtLast, NotesStep,
       OpensSession, DrawsSecret, Requires, NotesFirst, SwitchesOff, ClearsSecret, LooksAtAccount,
       Opens, Begins, Goes, Ends
  <2>3. CASE req' = req
    BY <2>3 DEF RequestsType
  <2>4. CASE Moves(r, PersonRequest) /\ \E x : req' = [req EXCEPT ![r] = x]
    BY <2>4 DEF RequestsType, Moves
  <2>5. CASE Moves(r, PersonRequest) /\ LooksAtSecret(r)
    <3>1. req' = [req EXCEPT ![r] = req'[r]]
      BY <2>5 DEF LooksAtSecret, RequestsType, Ends
    <3> QED BY <2>5, <3>1 DEF RequestsType, Moves
  <2> QED BY <2>1, <2>2, <2>3, <2>4, <2>5
<1>3. CASE \/ \E u \in User : StartsKey(u) \/ FinishesKey(u) \/ RemovesKey(u) \/ SendsChallenge(u)
           \/ ForgetsCeremonies \/ Tick
  <2>1. req' = req
    BY <1>3 DEF StartsKey, FinishesKey, RemovesKey, SendsChallenge, ForgetsCeremonies, Tick
  <2> QED BY <1>1, <2>1 DEF RequestsType
<1>4. RequestsType'
  BY <1>2, <1>3 DEF LoginsNext, PersonAct
<1> QED BY <1>1, <1>4

\* Steps of the accounts, or of telephones, are nothing to persons but for the
\* requests; and these are of another kind.
LEMMA PersonsLeftAlone ==
  ASSUME RequestsType, PersonsInv, UNCHANGED logins,
         \/ req' = req
         \/ \E r \in Request : Moves(r, AccountRequest) \/ Moves(r, PhoneRequest)
  PROVE  PersonsInv'
<1>1. \A q \in Request : req'[q] = req[q] \/
        /\ req[q] = None \/ req[q].at \notin PersonSteps
        /\ req'[q] = None \/ req'[q].at \notin PersonSteps
  BY ZenonT(30), KindOfRequest DEF Moves, AccountSteps, Changing, PersonSteps, PhoneSteps
<1>2. PersonsType'
  BY DEF PersonsInv, PersonsType, logins, seen
<1>3. FactorInv'
  <2>1. \A q \in Request : req'[q] = req[q] \/ req'[q] = None \/
                           req'[q].at \notin PersonSteps \ {"account"}
    BY <1>1
  <2>2. /\ factor' = factor /\ drawn' = drawn /\ proven' = proven /\ mixed' = mixed
        /\ \A p \in spent' \ spent : p[1] \in 0..drawn
    BY DEF logins, seen
  <2> QED BY <2>1, <2>2, FactorQuiet DEF PersonsInv
<1>4. CodesInv'
  <2>1. \A q \in Request :
           \/ req'[q] = req[q]
           \/ ~(At(q, "clear") \/ At(q, "first step")' \/ Bears(q)')
    BY <1>1 DEF At, Bears, PersonSteps
  <2>2. /\ factor' = factor /\ drawn \in Nat /\ \A p \in spent' \ spent : p[1] = 0
    BY DEF logins, seen, PersonsInv, PersonsType
  <2>3. mixed' = mixed /\ halved' = halved
    BY DEF logins, seen
  <2> QED BY <2>1, <2>2, <2>3, CodesQuiet DEF PersonsInv
<1>5. KeysInv'
  <2>1. \A q \in Request : At(q, "account")' => req'[q] = req[q]
    BY <1>1 DEF At, PersonSteps
  <2>2. /\ sent' = sent /\ \A u \in User : challenge'[u] \in {0, challenge[u]}
        /\ \A p \in spent' \ spent : p[1] # 0
    BY DEF logins, seen
  <2> QED BY <2>1, <2>2, KeysQuiet DEF PersonsInv
<1>6. OneSessionPerProof'
  <2>1. twice' = twice /\ mixed' = mixed /\ halved' = halved
    BY DEF logins, seen
  <2> QED BY <2>1, Zenon DEF OneSessionPerProof, PersonsInv
<1> QED BY <1>2, <1>3, <1>4, <1>5, <1>6 DEF PersonsInv

\* The hub stops and starts again: requests and ceremonies are forgotten.
LEMMA RestartKeeps ==
  ASSUME RequestsType, PersonsInv, AccountsInv, PhonesInv, Restarts
  PROVE  RequestsType' /\ PersonsInv' /\ AccountsInv' /\ PhonesInv' /\ UNCHANGED <<Open, Used, Gained>>
<1>1. req' = [r \in Request |-> None] /\ \A q \in Request : req'[q] = None
  BY DEF Restarts, AccountsRestart
<1>2. RequestsType'
  BY <1>1 DEF RequestsType
<1>3. PhonesInv' /\ UNCHANGED <<Open, Used, Gained>>
  <2>1. UNCHANGED <<code, device, phone>> /\ late' = late
    BY DEF Restarts, devices
  <2> QED BY <1>1, <2>1, PhonesLeftAlone
<1>4. AccountsInv'
  <2>1. role' = role /\ disabled' = disabled
    BY DEF Restarts, AccountsRestart
  <2>2. crossed' = crossed
    BY DEF Restarts, AccountsRestart
  <2>3. AccountsType'
    BY <2>1 DEF AccountsInv, AccountsType
  <2>4. AdminRemains => AdminRemains'
    BY <2>1 DEF AdminRemains, Admins
  <2>5. ~crossed' => AdminRemains'
    BY <2>2, <2>4, Zenon DEF AccountsInv
  <2> QED BY <1>1, <2>1, <2>2, <2>3, <2>5, AccountsQuiet
<1>5. PersonsInv'
  <2>1. /\ factor' = factor /\ drawn' = drawn /\ clock' = clock /\ sent' = sent /\ proven' = proven
        /\ spent' = spent /\ challenge' = [u \in User |-> 0]
    BY DEF Restarts, LoginsRestart
  <2>2. mixed' = mixed /\ twice' = twice
    BY DEF Restarts, LoginsRestart
  <2>3. halved' = (halved \/ \E r \in Request : At(r, "clear"))
    BY DEF Restarts, LoginsRestart
  <2>4. PersonsType'
    BY <2>1 DEF PersonsInv, PersonsType
  <2>5. FactorInv'
    BY <1>1, <2>1, <2>2, FactorQuiet DEF PersonsInv
  <2>6. KeysInv'
    BY <1>1, <2>1, KeysQuiet DEF PersonsInv, At
  <2>7. OneSessionPerProof'
    BY <2>2, <2>3, Zenon DEF OneSessionPerProof, PersonsInv
  <2>8. CodesInv'
    <3> SUFFICES ASSUME ~mixed, ~halved, \A r \in Request : ~At(r, "clear")
                 PROVE  PresentedArePast' /\ BearersApart'
      BY <2>2, <2>3, Zenon DEF CodesInv
    <3>1. \A q \in Request : ~Bears(q)' /\ ~At(q, "first step")'
      BY <1>1 DEF Bears, At
    <3>2. Presented' \subseteq Presented
      BY <2>1, <3>1 DEF Presented
    <3>3. PresentedArePast /\ BearersApart /\ CodesAreDrawn /\ drawn \in Nat
      BY DEF PersonsInv, CodesInv, FactorInv, PersonsType
    <3>4. PresentedArePast'
      BY <2>1, <3>1, <3>2, <3>3, PastKept
    <3>5. BearersApart'
      BY <2>1, <3>1, <3>3, BearersKept
    <3> QED BY <3>4, <3>5
  <2> QED BY <2>4, <2>5, <2>6, <2>7, <2>8 DEF PersonsInv
<1> QED BY <1>2, <1>3, <1>4, <1>5

-----------------------------------------------------------------------------
(* All of it.                                                              *)

HubInv == RequestsType /\ AccountsInv /\ PhonesInv /\ PersonsInv

\* Accounts to begin with: none, or an administrator among them.
LEMMA AccountsInitially ==
  ASSUME AccountsInit
  PROVE  AccountsInv
<1>1. \A r \in Request : req[r] = None
  BY DEF AccountsInit
<1>2. AccountsType
  BY DEF AccountsInit, AccountsType
<1>3. AdminRemains
  <2>1. CASE role = [u \in User |-> None]
    BY <2>1 DEF AdminRemains
  <2>2. CASE \E u \in User : role[u] = "admin"
    BY <2>2 DEF AdminRemains, Admins, AccountsInit
  <2> QED BY <2>1, <2>2 DEF AccountsInit
<1>4. ChangesSay /\ ChangesApart /\ RowWasRead /\ RoleWasCounted /\ OffWasCounted
  BY <1>1 DEF ChangesSay, ChangesApart, IsChanging, RowWasRead, RoleWasCounted, OffWasCounted, At
<1>5. OnlyAccountsDisabled
  BY DEF OnlyAccountsDisabled, AccountsInit
<1> QED BY <1>2, <1>3, <1>4, <1>5 DEF AccountsInv

\* Telephones to begin with: none is paired, or one by a code long forgotten.
LEMMA PhonesInitially ==
  ASSUME DevicesInit
  PROVE  PhonesInv /\ ShortCode!Init
<1>1. \A r \in Request : req[r] = None
  BY DEF DevicesInit, AccountsInit
<1>2. code = [c \in Code |-> None] /\ ~late
  BY DEF DevicesInit
<1>3. /\ device \in [Device -> DeviceRow \cup {None}] /\ phone \in [Device -> Phone]
      /\ \A d \in Device : device[d] # None => device[d].code = None
      /\ \A d \in Device : ~phone[d].token
  <2>1. CASE device = [d \in Device |-> None] /\ phone = [d \in Device |-> NoPhone]
    BY <2>1 DEF NoPhone, Phone
  <2>2. ASSUME NEW d \in Device, NEW u \in User,
               device = [x \in Device |-> IF x = d
                 THEN [owner |-> u, code |-> None, secret |-> 0, revoked |-> FALSE, archived |-> FALSE]
                 ELSE None],
               phone = [x \in Device |-> IF x = d THEN [secret |-> 0, token |-> FALSE] ELSE NoPhone]
        PROVE  /\ device \in [Device -> DeviceRow \cup {None}] /\ phone \in [Device -> Phone]
               /\ \A x \in Device : device[x] # None => device[x].code = None
               /\ \A x \in Device : ~phone[x].token
    <3> DEFINE row == [owner |-> u, code |-> None, secret |-> 0, revoked |-> FALSE, archived |-> FALSE]
    <3>1. row \in DeviceRow /\ row.code = None
      BY DEF DeviceRow
    <3>2. device = [x \in Device |-> IF x = d THEN row ELSE None]
      BY <2>2
    <3>3. phone \in [Device -> Phone] /\ \A x \in Device : ~phone[x].token
      BY <2>2 DEF NoPhone, Phone
    <3> HIDE DEF row
    <3> QED BY <3>1, <3>2, <3>3
  <2> QED BY <2>1, <2>2 DEF DevicesInit
<1>4. PhonesInv
  BY <1>1, <1>2, <1>3 DEF PhonesInv, PhonesType, PairsNew, PairedBySpent, PairingsApart, TokenIsKnown,
     AsksAsKnown, StopsAtRow, RevokedIsShutOut, Pairing, At, Known
<1>5. ShortCode!Init
  <2>1. \A c \in Code : code[c] = None
    BY <1>2
  <2>2. \A d \in Device, c \in Code : ~(Known(d) /\ device[d].code = c)
    BY <1>3, DevicesAssumption DEF Known
  <2> QED BY <2>1, <2>2 DEF ShortCode!Init, CanBePresented
<1> QED BY <1>4, <1>5

\* Persons to begin with: nobody has a second factor, or somebody has one.
LEMMA PersonsInitially ==
  ASSUME LoginsInit
  PROVE  RequestsType /\ PersonsInv
<1>1. req = [r \in Request |-> None]
  BY DEF LoginsInit, AccountsInit
<1>2. /\ clock = 0 /\ challenge = [u \in User |-> 0] /\ sent = 0 /\ proven = 1..drawn /\ spent = {}
      /\ ~twice
  BY DEF LoginsInit
<1>3. /\ NoFactor \in Factor /\ NoFactor.secret = 0 /\ ~NoFactor.on
      /\ Never \in Int
  BY DEF NoFactor, Factor, Never
<1>4. /\ factor \in [User -> Factor] /\ drawn \in {0, 1}
      /\ \A u \in User : factor[u].secret \in 0..drawn /\ (factor[u].on => factor[u].secret = 1 /\ drawn = 1)
      /\ \A u, v \in User : factor[u].secret = factor[v].secret /\ factor[u].secret # 0 => u = v
  <2>1. CASE factor = [u \in User |-> NoFactor]
    <3>1. \A u \in User : ~factor[u].on /\ factor[u].secret = 0
      BY <1>3, <2>1
    <3>2. drawn = 0
      BY <3>1, Zenon DEF LoginsInit
    <3> QED BY <1>3, <2>1, <3>1, <3>2
  <2>2. ASSUME NEW w \in User,
               factor = [u \in User |-> IF u = w
                          THEN [on |-> TRUE, secret |-> 1, last |-> Never] ELSE NoFactor]
        PROVE  /\ factor \in [User -> Factor] /\ drawn \in {0, 1}
               /\ \A u \in User : factor[u].secret \in 0..drawn /\ (factor[u].on => factor[u].secret = 1 /\ drawn = 1)
               /\ \A u, v \in User : factor[u].secret = factor[v].secret /\ factor[u].secret # 0 => u = v
    <3> DEFINE f == [on |-> TRUE, secret |-> 1, last |-> Never]
    <3>1. f \in Factor /\ f.secret = 1 /\ f.on
      BY <1>3 DEF Factor
    <3>2. factor[w] = f /\ \A u \in User \ {w} : factor[u] = NoFactor
      BY <2>2
    <3>3. factor = [u \in User |-> IF u = w THEN f ELSE NoFactor]
      BY <2>2
    <3> HIDE DEF f
    <3>4. factor[w].on
      BY <3>1, <3>2, Zenon
    <3>5. drawn = 1
      BY <3>4, Zenon DEF LoginsInit
    <3> QED BY <1>3, <3>1, <3>2, <3>3, <3>5
  <2> QED BY <2>1, <2>2 DEF LoginsInit
<1>5. PersonsType
  BY <1>2, <1>4 DEF PersonsType
<1>6. /\ \A r \in Request : ~Bears(r) /\ ~IsOnFactor(r) /\ req[r] = None
      /\ \A r \in Request : \A s : ~At(r, s)
  BY <1>1 DEF Bears, IsOnFactor, At
<1>7. FactorInv
  <2>1. SecretsApart
    BY <1>4 DEF SecretsApart
  <2>2. CodesAreDrawn /\ ConfirmedIsProven /\ OneOnFactor /\ FactorAsFound
    BY <1>2, <1>6 DEF CodesAreDrawn, ConfirmedIsProven, OneOnFactor, FactorAsFound
  <2>3. RequiredIsProven
    <3>1. \A u \in User : factor[u].on => factor[u].secret \in 1..drawn
      BY <1>4
    <3> QED BY <1>2, <3>1 DEF RequiredIsProven
  <2> QED BY <2>1, <2>2, <2>3 DEF FactorInv
<1>8. CodesInv
  BY <1>2, <1>6 DEF CodesInv, PresentedArePast, BearersApart, Presented
<1>9. KeysInv
  BY <1>2, <1>6 DEF KeysInv
<1> QED BY <1>1, <1>2, <1>5, <1>7, <1>8, <1>9 DEF RequestsType, PersonsInv, OneSessionPerProof

\* Steps that are no change of the accounts.
LEMMA AccountsAlone ==
  ASSUME RequestsType, AccountsInv, UNCHANGED accounts,
         \/ req' = req
         \/ \E r \in Request : Moves(r, PersonRequest) \/ Moves(r, PhoneRequest)
  PROVE  AccountsInv'
<1>1. \A q \in Request : req'[q] = req[q] \/ req'[q] = None \/ req'[q].at \notin Changing
  BY KindOfRequest DEF Moves, Changing, PersonSteps, PhoneSteps
<1>2. role' = role /\ disabled' = disabled
  BY DEF accounts
<1>3. crossed' = crossed
  BY DEF accounts
<1>4. AccountsType'
  BY <1>2 DEF AccountsInv, AccountsType
<1>5. AdminRemains => AdminRemains'
  BY <1>2 DEF AdminRemains, Admins
<1>6. ~crossed' => AdminRemains'
  BY <1>3, <1>5, Zenon DEF AccountsInv
<1> QED BY <1>1, <1>2, <1>3, <1>4, <1>6, AccountsQuiet

\* Every step keeps all that is known, and is one of the abstract code or none.
LEMMA HubStep ==
  ASSUME HubInv, [Next]_vars
  PROVE  HubInv' /\ (ShortCode!Next \/ UNCHANGED <<Open, Used, Gained>>)
<1>0. RequestsType /\ AccountsInv /\ PhonesInv /\ PersonsInv
  BY DEF HubInv
<1>1. CASE AccountsNext /\ UNCHANGED <<logins, devices>>
  <2>1. RequestsType' /\ AccountsInv'
    BY <1>0, <1>1, AccountsStep
  <2>2. req' = req \/ \E r \in Request : Moves(r, AccountRequest)
    BY <1>0, <1>1, AccountActMoves DEF AccountsNext, AccountAct, Creates, AccountsInv
  <2>3. PersonsInv'
    BY <1>0, <1>1, <2>2, PersonsLeftAlone
  <2>4. UNCHANGED <<code, device, phone>> /\ late' = late
    BY <1>1 DEF devices
  <2>5. PhonesInv' /\ UNCHANGED <<Open, Used, Gained>>
    BY <1>0, <2>2, <2>4, PhonesLeftAlone
  <2> QED BY <2>1, <2>3, <2>5 DEF HubInv
<1>2. CASE LoginsNext /\ UNCHANGED devices
  <2>1. RequestsType' /\ PersonsInv'
    BY <1>0, <1>2, PersonsStep
  <2>2. req' = req \/ \E r \in Request : Moves(r, PersonRequest)
    <3>1. (\E r \in Request : PersonAct(r)) \/ req' = req
      BY <1>2 DEF LoginsNext, PersonAct, StartsKey, FinishesKey, RemovesKey, SendsChallenge,
         ForgetsCeremonies, Tick
    <3> QED BY <1>0, <3>1, PersonActMoves DEF PersonsInv
  <2>3. UNCHANGED <<code, device, phone>> /\ late' = late
    BY <1>2 DEF devices
  <2>4. PhonesInv' /\ UNCHANGED <<Open, Used, Gained>>
    BY <1>0, <2>2, <2>3, PhonesLeftAlone
  <2>5. UNCHANGED accounts
    BY ZenonT(30), <1>2 DEF LoginsNext, GoesUnheeded, AsksLogin, AsksConfirm, AnswersKey, AsksSecret, AsksDrop, LooksAtSecret,
       LooksAtLast, NotesStep, OpensSession, DrawsSecret, Requires, NotesFirst, SwitchesOff,
       ClearsSecret, LooksAtAccount, StartsKey, FinishesKey, RemovesKey, SendsChallenge,
       ForgetsCeremonies, Tick
  <2>6. AccountsInv'
    BY <1>0, <2>2, <2>5, AccountsAlone
  <2> QED BY <2>1, <2>4, <2>6 DEF HubInv
<1>3. CASE DevicesNext /\ UNCHANGED logins
  <2>1. RequestsType' /\ PhonesInv'
    BY <1>0, <1>3, PhonesStep DEF AccountsInv
  <2>2. ShortCode!Next \/ UNCHANGED <<Open, Used, Gained>>
    BY <1>0, <1>3, CodesStep
  <2>3. req' = req \/ \E r \in Request : Moves(r, PhoneRequest)
    <3>1. (\E r \in Request : PhoneAct(r)) \/ req' = req
      BY <1>3 DEF DevicesNext, PhoneAct, IssuesCode, Revokes, Unarchives, Rotates, LapsesCode, LosesToken
    <3> QED BY <1>0, <3>1, PhoneActMoves DEF PhonesInv, AccountsInv
  <2>4. PersonsInv'
    BY <1>0, <1>3, <2>3, PersonsLeftAlone
  <2>5. UNCHANGED accounts
    BY <1>3 DEF DevicesNext, Pairs, AsksToken, UsesToken, AsksArchive, LooksAtOwner, InsertsDevice,
       GrantsToken, LooksAtDevice, Serves, Archives, IssuesCode, Revokes, Unarchives, Rotates,
       LapsesCode, LosesToken
  <2>6. AccountsInv'
    BY <1>0, <2>3, <2>5, AccountsAlone
  <2> QED BY <2>1, <2>2, <2>4, <2>6 DEF HubInv
<1>4. CASE Restarts
  BY <1>0, <1>4, RestartKeeps DEF HubInv
<1>5. CASE UNCHANGED vars
  <2>1. UNCHANGED <<accounts, logins, devices>> /\ req' = req
    BY <1>5 DEF vars
  <2>2. UNCHANGED <<code, device, phone>> /\ late' = late
    BY <2>1 DEF devices
  <2>3. PhonesInv' /\ UNCHANGED <<Open, Used, Gained>>
    BY <1>0, <2>1, <2>2, PhonesLeftAlone
  <2>4. AccountsInv'
    BY <1>0, <2>1, AccountsAlone
  <2>5. PersonsInv'
    BY <1>0, <2>1, PersonsLeftAlone
  <2>6. RequestsType'
    BY <1>0, <2>1 DEF RequestsType
  <2> QED BY <2>3, <2>4, <2>5, <2>6 DEF HubInv
<1> QED BY <1>1, <1>2, <1>3, <1>4, <1>5 DEF Next

\* What is known of the hub holds throughout.
LEMMA HubInductive == Spec => []HubInv
<1>1. Init => HubInv
  <2> SUFFICES ASSUME Init PROVE HubInv
    OBVIOUS
  <2>1. LoginsInit /\ DevicesInit /\ AccountsInit
    BY DEF Init, LoginsInit
  <2> QED BY <2>1, AccountsInitially, PhonesInitially, PersonsInitially DEF HubInv
<1>2. HubInv /\ [Next]_vars => HubInv'
  BY HubStep
<1> QED BY <1>1, <1>2, PTL DEF Spec

\* The tables of accounts, factors, codes and telephones, and the requests under
\* way, are what they are meant to be.
THEOREM AccessTypeCorrect ==
  Spec => [](RequestsType /\ AccountsType /\ PersonsType /\ PhonesType)
<1>1. HubInv => RequestsType /\ AccountsType /\ PersonsType /\ PhonesType
  BY DEF HubInv, AccountsInv, PersonsInv, PhonesInv
<1> QED BY <1>1, HubInductive, PTL

\* Nothing sent after a telephone was revoked is served (pairing.rs:518).
THEOREM RevocationIsPrompt == Spec => []RevokedIsShutOut
<1>1. HubInv => RevokedIsShutOut
  BY DEF HubInv, PhonesInv
<1> QED BY <1>1, HubInductive, PTL

\* A code or an answer to a challenge opens one session (web.rs:668,
\* passkeys.rs:59).
THEOREM ProofOpensOneSession == Spec => []OneSessionPerProof
<1>1. HubInv => OneSessionPerProof
  BY DEF HubInv, PersonsInv
<1> QED BY <1>1, HubInductive, PTL

\* A pairing code is the short code OneUse describes (pairing.rs:163).
THEOREM PairingCodeLetsOneIn == Spec => CodeLetsOneIn
<1>1. Init => ShortCode!Init
  BY PhonesInitially DEF Init
<1>2. HubInv /\ [Next]_vars => [ShortCode!Next]_<<Open, Used, Gained>>
  BY HubStep
<1>3. HubInv /\ [Next]_vars =>
        [ShortCode!Next]_<<{c \in Code : CanBePresented(c)},
                           {c \in Code : code[c] # None /\ code[c].is = "used"},
                           {p \in Code \X Device : Known(p[2]) /\ device[p[2]].code = p[1]}>>
  BY <1>2 DEF Open, Used, Gained
<1> QED BY <1>1, <1>3, HubInductive, PTL DEF Spec, CodeLetsOneIn, ShortCode!Spec

=============================================================================
