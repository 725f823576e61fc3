----------------------------- MODULE FleetProofs ------------------------------
(***************************************************************************)
(* Proofs about Fleet, for every set of operators, sites, probes, names,   *)
(* codes, machines and requests, and any number of requests.               *)
(*                                                                         *)
(* What refers to a site or to a probe refers to one that is there,        *)
(* whatever requests cross.  A request about a probe keeps the site it     *)
(* found the probe in: while the probe stays there, every site the request *)
(* writes is one its scope was looked up for.                              *)
(***************************************************************************)
EXTENDS Fleet, TLAPS

AnyRequest ==
  SiteRequest \cup ScopeRequest \cup ProbeRequest \cup EnrolRequest \cup InsertRequest

ProbeSteps == OnProbe \cup Writing \cup {"target", "read"}
EnrolSteps == {"make site", "name", "repair"}

FleetType ==
  /\ site \in [Site -> {"kept", "archived", None}]
  /\ probe \in [Probe -> ProbeRow \cup {None}]
  /\ code \in [Code -> CodeRow \cup {None}]
  /\ scope \in [User -> SUBSET Site]
  /\ req \in [Request -> AnyRequest \cup {None}]
  /\ gained \subseteq Code \X Machine

\* The foreign keys: what refers to a site or a probe refers to one that is there.
ProbesAreSomewhere == \A p \in Probes : probe[p].site \in Sites
CodesAreForWhatIs ==
  \A c \in Code : code[c] # None =>
    code[c].site \in Sites /\ (code[c].probe # None => code[c].probe \in Probes)
ScopesAreOfSites == \A u \in User : scope[u] \subseteq Sites
RequestsKnow ==
  \A r \in Request : req[r] # None =>
    /\ req[r].at \in ProbeSteps => req[r].probe \in Probes
    /\ req[r].at \in Writing => req[r].row # None
    /\ req[r].at = "repair" => req[r].probe \in Probes

ReferencesHold == ProbesAreSomewhere /\ CodesAreForWhatIs /\ ScopesAreOfSites /\ RequestsKnow

\* What a request was let in for.
SiteInScope ==
  \A r \in Request : req[r] # None /\ req[r].at \in OnSite => Allows(req[r].scope, req[r].site)
TargetInScope ==
  \A r \in Request : At(r, "read") \/ At(r, "write") =>
    req[r].to = None \/ Allows(req[r].scope, req[r].to)
FromInScope ==
  \A r \in Request : req[r] # None /\ req[r].at \in ProbeSteps =>
    Allows(req[r].scope, req[r].from)

OrderInv == SiteInScope /\ TargetInScope /\ FromInScope /\ ProbesFollow /\ WithinScope

\* A request let in by a code: the code is spent, let nobody in so far, and no
\* other request has it.
Bears(r) == req[r] # None /\ req[r].at \in {"name", "insert", "repair"} /\ req[r].code # None
BearersApart ==
  /\ \A r \in Request : Bears(r) =>
       /\ code[req[r].code] # None /\ code[req[r].code].is = "used"
       /\ \A m \in Machine : <<req[r].code, m>> \notin gained
  /\ \A r \in Request : At(r, "make site") => req[r].code = None
  /\ \A q, r \in Request : Bears(q) /\ Bears(r) /\ req[q].code = req[r].code => q = r
  /\ \A c \in Code, m \in Machine :
       <<c, m>> \in gained => code[c] # None /\ code[c].is = "used"

FleetInv == FleetType /\ ReferencesHold /\ OrderInv /\ BearersApart

-----------------------------------------------------------------------------
(* Requests.                                                               *)

\* What a request carries at each of its steps.
LEMMA RequestKinds ==
  ASSUME NEW q \in AnyRequest
  PROVE  /\ q.at \in OnSite => q \in SiteRequest
         /\ q.at = "scope" => q \in ScopeRequest
         /\ q.at \in ProbeSteps => q \in ProbeRequest
         /\ q.at \in EnrolSteps => q \in EnrolRequest
         /\ q.at = "insert" => q \in InsertRequest
BY DEF AnyRequest, SiteRequest, ScopeRequest, ProbeRequest, EnrolRequest, InsertRequest,
       OnSite, OnProbe, Writing, ProbeSteps, EnrolSteps

\* The same, of a request under way.
LEMMA AtKinds ==
  ASSUME FleetType, NEW r \in Request, NEW s, At(r, s)
  PROVE  /\ req[r] \in AnyRequest /\ req[r] # None /\ req[r].at = s
         /\ s \in OnSite => req[r] \in SiteRequest
         /\ s = "scope" => req[r] \in ScopeRequest
         /\ s \in ProbeSteps => req[r] \in ProbeRequest
         /\ s \in EnrolSteps => req[r] \in EnrolRequest
         /\ s = "insert" => req[r] \in InsertRequest
<1>1. req[r] \in AnyRequest /\ req[r].at = s /\ req[r] # None
  BY DEF At, FleetType
<1> QED BY <1>1, RequestKinds

\* What is under way is never mistaken for nothing.
LEMMA NoneIsNoRequest == None \notin AnyRequest
BY FleetAssumption DEF AnyRequest

\* A request that goes on keeps what it carries.
LEMMA ProbeGoes ==
  ASSUME FleetType, NEW r \in Request, req[r] \in ProbeRequest, NEW s \in ProbeSteps,
         NEW row \in ProbeRow \cup {None},
         req' = [req EXCEPT ![r].at = s, ![r].row = row]
  PROVE  /\ req'[r] \in ProbeRequest /\ req'[r].at = s /\ req'[r].row = row
         /\ req'[r].probe = req[r].probe /\ req'[r].name = req[r].name
         /\ req'[r].to = req[r].to /\ req'[r].scope = req[r].scope
         /\ req'[r].from = req[r].from
         /\ \A q \in Request \ {r} : req'[q] = req[q]
         /\ DOMAIN req' = Request /\ req' = [q \in Request |-> req'[q]]
BY DEF FleetType, ProbeRequest, ProbeSteps

\* A request that goes on keeps what it carries.
LEMMA EnrolGoes ==
  ASSUME FleetType, NEW r \in Request, req[r] \in EnrolRequest, NEW s \in EnrolSteps,
         req' = [req EXCEPT ![r].at = s]
  PROVE  /\ req'[r] \in EnrolRequest /\ req'[r].at = s /\ req'[r].machine = req[r].machine
         /\ req'[r].code = req[r].code /\ req'[r].site = req[r].site
         /\ req'[r].probe = req[r].probe
BY DEF FleetType, EnrolRequest, EnrolSteps

-----------------------------------------------------------------------------
(* A request that ends, and one that begins.                               *)

\* A request leaves: what it leaves of the tables is enough.
LEMMA Leaves ==
  ASSUME FleetInv, NEW r \in Request, req[r] # None, Ends(r),
         site' \in [Site -> {"kept", "archived", None}],
         probe' \in [Probe -> ProbeRow \cup {None}],
         code' \in [Code -> CodeRow \cup {None}],
         scope' \in [User -> SUBSET Site],
         gained' \subseteq gained \cup {<<req[r].code, m>> : m \in IF Bears(r) THEN Machine ELSE {}},
         \A p \in Probe : probe[p] # None => probe'[p] # None,
         \A c \in Code : code[c] # None /\ code[c].is = "used" =>
           code'[c] # None /\ code'[c].is = "used",
         ProbesAreSomewhere', CodesAreForWhatIs', ScopesAreOfSites', ProbesFollow', WithinScope'
  PROVE  FleetInv'
<1>1. req' \in [Request -> AnyRequest \cup {None}] /\ req'[r] = None
      /\ \A q \in Request \ {r} : req'[q] = req[q]
  BY DEF FleetInv, FleetType, Ends
<1>2. FleetType'
  <2>1. gained' \subseteq Code \X Machine
    <3>1. Bears(r) => req[r].code \in Code
      <4>1. Bears(r) => req[r].code \in Code \cup {None}
        BY AtKinds DEF Bears, At, FleetInv, EnrolSteps, EnrolRequest, InsertRequest
      <4> QED BY <4>1 DEF Bears
    <3>2. gained \subseteq Code \X Machine
      BY DEF FleetInv, FleetType
    <3> QED BY <3>1, <3>2
  <2> QED BY <1>1, <2>1 DEF FleetType
<1>3. ReferencesHold'
  <2>1. RequestsKnow'
    BY <1>1 DEF FleetInv, ReferencesHold, RequestsKnow, Probes
  <2> QED BY <2>1 DEF ReferencesHold
<1>4. OrderInv'
  <2>1. SiteInScope' /\ TargetInScope' /\ FromInScope'
    BY <1>1 DEF FleetInv, OrderInv, SiteInScope, TargetInScope, FromInScope, At, Allows
  <2> QED BY <2>1 DEF OrderInv
<1>5. BearersApart'
  <2>1. \A q \in Request : Bears(q)' => Bears(q) /\ req'[q] = req[q] /\ q # r
    BY <1>1 DEF Bears
  <2>2. \A q \in Request : Bears(q)' => req[q].code \in Code
    <3>1. \A q \in Request : Bears(q) => req[q].code \in Code \cup {None}
      BY AtKinds DEF Bears, At, FleetInv, EnrolSteps, EnrolRequest, InsertRequest
    <3> QED BY <2>1, <3>1 DEF Bears
  <2>3. \A q \in Request : Bears(q)' => \A m \in Machine : <<req'[q].code, m>> \notin gained'
    <3> SUFFICES ASSUME NEW q \in Request, Bears(q)', NEW m \in Machine,
                        <<req[q].code, m>> \in gained'
                 PROVE  FALSE
      BY <2>1
    <3>1. <<req[q].code, m>> \notin gained
      BY <2>1 DEF FleetInv, BearersApart
    <3>2. Bears(r) /\ req[q].code = req[r].code
      BY <3>1
    <3> QED BY <2>1, <3>2 DEF FleetInv, BearersApart
  <2>4. \A q \in Request : Bears(q)' =>
          code'[req'[q].code] # None /\ code'[req'[q].code].is = "used"
    BY <2>1, <2>2 DEF FleetInv, BearersApart
  <2>5. \A p, q \in Request : Bears(p)' /\ Bears(q)' /\ req'[p].code = req'[q].code => p = q
    BY <2>1 DEF FleetInv, BearersApart
  <2>6. \A q \in Request : At(q, "make site")' => req'[q].code = None
    <3>1. \A q \in Request : At(q, "make site")' => At(q, "make site") /\ req'[q] = req[q]
      BY <1>1 DEF At
    <3> QED BY ZenonT(30), <3>1 DEF FleetInv, BearersApart
  <2>7. \A c \in Code, m \in Machine :
          <<c, m>> \in gained' => code'[c] # None /\ code'[c].is = "used"
    <3> SUFFICES ASSUME NEW c \in Code, NEW m \in Machine, <<c, m>> \in gained'
                 PROVE  code[c] # None /\ code[c].is = "used"
      OBVIOUS
    <3>1. CASE <<c, m>> \in gained
      BY <3>1 DEF FleetInv, BearersApart
    <3>2. CASE <<c, m>> \notin gained
      <4>1. Bears(r) /\ req[r].code = c
        BY <3>2
      <4> QED BY <4>1 DEF FleetInv, BearersApart
    <3> QED BY <3>1, <3>2
  <2> QED BY <2>3, <2>4, <2>5, <2>6, <2>7 DEF BearersApart
<1> QED BY <1>2, <1>3, <1>4, <1>5 DEF FleetInv

\* A request begins: it may be let in by a code, which it spends.
LEMMA Enters ==
  ASSUME FleetInv, NEW r \in Request, NEW what \in AnyRequest, Begins(r, what),
         site' = site, probe' = probe, scope' = scope,
         code' \in [Code -> CodeRow \cup {None}],
         \A c \in Code : /\ code'[c] # None <=> code[c] # None
                         /\ code[c] # None => /\ code'[c].site = code[c].site
                                              /\ code'[c].probe = code[c].probe
                                              /\ code[c].is = "used" => code'[c].is = "used",
         what.at \notin Writing \cup {"read", "insert"},
         what.at \in ProbeSteps =>
           what.probe \in Probes /\ Allows(what.scope, what.from),
         what.at = "repair" => what.probe \in Probes,
         what.at \in OnSite => Allows(what.scope, what.site),
         what.at = "make site" => what.code = None,
         what.at \in {"name", "repair"} /\ what.code # None =>
           /\ what.code \in Code /\ CanBePresented(what.code)
           /\ code'[what.code] # None /\ code'[what.code].is = "used"
           /\ \A m \in Machine : <<what.code, m>> \notin gained
  PROVE  FleetInv'
<1>1. /\ req[r] = None /\ req' \in [Request -> AnyRequest \cup {None}] /\ req'[r] = what
      /\ \A q \in Request \ {r} : req'[q] = req[q]
      /\ gained' = gained /\ strayed' = strayed /\ outside' = outside
  BY DEF Begins, seen, FleetInv, FleetType
<1>2. FleetType'
  BY <1>1 DEF FleetInv, FleetType
<1>3. Probes' = Probes /\ Sites' = Sites
  BY DEF Probes, Sites
<1>4. ReferencesHold'
  <2>1. ProbesAreSomewhere' /\ ScopesAreOfSites' /\ CodesAreForWhatIs'
    BY <1>3 DEF FleetInv, ReferencesHold, ProbesAreSomewhere, ScopesAreOfSites, CodesAreForWhatIs
  <2>2. RequestsKnow'
    BY <1>1, <1>3 DEF FleetInv, ReferencesHold, RequestsKnow
  <2> QED BY <2>1, <2>2 DEF ReferencesHold
<1>5. OrderInv'
  <2>1. SiteInScope'
    <3>1. \A q \in Request \ {r} : req'[q] # None /\ req'[q].at \in OnSite =>
            Allows(req'[q].scope, req'[q].site)
      BY <1>1 DEF FleetInv, OrderInv, SiteInScope
    <3> QED BY <1>1, <3>1 DEF SiteInScope
  <2>2. TargetInScope'
    <3>1. \A q \in Request, s \in {"read", "write"} :
            At(q, s)' => At(q, s) /\ req'[q] = req[q]
      BY <1>1 DEF At, Writing
    <3> QED BY <3>1 DEF FleetInv, OrderInv, TargetInScope
  <2>3. FromInScope'
    <3>1. \A q \in Request \ {r} : req'[q] # None /\ req'[q].at \in ProbeSteps =>
            Allows(req'[q].scope, req'[q].from)
      BY <1>1 DEF FleetInv, OrderInv, FromInScope
    <3> QED BY <1>1, <3>1 DEF FromInScope
  <2>4. ProbesFollow' /\ WithinScope'
    BY <1>1, <1>3 DEF ProbesFollow, WithinScope, FleetInv, OrderInv
  <2> QED BY <2>1, <2>2, <2>3, <2>4 DEF OrderInv
<1>6. BearersApart'
  <2>1. \A q \in Request \ {r} : Bears(q)' => Bears(q) /\ req'[q] = req[q]
    BY <1>1 DEF Bears
  <2>2. \A q \in Request \ {r} : Bears(q)' => req[q].code \in Code
    <3>1. \A q \in Request : Bears(q) => req[q].code \in Code \cup {None}
      BY AtKinds DEF Bears, At, FleetInv, EnrolSteps, EnrolRequest, InsertRequest
    <3> QED BY <2>1, <3>1 DEF Bears
  <2>3. Bears(r)' =>
          /\ what.code \in Code /\ CanBePresented(what.code)
          /\ code'[what.code] # None /\ code'[what.code].is = "used"
          /\ \A m \in Machine : <<what.code, m>> \notin gained
    BY <1>1 DEF Bears
  <2>4. \A q \in Request \ {r} : Bears(q)' =>
          /\ code[req[q].code] # None /\ code[req[q].code].is = "used"
          /\ \A m \in Machine : <<req[q].code, m>> \notin gained
    BY <2>1 DEF FleetInv, BearersApart
  <2>5. \A q \in Request : Bears(q)' =>
          /\ code'[req'[q].code] # None /\ code'[req'[q].code].is = "used"
          /\ \A m \in Machine : <<req'[q].code, m>> \notin gained'
    <3>1. ASSUME NEW q \in Request \ {r}, Bears(q)'
          PROVE  /\ code'[req'[q].code] # None /\ code'[req'[q].code].is = "used"
                 /\ \A m \in Machine : <<req'[q].code, m>> \notin gained'
      <4>1. req'[q] = req[q] /\ req[q].code \in Code
        BY <3>1, <2>1, <2>2
      <4> QED BY <1>1, <2>4, <3>1, <4>1
    <3>2. ASSUME Bears(r)'
          PROVE  /\ code'[req'[r].code] # None /\ code'[req'[r].code].is = "used"
                 /\ \A m \in Machine : <<req'[r].code, m>> \notin gained'
      BY <1>1, <2>3, <3>2
    <3> QED BY <3>1, <3>2
  <2>6. \A q \in Request : At(q, "make site")' => req'[q].code = None
    <3>1. \A q \in Request \ {r} :
            At(q, "make site")' => At(q, "make site") /\ req'[q] = req[q]
      BY <1>1 DEF At
    <3>2. At(r, "make site")' => req'[r].code = None
      BY <1>1 DEF At
    <3> QED BY <3>1, <3>2 DEF FleetInv, BearersApart
  <2>7. \A p, q \in Request : Bears(p)' /\ Bears(q)' /\ req'[p].code = req'[q].code => p = q
    <3>1. \A p, q \in Request \ {r} :
            Bears(p)' /\ Bears(q)' /\ req'[p].code = req'[q].code => p = q
      <4>1. \A p, q \in Request : Bears(p) /\ Bears(q) /\ req[p].code = req[q].code => p = q
        BY DEF FleetInv, BearersApart
      <4> TAKE p, q \in Request \ {r}
      <4> HAVE Bears(p)' /\ Bears(q)' /\ req'[p].code = req'[q].code
      <4>2. Bears(p) /\ req'[p] = req[p] /\ Bears(q) /\ req'[q] = req[q]
        BY <2>1
      <4> QED BY <4>1, <4>2
    <3>2. \A q \in Request \ {r} : Bears(q)' /\ Bears(r)' => req'[q].code # req'[r].code
      BY <1>1, <2>1, <2>3, <2>4 DEF CanBePresented
    <3> QED BY <3>1, <3>2
  <2>8. \A c \in Code, m \in Machine :
          <<c, m>> \in gained' => code'[c] # None /\ code'[c].is = "used"
    BY <1>1 DEF FleetInv, BearersApart
  <2> QED BY <2>5, <2>6, <2>7, <2>8 DEF BearersApart
<1> QED BY <1>2, <1>4, <1>5, <1>6 DEF FleetInv

\* A request goes on to another of its steps, and the tables stay; sites may be made.
LEMMA GoesOn ==
  ASSUME FleetInv, NEW r \in Request, NEW what \in AnyRequest, req[r] # None,
         req' = [req EXCEPT ![r] = what],
         probe' = probe, code' = code, scope' = scope, gained' = gained,
         outside' = outside, ProbesFollow',
         site' \in [Site -> {"kept", "archived", None}], Sites \subseteq Sites',
         what.at \notin OnSite \cup {"make site", "repair"},
         what.at \in ProbeSteps =>
           what.probe \in Probes /\ Allows(what.scope, what.from),
         what.at \in Writing => what.row # None,
         what.at \in {"read", "write"} => what.to = None \/ Allows(what.scope, what.to),
         what.at \in {"name", "insert"} /\ what.code # None => Bears(r) /\ what.code = req[r].code
  PROVE  FleetInv'
<1>1. /\ req' \in [Request -> AnyRequest \cup {None}] /\ req'[r] = what
      /\ \A q \in Request \ {r} : req'[q] = req[q]
  BY DEF FleetInv, FleetType
<1>2. FleetType'
  BY <1>1 DEF FleetInv, FleetType
<1>3. Probes' = Probes
  BY DEF Probes
<1>4. ReferencesHold'
  <2>1. ProbesAreSomewhere' /\ ScopesAreOfSites' /\ CodesAreForWhatIs'
    BY <1>3 DEF FleetInv, ReferencesHold, ProbesAreSomewhere, ScopesAreOfSites, CodesAreForWhatIs
  <2>2. RequestsKnow'
    BY <1>1, <1>3 DEF FleetInv, ReferencesHold, RequestsKnow
  <2> QED BY <2>1, <2>2 DEF ReferencesHold
<1>5. OrderInv'
  <2>1. SiteInScope'
    <3>1. \A q \in Request \ {r} : req'[q] # None /\ req'[q].at \in OnSite =>
            Allows(req'[q].scope, req'[q].site)
      BY <1>1 DEF FleetInv, OrderInv, SiteInScope
    <3> QED BY <1>1, <3>1 DEF SiteInScope
  <2>2. TargetInScope'
    <3>1. \A q \in Request \ {r}, s \in {"read", "write"} :
            At(q, s)' => At(q, s) /\ req'[q] = req[q]
      BY <1>1 DEF At
    <3>2. At(r, "read")' \/ At(r, "write")' => what.to = None \/ Allows(what.scope, what.to)
      BY <1>1 DEF At
    <3> QED BY <1>1, <3>1, <3>2 DEF FleetInv, OrderInv, TargetInScope
  <2>3. FromInScope'
    <3>1. \A q \in Request \ {r} : req'[q] # None /\ req'[q].at \in ProbeSteps =>
            Allows(req'[q].scope, req'[q].from)
      BY <1>1 DEF FleetInv, OrderInv, FromInScope
    <3> QED BY <1>1, <3>1 DEF FromInScope
  <2>4. WithinScope'
    BY DEF FleetInv, OrderInv, WithinScope
  <2> QED BY <2>1, <2>2, <2>3, <2>4 DEF OrderInv
<1>6. BearersApart'
  <2>1. \A q \in Request : Bears(q)' => Bears(q) /\ req'[q].code = req[q].code
    BY <1>1 DEF Bears
  <2>2. \A q \in Request : At(q, "make site")' => At(q, "make site") /\ req'[q] = req[q]
    BY <1>1 DEF At
  <2>3. \A q \in Request : Bears(q) =>
          /\ code[req[q].code] # None /\ code[req[q].code].is = "used"
          /\ \A m \in Machine : <<req[q].code, m>> \notin gained
    BY DEF FleetInv, BearersApart
  <2>4. \A p, q \in Request : Bears(p) /\ Bears(q) /\ req[p].code = req[q].code => p = q
    BY DEF FleetInv, BearersApart
  <2>5. \A q \in Request : At(q, "make site")' => req'[q].code = None
    BY <2>2 DEF FleetInv, BearersApart
  <2>6. \A c \in Code, m \in Machine :
          <<c, m>> \in gained' => code'[c] # None /\ code'[c].is = "used"
    BY DEF FleetInv, BearersApart
  <2>7. \A q \in Request : Bears(q)' =>
          /\ code'[req'[q].code] # None /\ code'[req'[q].code].is = "used"
          /\ \A m \in Machine : <<req'[q].code, m>> \notin gained'
    <3> SUFFICES ASSUME NEW q \in Request, Bears(q)'
                 PROVE  /\ code[req'[q].code] # None /\ code[req'[q].code].is = "used"
                        /\ \A m \in Machine : <<req'[q].code, m>> \notin gained
      OBVIOUS
    <3>1. Bears(q) /\ req'[q].code = req[q].code
      BY <2>1
    <3> QED BY <2>3, <3>1
  <2>8. \A p, q \in Request : Bears(p)' /\ Bears(q)' /\ req'[p].code = req'[q].code => p = q
    <3> TAKE p, q \in Request
    <3> HAVE Bears(p)' /\ Bears(q)' /\ req'[p].code = req'[q].code
    <3>1. Bears(p) /\ Bears(q) /\ req[p].code = req[q].code
      BY <2>1
    <3> QED BY <2>4, <3>1
  <2> QED BY <2>5, <2>6, <2>7, <2>8 DEF BearersApart
<1> QED BY <1>2, <1>4, <1>5, <1>6 DEF FleetInv

\* No request moves; a site may be made, a code not yet spent may change.
LEMMA NobodyMoves ==
  ASSUME FleetInv, req' = req \/ req' = [r \in Request |-> None],
         probe' = probe, scope' = scope, gained' = gained, outside' = outside,
         site' \in [Site -> {"kept", "archived", None}], Sites \subseteq Sites',
         code' \in [Code -> CodeRow \cup {None}],
         \A c \in Code : /\ code'[c] # None <=> code[c] # None
                         /\ code[c] # None => /\ code'[c].site = code[c].site
                                              /\ code'[c].probe = code[c].probe
                                              /\ code[c].is = "used" => code'[c].is = "used",
         ProbesFollow'
  PROVE  FleetInv'
<1>1. /\ req' \in [Request -> AnyRequest \cup {None}]
      /\ \A q \in Request : req'[q] # None => req'[q] = req[q]
  BY DEF FleetInv, FleetType
<1>2. FleetType'
  BY <1>1 DEF FleetInv, FleetType
<1>3. Probes' = Probes
  BY DEF Probes
<1>4. ReferencesHold'
  <2>1. ProbesAreSomewhere' /\ ScopesAreOfSites' /\ CodesAreForWhatIs'
    BY <1>3 DEF FleetInv, ReferencesHold, ProbesAreSomewhere, ScopesAreOfSites, CodesAreForWhatIs
  <2>2. RequestsKnow'
    BY <1>1, <1>3 DEF FleetInv, ReferencesHold, RequestsKnow
  <2> QED BY <2>1, <2>2 DEF ReferencesHold
<1>5. OrderInv'
  <2>1. SiteInScope'
    BY <1>1 DEF FleetInv, OrderInv, SiteInScope
  <2>2. TargetInScope'
    <3>1. \A q \in Request, s \in {"read", "write"} :
            At(q, s)' => At(q, s) /\ req'[q] = req[q]
      BY <1>1 DEF At
    <3> QED BY <3>1 DEF FleetInv, OrderInv, TargetInScope
  <2>3. FromInScope'
    BY <1>1 DEF FleetInv, OrderInv, FromInScope
  <2>4. WithinScope'
    BY DEF FleetInv, OrderInv, WithinScope
  <2> QED BY <2>1, <2>2, <2>3, <2>4 DEF OrderInv
<1>6. BearersApart'
  <2>1. \A q \in Request : Bears(q)' => Bears(q) /\ req'[q] = req[q]
    BY <1>1 DEF Bears
  <2>2. \A q \in Request : At(q, "make site")' => At(q, "make site") /\ req'[q] = req[q]
    BY <1>1 DEF At
  <2>3. \A q \in Request : Bears(q) =>
          /\ req[q].code \in Code
          /\ code[req[q].code] # None /\ code[req[q].code].is = "used"
          /\ \A m \in Machine : <<req[q].code, m>> \notin gained
    <3>1. \A q \in Request : Bears(q) => req[q].code \in Code \cup {None}
      BY AtKinds DEF Bears, At, FleetInv, EnrolSteps, EnrolRequest, InsertRequest
    <3> QED BY <3>1 DEF FleetInv, BearersApart, Bears
  <2>4. \A p, q \in Request : Bears(p) /\ Bears(q) /\ req[p].code = req[q].code => p = q
    BY DEF FleetInv, BearersApart
  <2>5. \A q \in Request : At(q, "make site")' => req'[q].code = None
    BY <2>2 DEF FleetInv, BearersApart
  <2>6. \A c \in Code, m \in Machine :
          <<c, m>> \in gained' => code'[c] # None /\ code'[c].is = "used"
    BY DEF FleetInv, BearersApart
  <2> QED BY ZenonT(30), <2>1, <2>3, <2>4, <2>5, <2>6 DEF BearersApart
<1> QED BY <1>2, <1>4, <1>5, <1>6 DEF FleetInv

-----------------------------------------------------------------------------
(* Requests begin.                                                         *)

\* A request about a site comes from one whose scope has the site.
LEMMA SiteAsked ==
  ASSUME FleetInv, NEW r \in Request, NEW u \in User, NEW s \in Site, NEW w \in OnSite,
         AsksSite(r, u, s, w)
  PROVE  FleetInv'
<1> DEFINE what == [at |-> w, site |-> s, scope |-> scope[u]]
<1>1. what \in SiteRequest /\ what.at = w /\ what.site = s /\ what.scope = scope[u]
  BY DEF SiteRequest, FleetInv, FleetType
<1>2. Begins(r, what) /\ UNCHANGED tables /\ Allows(scope[u], s)
  BY DEF AsksSite
<1> HIDE DEF what
<1>3. what \in AnyRequest
  BY <1>1 DEF AnyRequest
<1>4. site' = site /\ probe' = probe /\ code' = code /\ scope' = scope
  BY <1>2 DEF tables
<1>5. code' \in [Code -> CodeRow \cup {None}]
  BY <1>4 DEF FleetInv, FleetType
<1>6. what.at \notin Writing \cup {"read", "insert"} \cup ProbeSteps \cup {"repair", "make site", "name"}
  BY <1>1 DEF OnSite, OnProbe, Writing, ProbeSteps
<1> QED BY <1>1, <1>2, <1>3, <1>4, <1>5, <1>6, Enters

\* A request for the scope of an account comes from an administrator.
LEMMA ScopeAsked ==
  ASSUME FleetInv, NEW r \in Request, NEW u \in User, NEW sites \in SUBSET Site,
         AsksScope(r, u, sites)
  PROVE  FleetInv'
<1> DEFINE what == [at |-> "scope", user |-> u, sites |-> sites, scope |-> {}]
<1>1. what \in ScopeRequest /\ what.at = "scope"
  BY DEF ScopeRequest
<1>2. Begins(r, what) /\ UNCHANGED tables
  BY DEF AsksScope
<1> HIDE DEF what
<1>3. what \in AnyRequest
  BY <1>1 DEF AnyRequest
<1>4. site' = site /\ probe' = probe /\ code' = code /\ scope' = scope
  BY <1>2 DEF tables
<1>5. code' \in [Code -> CodeRow \cup {None}]
  BY <1>4 DEF FleetInv, FleetType
<1>6. what.at \notin Writing \cup OnSite \cup {"read", "insert"} \cup ProbeSteps
                     \cup {"repair", "make site", "name"}
  BY <1>1 DEF OnSite, OnProbe, Writing, ProbeSteps
<1> QED BY <1>2, <1>3, <1>4, <1>5, <1>6, Enters

\* A request about a probe comes from one whose scope has the site of the probe.
LEMMA ProbeAsked ==
  ASSUME FleetInv, NEW r \in Request, NEW u \in User, NEW p \in Probe,
         NEW w \in OnProbe \cup {"target"}, NEW n \in Name \cup {None}, NEW s \in Site \cup {None},
         AsksProbe(r, u, p, w, n, s)
  PROVE  FleetInv'
<1> DEFINE what == [at |-> w, probe |-> p, name |-> n, to |-> s, scope |-> scope[u],
                    from |-> probe[p].site, row |-> None]
<1>1. /\ what \in ProbeRequest /\ what.at = w /\ what.probe = p /\ what.scope = scope[u]
      /\ what.from = probe[p].site
  <2>1. probe[p].site \in Site
    BY DEF AsksProbe, Probes, FleetInv, FleetType, ProbeRow
  <2> QED BY <2>1 DEF ProbeRequest, FleetInv, FleetType
<1>2. Begins(r, what) /\ UNCHANGED tables /\ p \in Probes /\ Allows(scope[u], probe[p].site)
  BY DEF AsksProbe
<1> HIDE DEF what
<1>3. what \in AnyRequest
  BY <1>1 DEF AnyRequest
<1>4. site' = site /\ probe' = probe /\ code' = code /\ scope' = scope
  BY <1>2 DEF tables
<1>5. code' \in [Code -> CodeRow \cup {None}]
  BY <1>4 DEF FleetInv, FleetType
<1>6. what.at \notin Writing \cup OnSite \cup {"read", "insert"}
                     \cup {"repair", "make site", "name"}
  BY <1>1 DEF OnSite, OnProbe, Writing
<1> QED BY <1>1, <1>2, <1>3, <1>4, <1>5, <1>6, Enters

\* A machine presents a code: it is spent from here on, and opens nothing else.
LEMMA CodePresented ==
  ASSUME FleetInv, NEW r \in Request, NEW m \in Machine, NEW c \in Code, Presents(r, m, c)
  PROVE  FleetInv'
<1>1. code[c] \in CodeRow /\ code[c] # None /\ code[c].is = "open" /\ CanBePresented(c)
  BY DEF Presents, CanBePresented, FleetInv, FleetType
<1> DEFINE w == IF code[c].probe = None THEN "name" ELSE "repair"
<1> DEFINE what == [at |-> w, machine |-> m, scope |-> {}, code |-> c, site |-> code[c].site,
                    probe |-> code[c].probe]
<1>2. what \in EnrolRequest /\ what.at = w /\ what.code = c /\ what.probe = code[c].probe
  BY <1>1 DEF EnrolRequest, CodeRow
<1>3. /\ Begins(r, what) /\ site' = site /\ probe' = probe /\ scope' = scope
      /\ code' = [code EXCEPT ![c].is = "used"]
  BY DEF Presents, Consumed
<1>4. w \in {"name", "repair"} /\ (w = "repair" => code[c].probe \in Probes)
  BY <1>1 DEF FleetInv, ReferencesHold, CodesAreForWhatIs
<1> HIDE DEF what
<1>5. what \in AnyRequest
  BY <1>2 DEF AnyRequest
<1>6. code' \in [Code -> CodeRow \cup {None}]
  BY <1>1, <1>3 DEF FleetInv, FleetType, CodeRow
<1>7. \A d \in Code : /\ code'[d] # None <=> code[d] # None
                      /\ code[d] # None => /\ code'[d].site = code[d].site
                                           /\ code'[d].probe = code[d].probe
                                           /\ code[d].is = "used" => code'[d].is = "used"
  <2>1. \A d \in Code \ {c} : code'[d] = code[d]
    BY <1>3 DEF FleetInv, FleetType
  <2>2. /\ code'[c] # None /\ code'[c].site = code[c].site /\ code'[c].probe = code[c].probe
    BY <1>1, <1>3, FleetAssumption DEF FleetInv, FleetType, CodeRow
  <2> QED BY <1>1, <2>1, <2>2
<1>8. code'[c] # None /\ code'[c].is = "used"
  BY <1>1, <1>3, <1>7 DEF FleetInv, FleetType, CodeRow
<1>9. \A x \in Machine : <<c, x>> \notin gained
  BY <1>1 DEF FleetInv, BearersApart
<1>10. what.at \notin Writing \cup OnSite \cup ProbeSteps \cup {"read", "insert", "make site"}
  BY <1>2, <1>4 DEF OnSite, OnProbe, Writing, ProbeSteps
<1> QED BY <1>1, <1>2, <1>3, <1>4, <1>5, <1>6, <1>7, <1>8, <1>9, <1>10, Enters

\* A machine enrolled by an operator has no code.
LEMMA EnrolmentAsked ==
  ASSUME FleetInv, NEW r \in Request, NEW u \in User, NEW m \in Machine, NEW s \in Site,
         EnrolsByName(r, u, m, s)
  PROVE  FleetInv'
<1> DEFINE w == IF s \in Sites THEN "name" ELSE "make site"
<1> DEFINE what == [at |-> w, machine |-> m, scope |-> scope[u], code |-> None, site |-> s,
                    probe |-> None]
<1>1. what \in EnrolRequest /\ what.at = w /\ what.code = None /\ w \in {"name", "make site"}
  BY DEF EnrolRequest, FleetInv, FleetType
<1>2. Begins(r, what) /\ UNCHANGED tables
  BY DEF EnrolsByName
<1> HIDE DEF what, w
<1>3. what \in AnyRequest
  BY <1>1 DEF AnyRequest
<1>4. site' = site /\ probe' = probe /\ code' = code /\ scope' = scope
  BY <1>2 DEF tables
<1>5. code' \in [Code -> CodeRow \cup {None}]
  BY <1>4 DEF FleetInv, FleetType
<1>6. what.at \notin Writing \cup OnSite \cup ProbeSteps \cup {"read", "insert", "repair"}
  BY <1>1 DEF OnSite, OnProbe, Writing, ProbeSteps
<1> QED BY <1>1, <1>2, <1>3, <1>4, <1>5, <1>6, Enters

-----------------------------------------------------------------------------
(* Requests go on, and what happens beside them.                           *)

\* Nothing strays while the sites and the probes stay.
LEMMA StillFollow ==
  ASSUME FleetInv, site' = site, probe' = probe, strayed' = strayed
  PROVE  ProbesFollow'
BY DEF FleetInv, OrderInv, ProbesFollow, Probes

\* What a request touches, and was let in for, is no breach.
LEMMA TouchesItsOwn ==
  ASSUME FleetInv, NEW r \in Request, NEW sites, NEW how, Touches(r, sites, how),
         how = "otherwise" => \A s \in sites : Allows(req[r].scope, s)
  PROVE  WithinScope'
BY DEF Touches, WithinScope, FleetInv, OrderInv

\* A request about a probe may write the site it found the probe in.
LEMMA TouchesItsProbe ==
  ASSUME FleetInv, NEW r \in Request, NEW sites, TouchesProbe(r, sites),
         req[r] # None, req[r].at \in ProbeSteps,
         \A s \in sites : \/ Allows(req[r].scope, s)
                          \/ s = probe[req[r].probe].site
                          \/ req[r].row # None /\ s = req[r].row.site
  PROVE  WithinScope'
<1>1. Touches(r, sites, IF Moved(r) THEN "moved" ELSE "otherwise")
  BY DEF TouchesProbe
<1>2. Allows(req[r].scope, req[r].from)
  BY DEF FleetInv, OrderInv, FromInScope
<1>3. CASE Moved(r)
  BY <1>1, <1>3, TouchesItsOwn
<1>4. CASE ~Moved(r)
  <2>1. \A s \in sites : Allows(req[r].scope, s)
    BY <1>2, <1>4 DEF Moved
  <2> QED BY <1>1, <2>1, TouchesItsOwn
<1> QED BY <1>3, <1>4

\* A site made brings nothing to follow: no probe was in it.
LEMMA SiteMade ==
  ASSUME FleetInv, NEW s \in Site, site[s] = None, site' = [site EXCEPT ![s] = "kept"],
         probe' = probe, strayed' = strayed
  PROVE  /\ site' \in [Site -> {"kept", "archived", None}] /\ Sites \subseteq Sites'
         /\ ProbesFollow'
<1>1. site' \in [Site -> {"kept", "archived", None}] /\ \A x \in Site \ {s} : site'[x] = site[x]
      /\ site'[s] = "kept" /\ "kept" # None
  BY FleetAssumption DEF FleetInv, FleetType
<1>2. Sites \subseteq Sites'
  BY <1>1 DEF Sites
<1>3. \A x \in Site : site'[x] = "archived" => site[x] = "archived"
  BY <1>1
<1>4. \A p \in Probes : probe[p].site \in Site
  BY DEF Probes, FleetInv, FleetType, ProbeRow
<1>5. ProbesFollow'
  BY <1>3, <1>4 DEF FleetInv, OrderInv, ProbesFollow, Probes
<1> QED BY <1>1, <1>2, <1>5

\* A site created touches no request.
LEMMA SiteCreated ==
  ASSUME FleetInv, NEW s \in Site, CreatesSite(s)
  PROVE  FleetInv'
<1>1. /\ site[s] = None /\ site' = [site EXCEPT ![s] = "kept"] /\ req' = req
      /\ probe' = probe /\ code' = code /\ scope' = scope /\ gained' = gained
      /\ outside' = outside /\ strayed' = strayed
  BY DEF CreatesSite, seen
<1>2. code' \in [Code -> CodeRow \cup {None}]
  BY <1>1 DEF FleetInv, FleetType
<1> QED BY <1>1, <1>2, SiteMade, NobodyMoves

\* A code that lapses was not spent.
LEMMA CodeLapsed ==
  ASSUME FleetInv, NEW c \in Code, LapsesCode(c)
  PROVE  FleetInv'
<1>1. /\ code' = [code EXCEPT ![c].is = "late"] /\ code[c] # None /\ code[c].is = "open"
      /\ probe' = probe /\ site' = site /\ scope' = scope /\ req' = req /\ gained' = gained
      /\ outside' = outside /\ strayed' = strayed
  BY DEF LapsesCode, CanBePresented, seen
<1>2. code[c] \in CodeRow
  BY <1>1 DEF FleetInv, FleetType
<1>3. code' \in [Code -> CodeRow \cup {None}]
  BY <1>1, <1>2 DEF FleetInv, FleetType, CodeRow
<1>4. \A d \in Code : /\ code'[d] # None <=> code[d] # None
                      /\ code[d] # None => /\ code'[d].site = code[d].site
                                           /\ code'[d].probe = code[d].probe
                                           /\ code[d].is = "used" => code'[d].is = "used"
  <2>1. \A d \in Code \ {c} : code'[d] = code[d]
    BY <1>1 DEF FleetInv, FleetType
  <2>2. /\ code'[c] # None /\ code'[c].site = code[c].site /\ code'[c].probe = code[c].probe
    BY <1>1, <1>2, FleetAssumption DEF FleetInv, FleetType, CodeRow
  <2> QED BY <1>1, <2>1, <2>2
<1>5. site' \in [Site -> {"kept", "archived", None}] /\ Sites \subseteq Sites'
  BY <1>1 DEF FleetInv, FleetType, Sites
<1>6. ProbesFollow'
  BY <1>1, StillFollow
<1> QED BY <1>1, <1>3, <1>4, <1>5, <1>6, NobodyMoves

\* A process that starts again has no request under way.
LEMMA Restarted ==
  ASSUME FleetInv, Restarts
  PROVE  FleetInv'
<1>1. /\ req' = [r \in Request |-> None] /\ code' = code
      /\ probe' = probe /\ site' = site /\ scope' = scope /\ gained' = gained
      /\ outside' = outside /\ strayed' = strayed
  BY DEF Restarts, tables, seen
<1>2. /\ code' \in [Code -> CodeRow \cup {None}]
      /\ \A c \in Code : /\ code'[c] # None <=> code[c] # None
                         /\ code[c] # None => /\ code'[c].site = code[c].site
                                              /\ code'[c].probe = code[c].probe
                                              /\ code[c].is = "used" => code'[c].is = "used"
  BY <1>1 DEF FleetInv, FleetType
<1>3. site' \in [Site -> {"kept", "archived", None}] /\ Sites \subseteq Sites'
  BY <1>1 DEF FleetInv, FleetType, Sites
<1>4. ProbesFollow'
  BY <1>1, StillFollow
<1> QED BY <1>1, <1>2, <1>3, <1>4, NobodyMoves

\* A request that ends, and that wrote nothing.
LEMMA LeavesAsItCame ==
  ASSUME FleetInv, NEW r \in Request, req[r] # None, Ends(r), site' = site, probe' = probe,
         code' = code, scope' = scope, gained' = gained, strayed' = strayed,
         outside' = outside
  PROVE  FleetInv'
<1>1. /\ site' \in [Site -> {"kept", "archived", None}]
      /\ probe' \in [Probe -> ProbeRow \cup {None}]
      /\ code' \in [Code -> CodeRow \cup {None}]
      /\ scope' \in [User -> SUBSET Site]
  BY DEF FleetInv, FleetType
<1>2. Probes' = Probes /\ Sites' = Sites
  BY DEF Probes, Sites
<1>3. ProbesAreSomewhere' /\ ScopesAreOfSites' /\ CodesAreForWhatIs'
  BY <1>2 DEF FleetInv, ReferencesHold, ProbesAreSomewhere, ScopesAreOfSites, CodesAreForWhatIs
<1>4. gained' \subseteq gained \cup {<<req[r].code, m>> : m \in IF Bears(r) THEN Machine ELSE {}}
  OBVIOUS
<1>5. ProbesFollow'
  BY StillFollow
<1>6. WithinScope'
  BY DEF FleetInv, OrderInv, WithinScope
<1>7. /\ \A p \in Probe : probe[p] # None => probe'[p] # None
      /\ \A c \in Code : code[c] # None /\ code[c].is = "used" =>
           code'[c] # None /\ code'[c].is = "used"
  OBVIOUS
<1> QED BY <1>1, <1>3, <1>4, <1>5, <1>6, <1>7, Leaves

\* The site a probe moves to is in the scope of who moves it.
LEMMA TargetSeen ==
  ASSUME FleetInv, NEW r \in Request, LooksAtTarget(r)
  PROVE  FleetInv'
<1>1. /\ At(r, "target") /\ site' = site /\ probe' = probe /\ code' = code /\ scope' = scope
      /\ gained' = gained /\ strayed' = strayed /\ outside' = outside
  BY DEF LooksAtTarget, tables, seen
<1>2. req[r] \in ProbeRequest /\ req[r] # None /\ req[r].at = "target"
  BY <1>1, AtKinds DEF FleetInv, ProbeSteps
<1>3. CASE ~MayGoTo(r)
  <2>1. Ends(r)
    BY <1>3 DEF LooksAtTarget
  <2> QED BY <1>1, <1>2, <2>1, LeavesAsItCame
<1>4. CASE MayGoTo(r)
  <2> DEFINE what == [req[r] EXCEPT !.at = "read"]
  <2>1. req' = [req EXCEPT ![r] = what]
    BY <1>4 DEF LooksAtTarget
  <2>2. what \in ProbeRequest /\ what.at = "read" /\ what.probe = req[r].probe
        /\ what.scope = req[r].scope /\ what.to = req[r].to /\ what.from = req[r].from
    BY <1>2 DEF ProbeRequest
  <2> HIDE DEF what
  <2>3. what \in AnyRequest
    BY <2>2 DEF AnyRequest
  <2>4. what.to = None \/ Allows(what.scope, what.to)
    BY <1>4, <2>2 DEF MayGoTo
  <2>5. what.probe \in Probes /\ Allows(what.scope, what.from)
    BY <1>2, <2>2 DEF FleetInv, ReferencesHold, RequestsKnow, OrderInv, FromInScope, ProbeSteps
  <2>6. what.at \notin OnSite \cup {"make site", "repair"} \cup Writing \cup {"name", "insert"}
    BY <2>2 DEF OnSite, Writing
  <2>7. site' \in [Site -> {"kept", "archived", None}] /\ Sites \subseteq Sites'
    BY <1>1 DEF FleetInv, FleetType, Sites
  <2>8. ProbesFollow'
    BY <1>1, StillFollow
  <2> QED BY <1>1, <1>2, <2>1, <2>3, <2>4, <2>5, <2>6, <2>7, <2>8, GoesOn
<1> QED BY <1>3, <1>4

\* The row is read: it is that of the probe.
LEMMA ProbeRead ==
  ASSUME FleetInv, NEW r \in Request, ReadsProbe(r)
  PROVE  FleetInv'
<1>1. /\ site' = site /\ probe' = probe /\ code' = code /\ scope' = scope
      /\ gained' = gained /\ strayed' = strayed /\ outside' = outside
  BY DEF ReadsProbe, tables, seen
<1>2. /\ req[r] \in ProbeRequest /\ req[r] # None
      /\ req[r].at \in {"read", "read archive", "read unarchive", "read repair"}
  <2>1. req[r] # None /\ req[r].at \in {"read", "read archive", "read unarchive", "read repair"}
    BY DEF ReadsProbe, WriteAfter
  <2>2. At(r, req[r].at) /\ req[r].at \in ProbeSteps
    BY <2>1 DEF At, ProbeSteps, OnProbe
  <2> QED BY <2>1, <2>2, AtKinds DEF FleetInv
<1>3. req[r].probe \in Probes
  BY <1>2 DEF FleetInv, ReferencesHold, RequestsKnow, ProbeSteps, OnProbe
<1>4. probe[req[r].probe] \in ProbeRow /\ probe[req[r].probe] # None
  BY <1>3 DEF Probes, FleetInv, FleetType
<1> DEFINE w == WriteAfter[req[r].at]
<1>5. w \in Writing /\ (w = "write" => req[r].at = "read")
  BY <1>2 DEF WriteAfter, Writing
<1> DEFINE what == [req[r] EXCEPT !.at = w, !.row = probe[req[r].probe]]
<1>6. req' = [req EXCEPT ![r] = what]
  BY <1>2 DEF ReadsProbe, FleetInv, FleetType
<1>7. what \in ProbeRequest /\ what.at = w /\ what.probe = req[r].probe
      /\ what.scope = req[r].scope /\ what.to = req[r].to /\ what.row = probe[req[r].probe]
      /\ what.from = req[r].from
  BY <1>2, <1>4, <1>5 DEF ProbeRequest
<1> HIDE DEF what, w
<1>8. what \in AnyRequest
  BY <1>7 DEF AnyRequest
<1>9. what.at \in {"read", "write"} => what.to = None \/ Allows(what.scope, what.to)
  <2>1. what.at \in {"read", "write"} => At(r, "read")
    BY <1>2, <1>5, <1>7 DEF Writing, At
  <2> QED BY <1>7, <2>1 DEF FleetInv, OrderInv, TargetInScope
<1>10. what.probe \in Probes /\ Allows(what.scope, what.from)
  BY <1>2, <1>3, <1>7 DEF FleetInv, OrderInv, FromInScope, ProbeSteps, OnProbe
<1>11. what.at \notin OnSite \cup {"make site", "repair"} \cup {"name", "insert"}
  BY <1>5, <1>7 DEF OnSite, Writing
<1>12. site' \in [Site -> {"kept", "archived", None}] /\ Sites \subseteq Sites'
  BY <1>1 DEF FleetInv, FleetType, Sites
<1>13. ProbesFollow'
  BY <1>1, StillFollow
<1>14. what.row # None
  BY <1>4, <1>7
<1> QED BY <1>1, <1>2, <1>6, <1>8, <1>9, <1>10, <1>11, <1>12, <1>13, <1>14, GoesOn

\* A name is chosen: the code that let the machine in stays the same.
LEMMA NameChosen ==
  ASSUME FleetInv, NEW r \in Request, NEW n \in Name, ChoosesName(r, n)
  PROVE  FleetInv'
<1>1. /\ At(r, "name") /\ site' = site /\ probe' = probe /\ code' = code /\ scope' = scope
      /\ gained' = gained /\ strayed' = strayed /\ outside' = outside
  BY DEF ChoosesName, tables, seen
<1>2. req[r] \in EnrolRequest /\ req[r] # None /\ req[r].at = "name"
  BY <1>1, AtKinds DEF FleetInv, EnrolSteps
<1> DEFINE what == [at |-> "insert", machine |-> req[r].machine, scope |-> req[r].scope,
                    code |-> req[r].code, site |-> req[r].site, name |-> n]
<1>3. req' = [req EXCEPT ![r] = what]
  BY DEF ChoosesName
<1>4. what \in InsertRequest /\ what.at = "insert" /\ what.code = req[r].code
  BY <1>2 DEF EnrolRequest, InsertRequest
<1> HIDE DEF what
<1>5. what \in AnyRequest
  BY <1>4 DEF AnyRequest
<1>6. what.code # None => Bears(r)
  BY <1>2, <1>4 DEF Bears
<1>7. what.at \notin OnSite \cup {"make site", "repair", "read", "write"} \cup ProbeSteps \cup Writing
  BY <1>4 DEF OnSite, Writing, ProbeSteps, OnProbe
<1>8. site' \in [Site -> {"kept", "archived", None}] /\ Sites \subseteq Sites'
  BY <1>1 DEF FleetInv, FleetType, Sites
<1>9. ProbesFollow'
  BY <1>1, StillFollow
<1> QED BY <1>1, <1>2, <1>3, <1>4, <1>5, <1>6, <1>7, <1>8, <1>9, GoesOn

\* A site made for a machine: that one came by its name, not by a code.
LEMMA SiteMadeForMachine ==
  ASSUME FleetInv, NEW r \in Request, MakesSite(r)
  PROVE  FleetInv'
<1>1. /\ At(r, "make site") /\ probe' = probe /\ code' = code /\ scope' = scope
      /\ gained' = gained /\ strayed' = strayed /\ outside' = outside
  BY DEF MakesSite, seen
<1>2. req[r] \in EnrolRequest /\ req[r] # None /\ req[r].at = "make site" /\ req[r].site \in Site
  BY <1>1, AtKinds DEF FleetInv, EnrolSteps, EnrolRequest
<1>3. CASE req[r].site \in Sites
  <2>1. Ends(r) /\ site' = site
    BY <1>3 DEF MakesSite
  <2> QED BY <1>1, <1>2, <2>1, LeavesAsItCame
<1>4. CASE req[r].site \notin Sites
  <2> DEFINE what == [req[r] EXCEPT !.at = "name"]
  <2>1. req' = [req EXCEPT ![r] = what] /\ site' = [site EXCEPT ![req[r].site] = "kept"]
    BY <1>4 DEF MakesSite
  <2>2. what \in EnrolRequest /\ what.at = "name" /\ what.code = req[r].code
    BY <1>2 DEF EnrolRequest
  <2> HIDE DEF what
  <2>3. what \in AnyRequest
    BY <2>2 DEF AnyRequest
  <2>4. what.code = None
    BY <1>1, <2>2 DEF FleetInv, BearersApart
  <2>5. what.at \notin OnSite \cup {"make site", "repair", "read", "write"} \cup ProbeSteps \cup Writing
    BY <2>2 DEF OnSite, Writing, ProbeSteps, OnProbe
  <2>6. site[req[r].site] = None
    BY <1>2, <1>4 DEF Sites
  <2>7. /\ site' \in [Site -> {"kept", "archived", None}] /\ Sites \subseteq Sites'
        /\ ProbesFollow'
    BY <1>1, <1>2, <2>1, <2>6, SiteMade
  <2> QED BY <1>1, <1>2, <2>1, <2>3, <2>4, <2>5, <2>7, GoesOn
<1> QED BY <1>3, <1>4

-----------------------------------------------------------------------------
(* Requests that write, and end.                                           *)

\* References hold while no site goes, and no probe goes or moves.
LEMMA ReferencesStay ==
  ASSUME FleetInv, Probes' = Probes, \A p \in Probes : probe'[p].site = probe[p].site,
         Sites \subseteq Sites', code' = code, scope' = scope
  PROVE  ProbesAreSomewhere' /\ ScopesAreOfSites' /\ CodesAreForWhatIs'
BY DEF FleetInv, ReferencesHold, ProbesAreSomewhere, ScopesAreOfSites, CodesAreForWhatIs

\* The row a request writes a probe's state into keeps the rest.
LEMMA ProbeRowKept ==
  ASSUME FleetInv, NEW p \in Probes, NEW row \in ProbeRow, probe' = [probe EXCEPT ![p] = row]
  PROVE  /\ probe' \in [Probe -> ProbeRow \cup {None}] /\ Probes' = Probes
         /\ probe'[p] = row /\ \A q \in Probe \ {p} : probe'[q] = probe[q]
         /\ \A q \in Probe : probe[q] # None => probe'[q] # None
BY FleetAssumption DEF FleetInv, FleetType, Probes

\* Archiving a site, or taking it back, takes its probes along.
LEMMA SiteArchived ==
  ASSUME FleetInv, NEW r \in Request, ArchivesSite(r)
  PROVE  FleetInv'
<1>1. PICK archived \in BOOLEAN :
        LET s == req[r].site IN
        /\ At(r, IF archived THEN "archive site" ELSE "unarchive site")
        /\ site' = [site EXCEPT ![s] = IF @ = None THEN None ELSE IF archived THEN "archived" ELSE "kept"]
        /\ probe' = Followed(s, archived)
        /\ strayed' = strayed \ ProbesOf(s)
        /\ Touches(r, {s}, "otherwise") /\ Ends(r)
        /\ code' = code /\ scope' = scope /\ gained' = gained
  BY DEF ArchivesSite
<1> DEFINE w == IF archived THEN "archive site" ELSE "unarchive site"
<1>2. req[r] # None /\ req[r].at = w /\ w \in OnSite /\ req[r] \in SiteRequest
  <2>1. w \in OnSite /\ At(r, w)
    BY <1>1 DEF OnSite
  <2> HIDE DEF w
  <2> QED BY <2>1, AtKinds DEF FleetInv
<1>3. PICK s \in Site : s = req[r].site
  BY <1>2 DEF SiteRequest
<1>4. /\ site' \in [Site -> {"kept", "archived", None}] /\ Sites' = Sites
      /\ \A x \in Site \ {s} : site'[x] = site[x]
      /\ site'[s] = "archived" => archived
  <2>1. site' = [site EXCEPT ![s] = IF @ = None THEN None ELSE IF archived THEN "archived" ELSE "kept"]
    BY <1>1, <1>3
  <2> QED BY <2>1, FleetAssumption DEF FleetInv, FleetType, Sites
<1>5. \A p \in Probe \ ProbesOf(s) : probe'[p] = probe[p]
  BY <1>1, <1>3 DEF Followed
<1>6. \A p \in ProbesOf(s) : /\ probe[p] \in ProbeRow /\ probe[p].site = s
                             /\ probe'[p] = [probe[p] EXCEPT !.archived = archived]
  BY <1>1, <1>3 DEF Followed, ProbesOf, Probes, FleetInv, FleetType
<1>7. \A p \in ProbesOf(s) : /\ probe'[p] \in ProbeRow /\ probe'[p].site = s
                             /\ probe'[p].archived = archived
  BY <1>6 DEF ProbeRow
<1>8. probe' \in [Probe -> ProbeRow \cup {None}]
  <2>1. \A p \in Probe : probe'[p] \in ProbeRow \cup {None}
    BY <1>5, <1>7 DEF FleetInv, FleetType
  <2>2. DOMAIN probe' = Probe /\ probe' = [p \in Probe |-> probe'[p]]
    BY <1>1 DEF Followed
  <2> QED BY <2>1, <2>2
<1>9. Probes' = Probes /\ \A p \in Probes : probe'[p].site = probe[p].site
  <2>1. \A p \in Probe : probe'[p] # None <=> probe[p] # None
    BY <1>5, <1>6, <1>7, FleetAssumption
  <2> QED BY <2>1, <1>5, <1>6, <1>7 DEF Probes
<1>10. ProbesAreSomewhere' /\ ScopesAreOfSites' /\ CodesAreForWhatIs'
  BY <1>1, <1>4, <1>9, ReferencesStay
<1>11. ProbesFollow'
  <2> SUFFICES ASSUME NEW p \in Probes, p \notin strayed', site'[probe'[p].site] = "archived"
               PROVE  probe'[p].archived
    BY <1>9 DEF ProbesFollow
  <2>1. CASE p \in ProbesOf(s)
    BY <2>1, <1>4, <1>7
  <2>2. CASE p \notin ProbesOf(s)
    <3>1. probe'[p] = probe[p] /\ probe[p].site \in Site \ {s} /\ p \notin strayed
      BY <1>1, <1>3, <1>5, <2>2 DEF ProbesOf, Probes, FleetInv, FleetType, ProbeRow
    <3> QED BY <3>1, <1>4 DEF FleetInv, OrderInv, ProbesFollow
  <2> QED BY <2>1, <2>2
<1>12. WithinScope'
  <2>1. Allows(req[r].scope, req[r].site)
    BY <1>2 DEF FleetInv, OrderInv, SiteInScope
  <2>2. Touches(r, {req[r].site}, "otherwise")
    BY <1>1
  <2> QED BY <2>1, <2>2, TouchesItsOwn
<1>13. /\ code' \in [Code -> CodeRow \cup {None}] /\ scope' \in [User -> SUBSET Site]
       /\ \A p \in Probe : probe[p] # None => probe'[p] # None
       /\ \A c \in Code : code[c] # None /\ code[c].is = "used" =>
            code'[c] # None /\ code'[c].is = "used"
  BY <1>1, <1>9 DEF FleetInv, FleetType, Probes
<1>14. gained' \subseteq gained \cup {<<req[r].code, m>> : m \in IF Bears(r) THEN Machine ELSE {}}
  BY <1>1
<1>15. Ends(r)
  BY <1>1
<1> QED BY <1>2, <1>4, <1>8, <1>10, <1>11, <1>12, <1>13, <1>14, <1>15, Leaves

\* A site is deleted when nothing refers to it; the scopes lose it.
LEMMA SiteDeleted ==
  ASSUME FleetInv, NEW r \in Request, DeletesSite(r)
  PROVE  FleetInv'
<1>1. /\ At(r, "delete site") /\ Ends(r) /\ probe' = probe /\ code' = code
      /\ gained' = gained /\ strayed' = strayed
  BY DEF DeletesSite
<1>2. req[r] # None /\ req[r].at = "delete site" /\ req[r] \in SiteRequest
  BY <1>1, AtKinds DEF FleetInv, OnSite
<1>3. PICK s \in Site : s = req[r].site
  BY <1>2 DEF SiteRequest
<1>4. CASE ~(ProbesOf(s) = {} /\ ~\E c \in Code : code[c] # None /\ code[c].site = s)
  <2>1. site' = site /\ scope' = scope /\ outside' = outside
    BY <1>3, <1>4 DEF DeletesSite
  <2> QED BY <1>1, <1>2, <2>1, LeavesAsItCame
<1>5. CASE ProbesOf(s) = {} /\ ~\E c \in Code : code[c] # None /\ code[c].site = s
  <2>1. /\ site' = [site EXCEPT ![s] = None]
        /\ scope' = [u \in User |-> scope[u] \ {s}]
        /\ Touches(r, {s}, "otherwise")
    BY <1>3, <1>5 DEF DeletesSite
  <2>2. /\ site' \in [Site -> {"kept", "archived", None}] /\ site'[s] = None
        /\ \A x \in Site \ {s} : site'[x] = site[x]
    BY <2>1 DEF FleetInv, FleetType
  <2>3. Sites' = Sites \ {s}
    BY <2>2 DEF Sites
  <2>4. Probes' = Probes /\ \A p \in Probes : probe[p].site # s
    BY <1>1, <1>5 DEF Probes, ProbesOf
  <2>5. ProbesAreSomewhere' /\ ScopesAreOfSites' /\ CodesAreForWhatIs'
    BY <1>1, <1>5, <2>1, <2>3, <2>4
       DEF FleetInv, ReferencesHold, ProbesAreSomewhere, ScopesAreOfSites, CodesAreForWhatIs
  <2>6. ProbesFollow'
    <3>1. \A p \in Probes : probe[p].site \in Site
      BY DEF Probes, FleetInv, FleetType, ProbeRow
    <3> QED BY <1>1, <2>2, <2>4, <3>1 DEF FleetInv, OrderInv, ProbesFollow
  <2>7. WithinScope'
    <3>1. Allows(req[r].scope, s)
      BY <1>2, <1>3 DEF FleetInv, OrderInv, SiteInScope, OnSite
    <3> QED BY <2>1, <3>1, TouchesItsOwn
  <2>8. /\ code' \in [Code -> CodeRow \cup {None}] /\ scope' \in [User -> SUBSET Site]
        /\ probe' \in [Probe -> ProbeRow \cup {None}]
        /\ \A p \in Probe : probe[p] # None => probe'[p] # None
        /\ \A c \in Code : code[c] # None /\ code[c].is = "used" =>
             code'[c] # None /\ code'[c].is = "used"
    BY <1>1, <2>1 DEF FleetInv, FleetType
  <2>9. gained' \subseteq gained \cup {<<req[r].code, m>> : m \in IF Bears(r) THEN Machine ELSE {}}
    BY <1>1
  <2> QED BY <1>1, <1>2, <2>2, <2>5, <2>6, <2>7, <2>8, <2>9, Leaves
<1> QED BY <1>4, <1>5

\* The scope of an account names sites that are there.
LEMMA ScopeReplaced ==
  ASSUME FleetInv, NEW r \in Request, ReplacesScope(r)
  PROVE  FleetInv'
<1>1. /\ At(r, "scope") /\ Ends(r) /\ site' = site /\ probe' = probe /\ code' = code
      /\ gained' = gained /\ strayed' = strayed /\ outside' = outside
      /\ scope' = IF req[r].sites \subseteq Sites
                    THEN [scope EXCEPT ![req[r].user] = req[r].sites] ELSE scope
  BY DEF ReplacesScope, seen
<1>2. req[r] # None /\ req[r] \in ScopeRequest
  BY <1>1, AtKinds DEF FleetInv
<1>3. req[r].user \in User /\ req[r].sites \in SUBSET Site
  BY <1>2 DEF ScopeRequest
<1>4. scope' \in [User -> SUBSET Site] /\ ScopesAreOfSites'
  <2>1. CASE ~(req[r].sites \subseteq Sites)
    BY <1>1, <2>1 DEF FleetInv, FleetType, ReferencesHold, ScopesAreOfSites, Sites
  <2>2. CASE req[r].sites \subseteq Sites
    BY <1>1, <1>3, <2>2 DEF FleetInv, FleetType, ReferencesHold, ScopesAreOfSites, Sites
  <2> QED BY <2>1, <2>2
<1>5. Probes' = Probes /\ Sites' = Sites
  BY <1>1 DEF Probes, Sites
<1>6. ProbesAreSomewhere' /\ CodesAreForWhatIs'
  BY <1>1, <1>5 DEF FleetInv, ReferencesHold, ProbesAreSomewhere, CodesAreForWhatIs
<1>7. ProbesFollow'
  BY <1>1, StillFollow
<1>8. WithinScope'
  BY <1>1 DEF FleetInv, OrderInv, WithinScope
<1>9. /\ code' \in [Code -> CodeRow \cup {None}] /\ site' \in [Site -> {"kept", "archived", None}]
      /\ probe' \in [Probe -> ProbeRow \cup {None}]
      /\ \A p \in Probe : probe[p] # None => probe'[p] # None
      /\ \A c \in Code : code[c] # None /\ code[c].is = "used" =>
           code'[c] # None /\ code'[c].is = "used"
  BY <1>1 DEF FleetInv, FleetType
<1>10. gained' \subseteq gained \cup {<<req[r].code, m>> : m \in IF Bears(r) THEN Machine ELSE {}}
  BY <1>1
<1> QED BY <1>1, <1>2, <1>4, <1>6, <1>7, <1>8, <1>9, <1>10, Leaves

\* A request that writes one probe, and no other table than the sites.
LEMMA OneProbeWritten ==
  ASSUME FleetInv, NEW r \in Request, req[r] # None, Ends(r), NEW p \in Probes,
         NEW row \in ProbeRow, probe' = [probe EXCEPT ![p] = row], row.site \in Sites',
         site' \in [Site -> {"kept", "archived", None}], Sites' = Sites,
         \A s \in Site : site'[s] = "archived" => site[s] = "archived",
         code' = code, scope' = scope,
         gained' \subseteq gained \cup {<<req[r].code, m>> : m \in IF Bears(r) THEN Machine ELSE {}},
         \A q \in Probe \ {p} : q \in strayed <=> q \in strayed',
         site'[row.site] = "archived" => p \in strayed' \/ row.archived,
         WithinScope'
  PROVE  FleetInv'
<1>1. /\ probe' \in [Probe -> ProbeRow \cup {None}] /\ Probes' = Probes
      /\ probe'[p] = row /\ \A q \in Probe \ {p} : probe'[q] = probe[q]
      /\ \A q \in Probe : probe[q] # None => probe'[q] # None
  BY ProbeRowKept
<1>2. /\ code' \in [Code -> CodeRow \cup {None}] /\ scope' \in [User -> SUBSET Site]
      /\ \A c \in Code : code[c] # None /\ code[c].is = "used" =>
           code'[c] # None /\ code'[c].is = "used"
  BY DEF FleetInv, FleetType
<1>3. ProbesAreSomewhere'
  BY <1>1 DEF FleetInv, ReferencesHold, ProbesAreSomewhere, Probes
<1>4. ScopesAreOfSites' /\ CodesAreForWhatIs'
  BY <1>1 DEF FleetInv, ReferencesHold, ScopesAreOfSites, CodesAreForWhatIs
<1>5. ProbesFollow'
  <2> SUFFICES ASSUME NEW q \in Probes, q \notin strayed', site'[probe'[q].site] = "archived"
               PROVE  probe'[q].archived
    BY <1>1 DEF ProbesFollow
  <2>1. CASE q = p
    BY <1>1, <2>1
  <2>2. CASE q # p
    <3>1. q \in Probe \ {p} /\ probe[q] \in ProbeRow
      BY <2>2 DEF Probes, FleetInv, FleetType
    <3>2. probe'[q] = probe[q] /\ probe[q].site \in Site /\ q \notin strayed
      BY <1>1, <3>1 DEF ProbeRow
    <3>3. site[probe[q].site] = "archived"
      BY <3>2
    <3> QED BY <3>2, <3>3 DEF FleetInv, OrderInv, ProbesFollow
  <2> QED BY <2>1, <2>2
<1> QED BY <1>1, <1>2, <1>3, <1>4, <1>5, Leaves

\* A probe renamed or moved stays within the scope of who asked.
LEMMA ProbeUpdated ==
  ASSUME FleetInv, NEW r \in Request, UpdatesProbe(r)
  PROVE  FleetInv'
<1> DEFINE p == req[r].probe
           n == Given(req[r].name, req[r].row.name)
           s == Given(req[r].to, req[r].row.site)
<1>1. /\ At(r, "write") /\ Ends(r) /\ site' = site /\ code' = code /\ scope' = scope
      /\ gained' = gained
  BY DEF UpdatesProbe
<1>2. req[r] # None /\ req[r].at = "write" /\ req[r] \in ProbeRequest
  BY <1>1, AtKinds DEF FleetInv, ProbeSteps, Writing
<1>3. p \in Probes /\ req[r].row \in ProbeRow
  BY <1>2 DEF FleetInv, ReferencesHold, RequestsKnow, ProbeRequest, ProbeSteps, Writing
<1>4. n \in Name /\ s \in Site
  BY <1>2, <1>3 DEF Given, ProbeRequest, ProbeRow
<1>5. probe[p] \in ProbeRow
  BY <1>3 DEF Probes, FleetInv, FleetType
<1>6. CASE ~Fits(p, s, n)
  <2>1. probe' = probe /\ outside' = outside /\ strayed' = strayed
    BY <1>6 DEF UpdatesProbe
  <2> QED BY <1>1, <1>2, <2>1, LeavesAsItCame
<1>7. CASE Fits(p, s, n)
  <2> DEFINE row == [probe[p] EXCEPT !.name = n, !.site = s]
  <2>1. /\ probe' = [probe EXCEPT ![p].name = n, ![p].site = s]
        /\ TouchesProbe(r, {probe[p].site, s})
        /\ strayed' = IF site[s] = "archived" /\ ~probe[p].archived
                        THEN strayed \cup {p} ELSE strayed \ {p}
    BY <1>7 DEF UpdatesProbe
  <2>2. probe' = [probe EXCEPT ![p] = row]
    BY <1>3, <2>1 DEF FleetInv, FleetType, Probes
  <2>3. row \in ProbeRow /\ row.site = s /\ row.archived = probe[p].archived
    BY <1>4, <1>5 DEF ProbeRow
  <2>4. s \in Sites
    BY <1>7 DEF Fits
  <2>5. WithinScope'
    <3>1. req[r].to = None \/ Allows(req[r].scope, req[r].to)
      BY <1>1 DEF FleetInv, OrderInv, TargetInScope
    <3>2. req[r].row # None /\ req[r].at \in ProbeSteps
      BY <1>2 DEF FleetInv, ReferencesHold, RequestsKnow, ProbeSteps, Writing
    <3>3. Allows(req[r].scope, s) \/ s = req[r].row.site
      BY <3>1 DEF Given
    <3> HIDE DEF s
    <3> QED BY <1>2, <2>1, <3>2, <3>3, TouchesItsProbe
  <2>6. \A q \in Probe \ {p} : q \in strayed <=> q \in strayed'
    BY <2>1
  <2>7. site'[row.site] = "archived" => p \in strayed' \/ row.archived
    BY <1>1, <2>1, <2>3
  <2>8. /\ site' \in [Site -> {"kept", "archived", None}] /\ Sites' = Sites
        /\ \A x \in Site : site'[x] = "archived" => site[x] = "archived"
    BY <1>1 DEF FleetInv, FleetType, Sites
  <2>9. gained' \subseteq gained \cup {<<req[r].code, m>> : m \in IF Bears(r) THEN Machine ELSE {}}
    BY <1>1
  <2>10. row.site \in Sites'
    BY <2>3, <2>4, <2>8
  <2> HIDE DEF row, p, s, n
  <2> QED BY <1>1, <1>2, <1>3, <2>2, <2>3, <2>5, <2>6, <2>7, <2>8, <2>9, <2>10, OneProbeWritten
<1> QED BY <1>6, <1>7

\* A probe archived, or that brings its site back: it is the site it is in.
LEMMA ProbeArchived ==
  ASSUME FleetInv, NEW r \in Request, ArchivesProbe(r)
  PROVE  FleetInv'
<1>1. PICK archived \in BOOLEAN :
        LET p == req[r].probe IN
        /\ At(r, IF archived THEN "write archive" ELSE "write unarchive")
        /\ probe' = [probe EXCEPT ![p].archived = archived]
        /\ site' = IF archived THEN site ELSE Brought(req[r].row.site)
        /\ strayed' = IF archived THEN strayed \ {p}
                      ELSE IF Moved(r) /\ site'[probe[p].site] = "archived" THEN strayed \cup {p}
                      ELSE strayed
        /\ TouchesProbe(r, {probe[p].site} \cup IF archived THEN {} ELSE {req[r].row.site})
        /\ Ends(r)
        /\ code' = code /\ scope' = scope /\ gained' = gained
  BY DEF ArchivesProbe
<1> DEFINE w == IF archived THEN "write archive" ELSE "write unarchive"
<1>2. req[r] # None /\ req[r].at = w /\ w \in Writing /\ req[r] \in ProbeRequest
  <2>1. w \in Writing /\ w \in ProbeSteps /\ At(r, w)
    BY <1>1 DEF Writing, ProbeSteps
  <2> HIDE DEF w
  <2> QED BY <2>1, AtKinds DEF FleetInv
<1> DEFINE p == req[r].probe
           b == req[r].row.site
<1>3. p \in Probes /\ req[r].row \in ProbeRow /\ b \in Site
  BY <1>2 DEF FleetInv, ReferencesHold, RequestsKnow, ProbeRequest, ProbeSteps, ProbeRow
<1>4. probe[p] \in ProbeRow
  BY <1>3 DEF Probes, FleetInv, FleetType
<1> DEFINE row == [probe[p] EXCEPT !.archived = archived]
<1>5. probe' = [probe EXCEPT ![p] = row]
  BY <1>1, <1>3 DEF FleetInv, FleetType, Probes
<1>6. row \in ProbeRow /\ row.site = probe[p].site /\ row.archived = archived
  BY <1>4 DEF ProbeRow
<1>7. /\ site' \in [Site -> {"kept", "archived", None}] /\ Sites' = Sites
      /\ \A x \in Site : site'[x] = "archived" => site[x] = "archived"
  <2>1. CASE archived
    BY <1>1, <2>1 DEF FleetInv, FleetType, Sites
  <2>2. CASE ~archived
    <3>1. site' = [site EXCEPT ![b] = IF @ = None THEN None ELSE "kept"]
      BY <1>1, <2>2 DEF Brought
    <3> QED BY <1>3, <3>1, FleetAssumption DEF FleetInv, FleetType, Sites
  <2> QED BY <2>1, <2>2
<1>8. req[r].row # None /\ req[r].at \in ProbeSteps
  BY <1>2 DEF FleetInv, ReferencesHold, RequestsKnow, ProbeSteps
<1>9. WithinScope'
  <2>1. TouchesProbe(r, {probe[p].site} \cup IF archived THEN {} ELSE {req[r].row.site})
    BY <1>1
  <2>2. \A x \in {probe[p].site} \cup IF archived THEN {} ELSE {req[r].row.site} :
          x = probe[p].site \/ x = req[r].row.site
    OBVIOUS
  <2> QED BY <1>2, <1>8, <2>1, <2>2, TouchesItsProbe
<1>10. \A q \in Probe \ {p} : q \in strayed <=> q \in strayed'
  BY <1>1
<1>11. probe[p].site \in Sites
  BY <1>3 DEF FleetInv, ReferencesHold, ProbesAreSomewhere
<1>12. gained' \subseteq gained \cup {<<req[r].code, m>> : m \in IF Bears(r) THEN Machine ELSE {}}
  BY <1>1
<1>13. Ends(r) /\ code' = code /\ scope' = scope
  BY <1>1
<1>14. row.site \in Sites'
  BY <1>6, <1>7, <1>11
<1>15. site'[row.site] = "archived" => p \in strayed' \/ row.archived
  <2>1. ~archived => site'[b] # "archived"
    BY <1>1, <1>3, FleetAssumption DEF FleetInv, FleetType, Brought
  <2>2. ~Moved(r) => b = row.site
    BY <1>6, <1>8 DEF Moved
  <2> QED BY <1>1, <1>6, <2>1, <2>2
<1> HIDE DEF row, p, b
<1> QED BY <1>2, <1>3, <1>5, <1>6, <1>7, <1>9, <1>10, <1>12, <1>13, <1>14, <1>15, OneProbeWritten

\* A probe revoked keeps all the rest.
LEMMA ProbeRevoked ==
  ASSUME FleetInv, NEW r \in Request, RevokesProbe(r)
  PROVE  FleetInv'
<1> DEFINE p == req[r].probe
           row == [probe[p] EXCEPT !.revoked = TRUE]
<1>1. /\ At(r, "read revoke") /\ Ends(r) /\ site' = site /\ code' = code /\ scope' = scope
      /\ gained' = gained /\ strayed' = strayed
      /\ probe' = [probe EXCEPT ![p].revoked = TRUE] /\ TouchesProbe(r, {probe[p].site})
  BY DEF RevokesProbe
<1>2. req[r] # None /\ req[r].at = "read revoke" /\ req[r] \in ProbeRequest
  BY <1>1, AtKinds DEF FleetInv, ProbeSteps, OnProbe
<1>3. p \in Probes
  BY <1>2 DEF FleetInv, ReferencesHold, RequestsKnow, ProbeSteps, OnProbe
<1>4. probe[p] \in ProbeRow
  BY <1>3 DEF Probes, FleetInv, FleetType
<1>5. probe' = [probe EXCEPT ![p] = row]
  BY <1>1, <1>3 DEF FleetInv, FleetType, Probes
<1>6. row \in ProbeRow /\ row.site = probe[p].site /\ row.archived = probe[p].archived
  BY <1>4 DEF ProbeRow
<1>7. WithinScope'
  <2> DEFINE sites == {probe[p].site}
  <2>1. TouchesProbe(r, sites) /\ req[r].at \in ProbeSteps
    BY <1>1, <1>2 DEF ProbeSteps, OnProbe
  <2>2. \A x \in sites : x = probe[req[r].probe].site
    OBVIOUS
  <2> HIDE DEF sites
  <2> QED BY <1>2, <2>1, <2>2, TouchesItsProbe
<1>8. /\ probe' \in [Probe -> ProbeRow \cup {None}] /\ Probes' = Probes
      /\ probe'[p] = row /\ \A q \in Probe \ {p} : probe'[q] = probe[q]
      /\ \A q \in Probe : probe[q] # None => probe'[q] # None
  BY <1>3, <1>5, <1>6, ProbeRowKept
<1>9. Sites' = Sites /\ site' \in [Site -> {"kept", "archived", None}]
  BY <1>1 DEF Sites, FleetInv, FleetType
<1>10. ProbesAreSomewhere' /\ ScopesAreOfSites' /\ CodesAreForWhatIs'
  <2>1. \A q \in Probes : probe'[q].site = probe[q].site
    BY <1>6, <1>8 DEF Probes
  <2> QED BY <1>1, <1>8, <1>9, <2>1, ReferencesStay
<1>11. ProbesFollow'
  <2> SUFFICES ASSUME NEW q \in Probes, q \notin strayed, site[probe'[q].site] = "archived"
               PROVE  probe'[q].archived
    BY <1>1, <1>8 DEF ProbesFollow
  <2>1. probe'[q].site = probe[q].site /\ probe'[q].archived = probe[q].archived
    BY <1>6, <1>8 DEF Probes
  <2> QED BY <2>1 DEF FleetInv, OrderInv, ProbesFollow
<1>12. /\ code' \in [Code -> CodeRow \cup {None}] /\ scope' \in [User -> SUBSET Site]
       /\ \A c \in Code : code[c] # None /\ code[c].is = "used" =>
            code'[c] # None /\ code'[c].is = "used"
       /\ gained' \subseteq gained \cup {<<req[r].code, m>> : m \in IF Bears(r) THEN Machine ELSE {}}
  BY <1>1 DEF FleetInv, FleetType
<1> HIDE DEF p, row
<1> QED BY <1>1, <1>2, <1>7, <1>8, <1>9, <1>10, <1>11, <1>12, Leaves

\* A code issued is for a site that is there, and for a probe that is there.
LEMMA CodeWritten ==
  ASSUME FleetInv, NEW r \in Request, req[r] # None, Ends(r), NEW c \in Code, code[c] = None,
         NEW s \in Sites, NEW p \in Probes \cup {None}, InsertsCode(c, s, p),
         site' = site, probe' = probe, scope' = scope, gained' = gained, strayed' = strayed,
         WithinScope'
  PROVE  FleetInv'
<1> DEFINE row == [site |-> s, probe |-> p, is |-> "open"]
<1>1. row \in CodeRow /\ row # None /\ row.site = s /\ row.probe = p
  BY FleetAssumption DEF CodeRow, Sites, Probes
<1>2. code' = [code EXCEPT ![c] = row]
  BY DEF InsertsCode
<1> HIDE DEF row
<1>3. /\ code' \in [Code -> CodeRow \cup {None}] /\ code'[c] = row
      /\ \A d \in Code \ {c} : code'[d] = code[d]
  BY <1>1, <1>2 DEF FleetInv, FleetType
<1>4. Probes' = Probes /\ Sites' = Sites
  BY DEF Probes, Sites
<1>5. ProbesAreSomewhere' /\ ScopesAreOfSites'
  BY <1>4 DEF FleetInv, ReferencesHold, ProbesAreSomewhere, ScopesAreOfSites
<1>6. CodesAreForWhatIs'
  <2> SUFFICES ASSUME NEW d \in Code, code'[d] # None
               PROVE  code'[d].site \in Sites /\ (code'[d].probe # None => code'[d].probe \in Probes)
    BY <1>4 DEF CodesAreForWhatIs
  <2>1. CASE d = c
    BY <1>1, <1>3, <2>1
  <2>2. CASE d # c
    <3>1. code'[d] = code[d]
      BY <1>3, <2>2
    <3> QED BY <3>1 DEF FleetInv, ReferencesHold, CodesAreForWhatIs
  <2> QED BY <2>1, <2>2
<1>7. ProbesFollow'
  BY StillFollow
<1>8. /\ site' \in [Site -> {"kept", "archived", None}]
      /\ probe' \in [Probe -> ProbeRow \cup {None}] /\ scope' \in [User -> SUBSET Site]
      /\ \A q \in Probe : probe[q] # None => probe'[q] # None
      /\ gained' \subseteq gained \cup {<<req[r].code, m>> : m \in IF Bears(r) THEN Machine ELSE {}}
  BY DEF FleetInv, FleetType
<1>9. \A d \in Code : code[d] # None /\ code[d].is = "used" =>
        code'[d] # None /\ code'[d].is = "used"
  BY <1>3
<1> QED BY <1>3, <1>5, <1>6, <1>7, <1>8, <1>9, Leaves

\* A code is issued for a site the operator has in his scope.
LEMMA CodeIssued ==
  ASSUME FleetInv, NEW r \in Request, NEW c \in Code, IssuesCode(r, c)
  PROVE  FleetInv'
<1>1. /\ At(r, "issue") /\ code[c] = None /\ Ends(r) /\ site' = site /\ probe' = probe
      /\ scope' = scope /\ gained' = gained /\ strayed' = strayed
  BY DEF IssuesCode
<1>2. req[r] # None /\ req[r].at = "issue" /\ req[r] \in SiteRequest
  BY <1>1, AtKinds DEF FleetInv, OnSite
<1>3. CASE req[r].site \notin Sites
  <2>1. code' = code /\ outside' = outside
    BY <1>3 DEF IssuesCode
  <2> QED BY <1>1, <1>2, <2>1, LeavesAsItCame
<1>4. CASE req[r].site \in Sites
  <2>1. InsertsCode(c, req[r].site, None) /\ Touches(r, {req[r].site}, "otherwise")
    BY <1>4 DEF IssuesCode
  <2>2. WithinScope'
    <3>1. Allows(req[r].scope, req[r].site)
      BY <1>2 DEF FleetInv, OrderInv, SiteInScope, OnSite
    <3> QED BY <2>1, <3>1, TouchesItsOwn
  <2>3. None \in Probes \cup {None}
    OBVIOUS
  <2> QED BY <1>1, <1>2, <1>4, <2>1, <2>2, <2>3, CodeWritten
<1> QED BY <1>3, <1>4

\* A code that repairs a probe is for the site the probe had when it was read.
LEMMA RepairIssued ==
  ASSUME FleetInv, NEW r \in Request, NEW c \in Code, IssuesRepair(r, c)
  PROVE  FleetInv'
<1> DEFINE p == req[r].probe
           s == req[r].row.site
<1>1. /\ At(r, "write repair") /\ code[c] = None /\ Ends(r) /\ site' = site /\ probe' = probe
      /\ scope' = scope /\ gained' = gained /\ strayed' = strayed
  BY DEF IssuesRepair
<1>2. req[r] # None /\ req[r].at = "write repair" /\ req[r] \in ProbeRequest
  BY <1>1, AtKinds DEF FleetInv, Writing, ProbeSteps
<1>3. p \in Probes /\ req[r].row # None /\ req[r].at \in ProbeSteps
  BY <1>2 DEF FleetInv, ReferencesHold, RequestsKnow, ProbeSteps, Writing
<1>4. CASE s \notin Sites
  <2>1. code' = code /\ outside' = outside
    BY <1>4 DEF IssuesRepair
  <2> QED BY <1>1, <1>2, <2>1, LeavesAsItCame
<1>5. CASE s \in Sites
  <2>1. InsertsCode(c, s, p) /\ TouchesProbe(r, {s})
    BY <1>5 DEF IssuesRepair
  <2>2. WithinScope'
    <3> DEFINE sites == {s}
    <3>1. TouchesProbe(r, sites) /\ \A x \in sites : x = req[r].row.site
      BY <2>1
    <3> HIDE DEF sites
    <3> QED BY <1>2, <1>3, <3>1, TouchesItsProbe
  <2>3. p \in Probes \cup {None}
    BY <1>3
  <2> HIDE DEF s, p
  <2> QED BY <1>1, <1>2, <1>5, <2>1, <2>2, <2>3, CodeWritten
<1> QED BY <1>4, <1>5

\* A machine whose row is written, or repaired, gains its code.
LEMMA GainsItsCode ==
  ASSUME FleetInv, NEW r \in Request, NEW s \in {"insert", "repair"}, At(r, s), Gains(r)
  PROVE  gained' \subseteq gained \cup {<<req[r].code, m>> : m \in IF Bears(r) THEN Machine ELSE {}}
<1>1. req[r].machine \in Machine /\ req[r] # None /\ req[r].at = s
  BY AtKinds DEF FleetInv, EnrolSteps, EnrolRequest, InsertRequest
<1>2. req[r].code # None => Bears(r)
  BY <1>1 DEF Bears
<1> QED BY <1>1, <1>2 DEF Gains

\* A machine enrolled has a row in a site that is there.
LEMMA ProbeInserted ==
  ASSUME FleetInv, NEW r \in Request, NEW p \in Probe, InsertsProbe(r, p)
  PROVE  FleetInv'
<1> DEFINE s == req[r].site
<1>1. /\ At(r, "insert") /\ probe[p] = None /\ Ends(r) /\ site' = site /\ code' = code
      /\ scope' = scope
  BY DEF InsertsProbe
<1>2. req[r] # None /\ req[r].at = "insert" /\ req[r] \in InsertRequest
  BY <1>1, AtKinds DEF FleetInv
<1>3. req[r].machine \in Machine /\ req[r].name \in Name /\ s \in Site
  BY <1>2 DEF InsertRequest
<1>4. CASE ~Fits(p, s, req[r].name)
  <2>1. probe' = probe /\ strayed' = strayed /\ gained' = gained /\ outside' = outside
    BY <1>4 DEF InsertsProbe
  <2> QED BY <1>1, <1>2, <2>1, LeavesAsItCame
<1>5. CASE Fits(p, s, req[r].name)
  <2>1. PICK m \in Answered(req[r].machine) :
          probe' = [probe EXCEPT ![p] = [site |-> s, name |-> req[r].name,
                      archived |-> FALSE, revoked |-> FALSE, holder |-> m]]
    BY <1>5 DEF InsertsProbe
  <2> DEFINE row == [site |-> s, name |-> req[r].name, archived |-> FALSE, revoked |-> FALSE,
                     holder |-> m]
  <2>2. row \in ProbeRow /\ row.site = s /\ row # None
    <3>1. m \in Machine \cup {None}
      BY <1>3, <2>1 DEF Answered
    <3>2. row \in ProbeRow
      BY <1>3, <3>1 DEF ProbeRow
    <3>3. row.site = s
      OBVIOUS
    <3> HIDE DEF row
    <3> QED BY <3>2, <3>3, FleetAssumption
  <2>3. /\ strayed' = IF site[s] = "archived" THEN strayed \cup {p} ELSE strayed
        /\ Gains(r) /\ s \in Sites /\ Touches(r, {s}, "by name")
    BY <1>5 DEF InsertsProbe, Fits
  <2> HIDE DEF row
  <2>4. probe' = [probe EXCEPT ![p] = row]
    BY <2>1 DEF row
  <2>5. /\ probe' \in [Probe -> ProbeRow \cup {None}] /\ probe'[p] = row
        /\ \A q \in Probe \ {p} : probe'[q] = probe[q]
    BY <2>2, <2>4 DEF FleetInv, FleetType
  <2>6. Probes' = Probes \cup {p} /\ Sites' = Sites
    BY <1>1, <2>2, <2>5 DEF Probes, Sites
  <2>7. ProbesAreSomewhere'
    <3>1. \A q \in Probes : probe'[q].site \in Sites
      BY <1>1, <2>5 DEF FleetInv, ReferencesHold, ProbesAreSomewhere, Probes
    <3> QED BY <2>2, <2>3, <2>5, <2>6, <3>1 DEF ProbesAreSomewhere
  <2>8. ScopesAreOfSites' /\ CodesAreForWhatIs'
    BY <1>1, <2>6 DEF FleetInv, ReferencesHold, ScopesAreOfSites, CodesAreForWhatIs
  <2>9. ProbesFollow'
    <3> SUFFICES ASSUME NEW q \in Probes \cup {p}, q \notin strayed',
                        site[probe'[q].site] = "archived"
                 PROVE  probe'[q].archived
      BY <1>1, <2>6 DEF ProbesFollow
    <3>1. CASE q = p
      BY <3>1, <2>2, <2>3, <2>5
    <3>2. CASE q # p
      <4>1. q \in Probes /\ probe'[q] = probe[q] /\ q \notin strayed
        BY <2>3, <2>5, <3>2 DEF Probes
      <4> QED BY <4>1 DEF FleetInv, OrderInv, ProbesFollow
    <3> QED BY <3>1, <3>2
  <2>10. gained' \subseteq gained \cup {<<req[r].code, x>> : x \in IF Bears(r) THEN Machine ELSE {}}
    BY <1>1, <2>3, GainsItsCode
  <2>11. WithinScope'
    BY <2>3, TouchesItsOwn
  <2>12. /\ site' \in [Site -> {"kept", "archived", None}]
         /\ code' \in [Code -> CodeRow \cup {None}] /\ scope' \in [User -> SUBSET Site]
         /\ \A c \in Code : code[c] # None /\ code[c].is = "used" =>
              code'[c] # None /\ code'[c].is = "used"
    BY <1>1 DEF FleetInv, FleetType
  <2>13. \A q \in Probe : probe[q] # None => probe'[q] # None
    BY <2>2, <2>5
  <2> QED BY <1>1, <1>2, <2>5, <2>7, <2>8, <2>9, <2>10, <2>11, <2>12, <2>13, Leaves
<1> QED BY <1>4, <1>5

\* A probe repaired stays where it is.
LEMMA ProbeRepaired ==
  ASSUME FleetInv, NEW r \in Request, Repairs(r)
  PROVE  FleetInv'
<1> DEFINE p == req[r].probe
<1>1. /\ At(r, "repair") /\ Gains(r) /\ Ends(r) /\ site' = site /\ code' = code /\ scope' = scope
      /\ outside' = outside /\ strayed' = strayed
  BY DEF Repairs
<1>2. PICK m \in Answered(req[r].machine) :
        probe' = [probe EXCEPT ![p].revoked = FALSE, ![p].holder = m]
  BY DEF Repairs
<1>3. req[r] # None /\ req[r].at = "repair" /\ req[r] \in EnrolRequest
  BY <1>1, AtKinds DEF FleetInv, EnrolSteps
<1>4. p \in Probes /\ m \in Machine \cup {None}
  BY <1>2, <1>3 DEF FleetInv, ReferencesHold, RequestsKnow, Answered, EnrolRequest
<1>5. probe[p] \in ProbeRow
  BY <1>4 DEF Probes, FleetInv, FleetType
<1> DEFINE row == [probe[p] EXCEPT !.revoked = FALSE, !.holder = m]
<1>6. probe' = [probe EXCEPT ![p] = row]
  BY <1>2, <1>4 DEF FleetInv, FleetType, Probes
<1>7. row \in ProbeRow /\ row.site = probe[p].site /\ row.archived = probe[p].archived
  BY <1>4, <1>5 DEF ProbeRow
<1>8. /\ probe' \in [Probe -> ProbeRow \cup {None}] /\ Probes' = Probes
      /\ probe'[p] = row /\ \A q \in Probe \ {p} : probe'[q] = probe[q]
      /\ \A q \in Probe : probe[q] # None => probe'[q] # None
  BY <1>4, <1>6, <1>7, ProbeRowKept
<1>9. Sites' = Sites /\ site' \in [Site -> {"kept", "archived", None}]
  BY <1>1 DEF Sites, FleetInv, FleetType
<1>10. ProbesAreSomewhere' /\ ScopesAreOfSites' /\ CodesAreForWhatIs'
  <2>1. \A q \in Probes : probe'[q].site = probe[q].site
    BY <1>7, <1>8 DEF Probes
  <2> QED BY <1>1, <1>8, <1>9, <2>1, ReferencesStay
<1>11. ProbesFollow'
  <2> SUFFICES ASSUME NEW q \in Probes, q \notin strayed, site[probe'[q].site] = "archived"
               PROVE  probe'[q].archived
    BY <1>1, <1>8 DEF ProbesFollow
  <2>1. probe'[q].site = probe[q].site /\ probe'[q].archived = probe[q].archived
    BY <1>7, <1>8 DEF Probes
  <2> QED BY <2>1 DEF FleetInv, OrderInv, ProbesFollow
<1>12. /\ code' \in [Code -> CodeRow \cup {None}] /\ scope' \in [User -> SUBSET Site]
       /\ \A c \in Code : code[c] # None /\ code[c].is = "used" =>
            code'[c] # None /\ code'[c].is = "used"
  BY <1>1 DEF FleetInv, FleetType
<1>13. gained' \subseteq gained \cup {<<req[r].code, x>> : x \in IF Bears(r) THEN Machine ELSE {}}
  BY <1>1, GainsItsCode
<1>14. WithinScope'
  BY <1>1 DEF FleetInv, OrderInv, WithinScope
<1> HIDE DEF p, row
<1> QED BY <1>1, <1>3, <1>8, <1>9, <1>10, <1>11, <1>12, <1>13, <1>14, Leaves

-----------------------------------------------------------------------------
(* The invariant.                                                          *)

\* What the hub is installed with: a probe in the first of two sites.
LEMMA FleetInitially == Init => FleetInv
<1> SUFFICES ASSUME Init PROVE FleetInv
  OBVIOUS
<1>1. PICK a, b \in Site, p \in Probe, n \in Name :
        /\ a # b
        /\ site = [s \in Site |-> IF s \in {a, b} THEN "kept" ELSE None]
        /\ probe = [x \in Probe |-> IF x = p
             THEN [site |-> a, name |-> n, archived |-> FALSE, revoked |-> FALSE, holder |-> None]
             ELSE None]
        /\ scope \in [User -> {{}, {a}}]
  BY DEF Init
<1> DEFINE row == [site |-> a, name |-> n, archived |-> FALSE, revoked |-> FALSE, holder |-> None]
<1>2. row \in ProbeRow /\ row.site = a
  BY DEF ProbeRow
<1>3. row # None
  BY <1>2, FleetAssumption
<1>4. /\ probe = [x \in Probe |-> IF x = p THEN row ELSE None]
      /\ code = [c \in Code |-> None] /\ req = [r \in Request |-> None] /\ gained = {}
  BY <1>1 DEF Init
<1> HIDE DEF row
<1>5. FleetType
  BY ZenonT(30), <1>1, <1>2, <1>4 DEF FleetType
<1>6. a \in Sites /\ \A s \in Site : site[s] # "archived"
  BY <1>1, FleetAssumption DEF Sites
<1>7. ReferencesHold
  <2>1. ProbesAreSomewhere
    BY <1>2, <1>4, <1>6 DEF ProbesAreSomewhere, Probes
  <2>2. CodesAreForWhatIs /\ RequestsKnow
    BY <1>4 DEF CodesAreForWhatIs, RequestsKnow
  <2>3. ScopesAreOfSites
    BY <1>1, <1>6 DEF ScopesAreOfSites
  <2> QED BY <2>1, <2>2, <2>3 DEF ReferencesHold
<1>8. OrderInv
  <2>1. SiteInScope /\ TargetInScope /\ FromInScope
    BY <1>4 DEF SiteInScope, TargetInScope, FromInScope, At
  <2>2. ProbesFollow
    <3>1. \A q \in Probes : probe[q].site \in Site
      BY <1>5 DEF Probes, FleetType, ProbeRow
    <3> QED BY <1>6, <3>1 DEF ProbesFollow
  <2>3. WithinScope
    BY DEF Init, WithinScope
  <2> QED BY <2>1, <2>2, <2>3 DEF OrderInv
<1>9. BearersApart
  BY <1>4 DEF BearersApart, Bears, At
<1> QED BY <1>5, <1>7, <1>8, <1>9 DEF FleetInv

\* One step at a time.
LEMMA FleetStep == FleetInv /\ [Next]_vars => FleetInv'
<1> SUFFICES ASSUME FleetInv, [Next]_vars PROVE FleetInv'
  OBVIOUS
<1>1. ASSUME NEW s \in Site, CreatesSite(s) PROVE FleetInv'
  BY <1>1, SiteCreated
<1>2. ASSUME NEW r \in Request, NEW u \in User, NEW s \in Site, NEW what \in OnSite,
             AsksSite(r, u, s, what)
      PROVE  FleetInv'
  BY <1>2, SiteAsked
<1>3. ASSUME NEW r \in Request, NEW u \in User, NEW p \in Probe, NEW what \in OnProbe,
             AsksProbe(r, u, p, what, None, None)
      PROVE  FleetInv'
  <2>1. what \in OnProbe \cup {"target"} /\ None \in Name \cup {None} /\ None \in Site \cup {None}
    OBVIOUS
  <2> QED BY <1>3, <2>1, ProbeAsked
<1>4. ASSUME NEW r \in Request, NEW u \in User, NEW p \in Probe, NEW n \in Name \cup {None},
             NEW s \in Site \cup {None}, AsksProbe(r, u, p, "target", n, s)
      PROVE  FleetInv'
  <2>1. "target" \in OnProbe \cup {"target"}
    OBVIOUS
  <2> QED BY <1>4, <2>1, ProbeAsked
<1>5. ASSUME NEW r \in Request, NEW u \in User, NEW sites \in SUBSET Site, AsksScope(r, u, sites)
      PROVE  FleetInv'
  BY <1>5, ScopeAsked
<1>6. ASSUME NEW r \in Request, NEW m \in Machine, NEW c \in Code, Presents(r, m, c)
      PROVE  FleetInv'
  BY <1>6, CodePresented
<1>7. ASSUME NEW r \in Request, NEW u \in User, NEW m \in Machine, NEW s \in Site,
             EnrolsByName(r, u, m, s)
      PROVE  FleetInv'
  BY <1>7, EnrolmentAsked
<1>8. ASSUME NEW r \in Request, NEW c \in Code, IssuesCode(r, c) \/ IssuesRepair(r, c)
      PROVE  FleetInv'
  BY <1>8, CodeIssued, RepairIssued
<1>9. ASSUME NEW r \in Request, NEW n \in Name, ChoosesName(r, n) PROVE FleetInv'
  BY <1>9, NameChosen
<1>10. ASSUME NEW r \in Request, NEW p \in Probe, InsertsProbe(r, p) PROVE FleetInv'
  BY <1>10, ProbeInserted
<1>11. ASSUME NEW r \in Request,
              \/ ArchivesSite(r) \/ DeletesSite(r) \/ ReplacesScope(r)
              \/ LooksAtTarget(r) \/ ReadsProbe(r) \/ UpdatesProbe(r)
              \/ ArchivesProbe(r) \/ RevokesProbe(r) \/ MakesSite(r) \/ Repairs(r)
       PROVE  FleetInv'
  BY <1>11, SiteArchived, SiteDeleted, ScopeReplaced, TargetSeen, ProbeRead, ProbeUpdated,
     ProbeArchived, ProbeRevoked, SiteMadeForMachine, ProbeRepaired
<1>12. ASSUME NEW c \in Code, LapsesCode(c) PROVE FleetInv'
  BY <1>12, CodeLapsed
<1>13. CASE Restarts
  BY <1>13, Restarted
<1>14. CASE UNCHANGED vars
  <2>1. /\ req' = req /\ code' = code /\ probe' = probe /\ site' = site /\ scope' = scope
        /\ gained' = gained /\ outside' = outside /\ strayed' = strayed
    BY <1>14 DEF vars, tables, seen
  <2>2. /\ code' \in [Code -> CodeRow \cup {None}]
        /\ \A c \in Code : /\ code'[c] # None <=> code[c] # None
                           /\ code[c] # None => /\ code'[c].site = code[c].site
                                                /\ code'[c].probe = code[c].probe
                                                /\ code[c].is = "used" => code'[c].is = "used"
    BY <2>1 DEF FleetInv, FleetType
  <2>3. site' \in [Site -> {"kept", "archived", None}] /\ Sites \subseteq Sites'
    BY <2>1 DEF FleetInv, FleetType, Sites
  <2>4. ProbesFollow'
    BY <2>1, StillFollow
  <2> QED BY <2>1, <2>2, <2>3, <2>4, NobodyMoves
<1> QED BY <1>1, <1>2, <1>3, <1>4, <1>5, <1>6, <1>7, <1>8, <1>9, <1>10, <1>11, <1>12, <1>13, <1>14
        DEF Next

\* What is known of the fleet holds throughout.
LEMMA FleetInductive == Spec => []FleetInv
<1>1. FleetInv /\ [Next]_vars => FleetInv'
  BY FleetStep
<1> QED BY <1>1, FleetInitially, PTL DEF Spec

-----------------------------------------------------------------------------
(* Codes, as OneUse has them.                                              *)

Open == {c \in Code : CanBePresented(c)}
Used == {c \in Code : code[c] # None /\ code[c].is = "used"}

\* Steps that touch neither the codes nor who gained one.
LEMMA CodesLeftAlone ==
  ASSUME code' = code, gained' = gained
  PROVE  UNCHANGED <<Open, Used, gained>>
BY DEF Open, Used, CanBePresented

\* A code written is one issued.
LEMMA WrittenIsIssued ==
  ASSUME FleetInv, NEW c \in Code, code[c] = None, NEW s, NEW p, InsertsCode(c, s, p),
         [site |-> s, probe |-> p, is |-> "open"] # None, gained' = gained
  PROVE  ShortCode!Next
<1>1. /\ code'[c] # None /\ code'[c].is = "open" /\ \A d \in Code \ {c} : code'[d] = code[d]
  BY DEF InsertsCode, FleetInv, FleetType
<1>2. c \notin Open \cup Used /\ Open' = Open \cup {c} /\ Used' = Used
  BY <1>1 DEF Open, Used, CanBePresented
<1> QED BY <1>2 DEF ShortCode!Next, ShortCode!Issue, Open, Used

\* A row written, or repaired, is what the bearer of a code gains, and nobody
\* else did.
LEMMA GainIsGain ==
  ASSUME FleetInv, NEW r \in Request, NEW s \in {"insert", "repair"}, At(r, s), Gains(r),
         code' = code
  PROVE  ShortCode!Next \/ UNCHANGED <<Open, Used, gained>>
<1>1. req[r].machine \in Machine /\ req[r].code \in Code \cup {None} /\ req[r] # None /\ req[r].at = s
  BY AtKinds DEF FleetInv, EnrolSteps, EnrolRequest, InsertRequest
<1>2. Open' = Open /\ Used' = Used
  BY DEF Open, Used, CanBePresented
<1>3. CASE req[r].code = None
  BY <1>2, <1>3 DEF Gains
<1>4. CASE req[r].code # None
  <2>1. Bears(r) /\ req[r].code \in Code
    BY <1>1, <1>4 DEF Bears
  <2>2. req[r].code \in Used /\ ~\E x \in Machine : <<req[r].code, x>> \in gained
    BY <2>1 DEF FleetInv, BearersApart, Used
  <2>3. gained' = gained \cup {<<req[r].code, req[r].machine>>}
    BY <1>4 DEF Gains
  <2>4. ShortCode!Gain(req[r].code, req[r].machine)
    BY <1>2, <2>2, <2>3 DEF ShortCode!Gain, Open, Used
  <2> QED BY <1>1, <2>1, <2>4 DEF ShortCode!Next
<1> QED BY <1>3, <1>4

\* Every step of the fleet is one of the short code, or none.
LEMMA CodesStep ==
  FleetInv /\ [Next]_vars => ShortCode!Next \/ UNCHANGED <<Open, Used, gained>>
<1> SUFFICES ASSUME FleetInv, [Next]_vars
             PROVE  ShortCode!Next \/ UNCHANGED <<Open, Used, gained>>
  OBVIOUS
<1>1. ASSUME NEW s \in Site, CreatesSite(s) PROVE UNCHANGED <<Open, Used, gained>>
  BY <1>1, CodesLeftAlone DEF CreatesSite, seen
<1>2. ASSUME NEW r \in Request, NEW u \in User, NEW s \in Site, NEW what \in OnSite,
             AsksSite(r, u, s, what)
      PROVE  UNCHANGED <<Open, Used, gained>>
  BY <1>2, CodesLeftAlone DEF AsksSite, Begins, seen, tables
<1>3. ASSUME NEW r \in Request, NEW u \in User, NEW p \in Probe, NEW what, NEW n, NEW s,
             AsksProbe(r, u, p, what, n, s)
      PROVE  UNCHANGED <<Open, Used, gained>>
  BY <1>3, CodesLeftAlone DEF AsksProbe, Begins, seen, tables
<1>4. ASSUME NEW r \in Request, NEW u \in User, NEW sites \in SUBSET Site, AsksScope(r, u, sites)
      PROVE  UNCHANGED <<Open, Used, gained>>
  BY <1>4, CodesLeftAlone DEF AsksScope, Begins, seen, tables
<1>5. ASSUME NEW r \in Request, NEW m \in Machine, NEW c \in Code, Presents(r, m, c)
      PROVE  ShortCode!Next
  <2>1. /\ code[c] # None /\ code[c].is = "open" /\ code' = [code EXCEPT ![c].is = "used"]
        /\ gained' = gained
    BY <1>5 DEF Presents, CanBePresented, Consumed, Begins, seen
  <2>2. code[c] \in CodeRow
    BY <2>1 DEF FleetInv, FleetType
  <2>3. /\ code'[c] # None /\ code'[c].is = "used" /\ \A d \in Code \ {c} : code'[d] = code[d]
    BY <2>1, <2>2, FleetAssumption DEF FleetInv, FleetType, CodeRow
  <2>4. c \in Open /\ Open' = Open \ {c} /\ Used' = Used \cup {c}
    BY <2>1, <2>3 DEF Open, Used, CanBePresented
  <2> QED BY <2>1, <2>4 DEF ShortCode!Next, ShortCode!Present, Open, Used
<1>6. ASSUME NEW r \in Request, NEW u \in User, NEW m \in Machine, NEW s \in Site,
             EnrolsByName(r, u, m, s)
      PROVE  UNCHANGED <<Open, Used, gained>>
  BY <1>6, CodesLeftAlone DEF EnrolsByName, Begins, seen, tables
<1>7. ASSUME NEW r \in Request, NEW c \in Code, IssuesCode(r, c)
      PROVE  ShortCode!Next \/ UNCHANGED <<Open, Used, gained>>
  <2>1. code[c] = None /\ gained' = gained
    BY <1>7 DEF IssuesCode
  <2>2. CASE req[r].site \in Sites
    <3>1. InsertsCode(c, req[r].site, None)
      BY <1>7, <2>2 DEF IssuesCode
    <3>2. [site |-> req[r].site, probe |-> None, is |-> "open"] \in CodeRow
      BY <2>2 DEF CodeRow, Sites
    <3>3. [site |-> req[r].site, probe |-> None, is |-> "open"] # None
      BY <3>2, FleetAssumption
    <3> QED BY <2>1, <3>1, <3>3, WrittenIsIssued
  <2>3. CASE req[r].site \notin Sites
    BY <1>7, <2>1, <2>3, CodesLeftAlone DEF IssuesCode
  <2> QED BY <2>2, <2>3
<1>8. ASSUME NEW r \in Request, NEW c \in Code, IssuesRepair(r, c)
      PROVE  ShortCode!Next \/ UNCHANGED <<Open, Used, gained>>
  <2> DEFINE p == req[r].probe
             s == req[r].row.site
  <2>1. code[c] = None /\ gained' = gained /\ At(r, "write repair")
    BY <1>8 DEF IssuesRepair
  <2>2. req[r] # None /\ req[r].at = "write repair"
    BY <2>1 DEF At
  <2>3. p \in Probes
    BY <2>2 DEF FleetInv, ReferencesHold, RequestsKnow, ProbeSteps, Writing
  <2>4. CASE s \in Sites
    <3>1. InsertsCode(c, s, p)
      BY <1>8, <2>4 DEF IssuesRepair
    <3>2. [site |-> s, probe |-> p, is |-> "open"] \in CodeRow
      BY <2>3, <2>4 DEF CodeRow, Sites, Probes
    <3> HIDE DEF s, p
    <3>3. [site |-> s, probe |-> p, is |-> "open"] # None
      BY <3>2, FleetAssumption
    <3> QED BY <2>1, <3>1, <3>3, WrittenIsIssued
  <2>5. CASE s \notin Sites
    BY <1>8, <2>1, <2>5, CodesLeftAlone DEF IssuesRepair
  <2> QED BY <2>4, <2>5
<1>9. ASSUME NEW r \in Request, NEW n \in Name, ChoosesName(r, n)
      PROVE  UNCHANGED <<Open, Used, gained>>
  BY <1>9, CodesLeftAlone DEF ChoosesName, tables, seen
<1>10. ASSUME NEW r \in Request, NEW p \in Probe, InsertsProbe(r, p)
       PROVE  ShortCode!Next \/ UNCHANGED <<Open, Used, gained>>
  <2>1. code' = code /\ At(r, "insert") /\ (Gains(r) \/ gained' = gained)
    BY <1>10 DEF InsertsProbe
  <2>2. CASE gained' = gained
    BY <2>1, <2>2, CodesLeftAlone
  <2>3. CASE Gains(r)
    BY <2>1, <2>3, GainIsGain
  <2> QED BY <2>1, <2>2, <2>3
<1>11. ASSUME NEW r \in Request, Repairs(r)
       PROVE  ShortCode!Next \/ UNCHANGED <<Open, Used, gained>>
  <2>1. code' = code /\ At(r, "repair") /\ Gains(r)
    BY <1>11 DEF Repairs
  <2> QED BY <2>1, GainIsGain
<1>12. ASSUME NEW r \in Request,
              \/ ArchivesSite(r) \/ DeletesSite(r) \/ ReplacesScope(r)
              \/ LooksAtTarget(r) \/ ReadsProbe(r) \/ UpdatesProbe(r)
              \/ ArchivesProbe(r) \/ RevokesProbe(r) \/ MakesSite(r)
       PROVE  UNCHANGED <<Open, Used, gained>>
  <2>1. code' = code /\ gained' = gained
    BY <1>12 DEF ArchivesSite, DeletesSite, ReplacesScope, LooksAtTarget, ReadsProbe, UpdatesProbe,
       ArchivesProbe, RevokesProbe, MakesSite, tables, seen
  <2> QED BY <2>1, CodesLeftAlone
<1>13. ASSUME NEW c \in Code, LapsesCode(c) PROVE ShortCode!Next
  <2>1. /\ code[c] # None /\ code[c].is = "open" /\ code' = [code EXCEPT ![c].is = "late"]
        /\ gained' = gained
    BY <1>13 DEF LapsesCode, CanBePresented, seen
  <2>2. code[c] \in CodeRow
    BY <2>1 DEF FleetInv, FleetType
  <2>3. /\ code'[c] # None /\ code'[c].is = "late" /\ \A d \in Code \ {c} : code'[d] = code[d]
    BY <2>1, <2>2, FleetAssumption DEF FleetInv, FleetType, CodeRow
  <2>4. c \in Open /\ Open' = Open \ {c} /\ Used' = Used
    BY <2>1, <2>3 DEF Open, Used, CanBePresented
  <2> QED BY <2>1, <2>4 DEF ShortCode!Next, ShortCode!Lapse, Open, Used
<1>14. CASE Restarts
  BY <1>14, CodesLeftAlone DEF Restarts, tables, seen
<1>15. CASE UNCHANGED vars
  BY <1>15, CodesLeftAlone DEF vars, tables, seen
<1> QED BY <1>1, <1>2, <1>3, <1>4, <1>5, <1>6, <1>7, <1>8, <1>9, <1>10, <1>11, <1>12, <1>13,
           <1>14, <1>15 DEF Next

-----------------------------------------------------------------------------
(* The theorems.                                                           *)

\* The tables of the fleet, and the requests under way, are what they are meant
\* to be.
THEOREM FleetTypeCorrect == Spec => []FleetType
<1>1. FleetInv => FleetType
  BY DEF FleetInv
<1> QED BY <1>1, FleetInductive, PTL

\* Whatever requests cross, no probe is in a site that is gone, no code is for a
\* site or a probe that is gone, and no scope names a site that is gone: the two
\* refusals of delete_site, and the sites a probe or a scope is given, are enough.
THEOREM NothingDangles == Spec => []ReferencesHold
<1>1. FleetInv => ReferencesHold
  BY DEF FleetInv
<1> QED BY <1>1, FleetInductive, PTL

\* Whatever requests cross, the probes of an archived site are archived, but those
\* put into it since, or brought back while they were moved into it
\* (set_site_archived, set_probe_archived).
THEOREM ProbesFollowTheirSite == Spec => []ProbesFollow
<1>1. FleetInv => ProbesFollow
  BY DEF FleetInv, OrderInv
<1> QED BY <1>1, FleetInductive, PTL

\* Whatever requests cross, what the request of a session writes is in the scope it
\* came with, on both sides of a move (web.rs:3604), unless the very probe it writes
\* was moved since the request was let in.
THEOREM ScopeIsKept == Spec => []WithinScope
<1>1. FleetInv => WithinScope
  BY DEF FleetInv, OrderInv
<1> QED BY <1>1, FleetInductive, PTL

\* An enrolment code is the short code OneUse describes (db.rs:1826).
THEOREM EnrolmentCodeLetsOneIn == Spec => CodeLetsOneIn
<1>1. Init => ShortCode!Init
  BY DEF Init, ShortCode!Init, CanBePresented
<1>2. FleetInv /\ [Next]_vars => [ShortCode!Next]_<<Open, Used, gained>>
  BY CodesStep
<1>3. FleetInv /\ [Next]_vars =>
        [ShortCode!Next]_<<{c \in Code : CanBePresented(c)},
                           {c \in Code : code[c] # None /\ code[c].is = "used"}, gained>>
  BY <1>2 DEF Open, Used
<1> QED BY <1>1, <1>3, FleetInductive, PTL DEF Spec, CodeLetsOneIn, ShortCode!Spec

=============================================================================
