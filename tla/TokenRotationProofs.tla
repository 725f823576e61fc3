------------------------- MODULE TokenRotationProofs -------------------------
(***************************************************************************)
(* Proofs about TokenRotation, for any number of keys, of requests of the  *)
(* operators, of heartbeats under way and of failures of the service.      *)
(*                                                                         *)
(* As long as rotations come one at a time, a key has one version and a    *)
(* version one key; the probe, and the one answer it waits for, are never  *)
(* ahead of what is staged; and a probe that has not the token of its last *)
(* enrolment settles nothing.  So the key that is destroyed on a heartbeat *)
(* is one that the probe has left.                                         *)
(***************************************************************************)
EXTENDS TokenRotation, TLAPS

ProbeRow == [key : Nat, version : Nat, token : Nat]

TokenType ==
  /\ row \in Row /\ minted \in Nat \ {0} /\ live \subseteq 1..minted
  /\ row.active <= minted /\ row.pending <= minted
  /\ job \in [Job -> JobRow \cup {None}]
  /\ beat \in [Beat -> BeatRow \cup {None}]
  /\ probe \in ProbeRow

\* An enrolment, at one of some steps.
Enrols(j, steps) == job[j] # None /\ job[j].kind = "enroll" /\ job[j].at \in steps

JobKinds ==
  \A j \in Job : job[j] # None =>
    /\ job[j].at = "mint" => job[j].kind # "revoke"
    /\ job[j].at \in {"read", "write"} => job[j].kind \in {"rotate", "replace"}
    /\ job[j].at \in {"clear", "reenroll", "set", "answer"} => job[j].kind = "enroll"
    /\ job[j].seen.active <= minted /\ job[j].key <= minted

\* An enrolment at a time, and an answer at a time that the probe waits for.
OneEnrolment == \A i, j \in Job : Does(i, "enroll") /\ Does(j, "enroll") => i = j
OneAwaited   == \A b, c \in Beat : Awaiting(b) /\ Awaiting(c) => b = c

\* The last version the hub made.
Top == IF row.pver = 0 THEN row.version ELSE row.pver

RowHolds ==
  /\ row.version > 0
  /\ row.pending = 0 <=> row.pver = 0
  /\ row.pver # 0 => row.pver = row.version + 1
  /\ row.pending # 0 => row.pending # row.active /\ row.pending \in live

ProbeHolds ==
  /\ probe.version <= Top /\ probe.token <= row.token
  /\ probe.version = row.pver /\ row.pver # 0 => probe.key = row.pending
  /\ probe.key \in live \cup withdrawn

JobHolds(j) ==
  /\ Holding(j) => /\ job[j].key \in live
                   /\ job[j].key # row.active /\ job[j].key # row.pending
  /\ Enrols(j, {"reenroll", "mint", "set"}) => job[j].seen.active \notin live \ strays
  /\ Enrols(j, {"mint", "set", "answer"}) =>
       probe.token < row.token /\ job[j].seen.token = row.token
  /\ Enrols(j, {"answer"}) => job[j].key \in live \cup withdrawn

KeysApart == \A i, j \in Job : Holding(i) /\ Holding(j) /\ job[i].key = job[j].key => i = j

BeatHolds(b) ==
  /\ beat[b] # None =>
       /\ beat[b].token <= probe.token
       /\ beat[b].token = probe.token => beat[b].version <= probe.version
  /\ BeatAt(b, "settle") =>
       /\ beat[b].seen.token = beat[b].token
       /\ beat[b].seen.pver = beat[b].version /\ beat[b].version # 0
  /\ BeatAt(b, "replied") => beat[b].awaited
  /\ BeatAt(b, "replied") /\ beat[b].pver # 0 =>
       /\ probe.version <= beat[b].pver /\ beat[b].pver <= Top
       /\ beat[b].key \in live \cup withdrawn
       /\ beat[b].pver = row.pver => beat[b].key = row.pending

\* The keys accepted are noted in the row, or held by a request.
Noted == live \ strays \subseteq {row.active, row.pending} \cup {job[j].key : j \in {i \in Job : Holding(i)}}

OrderlyInv ==
  /\ RowHolds /\ ProbeHolds /\ KeysApart /\ Noted
  /\ \A j \in Job : JobHolds(j)
  /\ \A b \in Beat : BeatHolds(b)

TokenInv == TokenType /\ JobKinds /\ OneEnrolment /\ OneAwaited /\ (Orderly => OrderlyInv)

-----------------------------------------------------------------------------
(* Requests and heartbeats under way.                                      *)

\* A request is written, the others stay: what holds whatever crosses.
LEMMA JobWritten ==
  ASSUME TokenInv, NEW j \in Job, NEW new \in JobRow \cup {None},
         job' = [job EXCEPT ![j] = new], beat' = beat,
         minted' \in Nat, minted' >= minted,
         new # None =>
           /\ new.at = "mint" => new.kind # "revoke"
           /\ new.at \in {"read", "write"} => new.kind \in {"rotate", "replace"}
           /\ new.at \in {"clear", "reenroll", "set", "answer"} => new.kind = "enroll"
           /\ new.seen.active <= minted /\ new.key <= minted',
         new # None /\ new.kind = "enroll" =>
           Does(j, "enroll") \/ \A i \in Job : ~Does(i, "enroll")
  PROVE  /\ job' \in [Job -> JobRow \cup {None}] /\ job'[j] = new
         /\ \A q \in Job \ {j} : job'[q] = job[q]
         /\ beat' \in [Beat -> BeatRow \cup {None}]
         /\ JobKinds' /\ OneEnrolment' /\ OneAwaited'
<1>1. /\ job' \in [Job -> JobRow \cup {None}] /\ job'[j] = new
      /\ \A q \in Job \ {j} : job'[q] = job[q]
  BY DEF TokenInv, TokenType
<1>2. beat' \in [Beat -> BeatRow \cup {None}] /\ OneAwaited'
  BY DEF TokenInv, TokenType, OneAwaited, Awaiting
<1>3. JobKinds'
  <2> SUFFICES ASSUME NEW q \in Job, job'[q] # None
               PROVE  /\ job'[q].at = "mint" => job'[q].kind # "revoke"
                      /\ job'[q].at \in {"read", "write"} => job'[q].kind \in {"rotate", "replace"}
                      /\ job'[q].at \in {"clear", "reenroll", "set", "answer"} =>
                           job'[q].kind = "enroll"
                      /\ job'[q].seen.active <= minted' /\ job'[q].key <= minted'
    BY DEF JobKinds
  <2>1. job'[q] \in JobRow /\ job'[q].seen.active \in Nat /\ job'[q].key \in Nat /\ minted \in Nat
    BY <1>1 DEF JobRow, Row, TokenInv, TokenType
  <2>2. CASE q = j
    BY <1>1, <2>1, <2>2
  <2>3. CASE q # j
    <3>1. job'[q] = job[q]
      BY <1>1, <2>3
    <3> QED BY <2>1, <3>1 DEF TokenInv, JobKinds
  <2> QED BY <2>2, <2>3
<1>4. OneEnrolment'
  <2> SUFFICES ASSUME NEW p \in Job, NEW q \in Job, Does(p, "enroll")', Does(q, "enroll")'
               PROVE  p = q
    BY DEF OneEnrolment
  <2>1. \A i \in Job \ {j} : Does(i, "enroll")' => Does(i, "enroll")
    BY <1>1 DEF Does
  <2>2. Does(j, "enroll")' => Does(j, "enroll") \/ \A i \in Job : ~Does(i, "enroll")
    BY <1>1 DEF Does
  <2> QED BY <2>1, <2>2 DEF TokenInv, OneEnrolment
<1> QED BY <1>1, <1>2, <1>3, <1>4

\* A request moves on or ends, and nothing else does.
LEMMA JobAlone ==
  ASSUME TokenInv, NEW j \in Job, NEW new \in JobRow \cup {None},
         job' = [job EXCEPT ![j] = new], beat' = beat, row' = row, live' = live, probe' = probe,
         minted' = minted, withdrawn' = withdrawn, strays' = strays,
         disorder => ~Orderly',
         new # None =>
           /\ new.at = "mint" => new.kind \in {"rotate", "replace"}
           /\ new.at \in {"read", "write"} => new.kind \in {"rotate", "replace"}
           /\ new.at = "clear" => new.kind = "enroll"
           /\ new.at \notin {"reenroll", "set", "answer"}
           /\ new.seen.active <= minted /\ new.key <= minted',
         new # None /\ new.kind = "enroll" =>
           Does(j, "enroll") \/ \A i \in Job : ~Does(i, "enroll"),
         Holding(j) => new # None /\ new.at \in {"read", "write"} /\ new.key = job[j].key,
         new # None /\ new.at \in {"read", "write"} => Holding(j) /\ new.key = job[j].key
  PROVE  TokenInv'
<1>1. /\ job' \in [Job -> JobRow \cup {None}] /\ job'[j] = new
      /\ \A q \in Job \ {j} : job'[q] = job[q]
      /\ beat' \in [Beat -> BeatRow \cup {None}]
      /\ JobKinds' /\ OneEnrolment' /\ OneAwaited'
  <2>1. minted' \in Nat /\ minted' >= minted
    BY DEF TokenInv, TokenType
  <2> QED BY <2>1, JobWritten
<1>2. TokenType'
  BY <1>1 DEF TokenInv, TokenType
<1>3. ASSUME Orderly' PROVE OrderlyInv'
  <2>1. OrderlyInv
    BY <1>3, Zenon DEF TokenInv, Orderly
  <2>2. RowHolds' /\ ProbeHolds'
    BY <2>1 DEF OrderlyInv, RowHolds, ProbeHolds, Top
  <2>3. \A q \in Job : Holding(q)' <=> Holding(q)
    BY <1>1 DEF Holding
  <2>4. \A q \in Job : Holding(q) => job'[q].key = job[q].key
    BY <1>1
  <2>5. KeysApart'
    BY <2>1, <2>3, <2>4 DEF OrderlyInv, KeysApart
  <2>6. Noted'
    BY <2>1, <2>3, <2>4 DEF OrderlyInv, Noted
  <2>7. \A q \in Job : JobHolds(q)'
    <3>1. JobHolds(j)'
      BY <1>1, <2>1, <2>3, <2>4 DEF OrderlyInv, JobHolds, Enrols
    <3>2. ASSUME NEW q \in Job \ {j} PROVE JobHolds(q)'
      <4>1. job'[q] = job[q] /\ JobHolds(q)
        BY <1>1, <2>1 DEF OrderlyInv
      <4> QED BY <4>1 DEF JobHolds, Enrols, Holding
    <3> QED BY <3>1, <3>2
  <2>8. \A b \in Beat : BeatHolds(b)'
    BY <2>1 DEF OrderlyInv, BeatHolds, BeatAt, Top
  <2> QED BY <2>2, <2>5, <2>6, <2>7, <2>8 DEF OrderlyInv
<1> QED BY <1>1, <1>2, <1>3 DEF TokenInv

\* A heartbeat moves on or ends, and nothing else does.
LEMMA BeatAlone ==
  ASSUME TokenInv, NEW b \in Beat, NEW new \in BeatRow \cup {None},
         beat' = [beat EXCEPT ![b] = new], job' = job, row' = row, live' = live, probe' = probe,
         minted' = minted, withdrawn' = withdrawn, strays' = strays,
         disorder => ~Orderly',
         new # None /\ new.awaited => Awaiting(b) \/ \A c \in Beat : ~Awaiting(c),
         Orderly' /\ new # None =>
           /\ new.token <= probe.token /\ (new.token = probe.token => new.version <= probe.version)
           /\ new.at = "settle" => /\ new.seen.token = new.token
                                   /\ new.seen.pver = new.version /\ new.version # 0
           /\ new.at = "replied" => new.awaited
           /\ new.at = "replied" /\ new.pver # 0 =>
                /\ probe.version <= new.pver /\ new.pver <= Top
                /\ new.key \in live \cup withdrawn
                /\ new.pver = row.pver => new.key = row.pending
  PROVE  TokenInv'
<1>1. /\ beat' \in [Beat -> BeatRow \cup {None}] /\ beat'[b] = new
      /\ \A c \in Beat \ {b} : beat'[c] = beat[c]
  BY DEF TokenInv, TokenType
<1>2. TokenType' /\ JobKinds' /\ OneEnrolment'
  BY <1>1 DEF TokenInv, TokenType, JobKinds, OneEnrolment, Does
<1>3. OneAwaited'
  <2> SUFFICES ASSUME NEW c \in Beat, NEW d \in Beat, Awaiting(c)', Awaiting(d)'
               PROVE  c = d
    BY DEF OneAwaited
  <2>1. \A e \in Beat \ {b} : Awaiting(e)' => Awaiting(e)
    BY <1>1 DEF Awaiting
  <2>2. Awaiting(b)' => Awaiting(b) \/ \A e \in Beat : ~Awaiting(e)
    BY <1>1 DEF Awaiting
  <2> QED BY <2>1, <2>2 DEF TokenInv, OneAwaited
<1>4. ASSUME Orderly' PROVE OrderlyInv'
  <2>1. OrderlyInv
    BY <1>4, Zenon DEF TokenInv, Orderly
  <2>2. RowHolds' /\ ProbeHolds' /\ KeysApart'
    BY <2>1 DEF OrderlyInv, RowHolds, ProbeHolds, Top, KeysApart, Holding
  <2>3. Noted'
    BY <2>1 DEF OrderlyInv, Noted, Holding
  <2>4. \A q \in Job : JobHolds(q)'
    BY <2>1 DEF OrderlyInv, JobHolds, Enrols, Holding
  <2>5. BeatHolds(b)'
    BY <1>1, <1>4 DEF BeatHolds, BeatAt, Top
  <2>6. ASSUME NEW c \in Beat \ {b} PROVE BeatHolds(c)'
    <3>1. beat'[c] = beat[c] /\ BeatHolds(c)
      BY <1>1, <2>1 DEF OrderlyInv
    <3> QED BY <3>1 DEF BeatHolds, BeatAt, Top
  <2> QED BY <2>2, <2>3, <2>4, <2>5, <2>6 DEF OrderlyInv
<1> QED BY <1>2, <1>3, <1>4 DEF TokenInv

-----------------------------------------------------------------------------
(* What a step leaves of the others.                                       *)

\* A request keeps what it has while only the active key is destroyed, and the
\* row takes a key that is not its own.
LEMMA OtherJob ==
  ASSUME TokenInv, OrderlyInv, NEW q \in Job, job'[q] = job[q], NEW k \in Nat,
         row' \in Row, probe' \in ProbeRow,
         \A x \in live : x = row.active \/ x \in live',
         \A x \in live' \ strays' : x \in live \ strays \/ x > minted,
         row'.active \in {row.active, row.pending, 0, k},
         row'.pending \in {row.active, row.pending, 0, k},
         Holding(q) => job[q].key # k,
         Does(q, "enroll") => row'.token = row.token /\ probe'.token = probe.token,
         Enrols(q, {"answer"}) => live \cup withdrawn \subseteq live' \cup withdrawn'
  PROVE  JobHolds(q)'
<1>1. JobHolds(q) /\ live \subseteq 1..minted /\ minted \in Nat
  BY DEF OrderlyInv, TokenInv, TokenType
<1>2. Holding(q)' = Holding(q) /\ \A s : Enrols(q, s)' = Enrols(q, s)
  BY DEF Holding, Enrols
<1>3. ASSUME Holding(q)
      PROVE  /\ job[q].key \in live'
             /\ job[q].key # row'.active /\ job[q].key # row'.pending
  <2>1. job[q].key \in live /\ job[q].key # row.active /\ job[q].key # row.pending
    BY <1>1, <1>3 DEF JobHolds
  <2>2. job[q].key # 0
    BY <1>1, <2>1
  <2> QED BY <1>3, <2>1, <2>2
<1>4. ASSUME Enrols(q, {"reenroll", "mint", "set"}) PROVE job[q].seen.active \notin live' \ strays'
  <2>1. job[q].seen.active \notin live \ strays
    BY <1>1, <1>4 DEF JobHolds
  <2>2. job[q].seen.active <= minted /\ job[q].seen.active \in Nat
    BY <1>4 DEF Enrols, TokenInv, TokenType, JobKinds, JobRow, Row
  <2> QED BY <1>1, <2>1, <2>2
<1>5. Enrols(q, {"mint", "set", "answer"}) =>
        probe'.token < row'.token /\ job[q].seen.token = row'.token
  BY <1>1 DEF JobHolds, Enrols, Does
<1>6. Enrols(q, {"answer"}) => job[q].key \in live' \cup withdrawn'
  BY <1>1 DEF JobHolds
<1> QED BY <1>2, <1>3, <1>4, <1>5, <1>6 DEF JobHolds

\* The heartbeats keep what they have while no key goes that was not withdrawn,
\* and what is staged is further than what was.
LEMMA OtherBeats ==
  ASSUME TokenInv, OrderlyInv, beat' = beat, row' \in Row, probe' \in ProbeRow,
         live \cup withdrawn \subseteq live' \cup withdrawn',
         Top <= Top',
         (row'.pver = row.pver /\ row'.pending = row.pending) \/ row'.pver > Top,
         \/ probe'.version = probe.version /\ probe'.token = probe.token
         \/ probe'.version = 0 /\ probe'.token > probe.token
  PROVE  \A b \in Beat : BeatHolds(b)'
<1> SUFFICES ASSUME NEW b \in Beat PROVE BeatHolds(b)'
  OBVIOUS
<1>1. BeatHolds(b) /\ row \in Row /\ probe \in ProbeRow /\ Top \in Nat /\ Top' \in Nat
      /\ beat[b] \in BeatRow \cup {None}
  BY DEF OrderlyInv, TokenInv, TokenType, Top, Row
<1>2. \A s : BeatAt(b, s)' = BeatAt(b, s)
  BY DEF BeatAt
<1>3. ASSUME beat[b] # None
      PROVE  /\ beat[b].token <= probe'.token
             /\ beat[b].token = probe'.token => beat[b].version <= probe'.version
  <2>1. /\ beat[b].token \in Nat /\ probe.token \in Nat /\ probe'.token \in Nat
        /\ beat[b].token <= probe.token
        /\ beat[b].token = probe.token => beat[b].version <= probe.version
    BY <1>1, <1>3 DEF BeatHolds, BeatRow, ProbeRow
  <2> QED BY <2>1
<1>4. ASSUME BeatAt(b, "replied"), beat[b].pver # 0
      PROVE  /\ probe'.version <= beat[b].pver /\ beat[b].pver <= Top'
             /\ beat[b].key \in live' \cup withdrawn'
             /\ beat[b].pver = row'.pver => beat[b].key = row'.pending
  <2>1. /\ probe.version <= beat[b].pver /\ beat[b].pver <= Top
        /\ beat[b].key \in live \cup withdrawn
        /\ beat[b].pver = row.pver => beat[b].key = row.pending
    BY <1>1, <1>4 DEF BeatHolds
  <2>2. beat[b].pver \in Nat /\ probe'.version \in Nat /\ probe.version \in Nat /\ row'.pver \in Nat
    BY <1>1, <1>4 DEF BeatAt, BeatRow, ProbeRow, Row
  <2> QED BY <1>1, <2>1, <2>2
<1>5. (BeatAt(b, "settle") =>
        /\ beat[b].seen.token = beat[b].token
        /\ beat[b].seen.pver = beat[b].version /\ beat[b].version # 0)
      /\ (BeatAt(b, "replied") => beat[b].awaited)
  BY <1>1 DEF BeatHolds
<1> QED BY <1>2, <1>3, <1>4, <1>5 DEF BeatHolds

\* Destroying a key takes it away, or leaves it as a stray.
LEMMA Destroyed ==
  ASSUME NEW key, Destroys(key)
  PROVE  /\ live' \subseteq live /\ \A x \in live : x = key \/ x \in live'
         /\ strays \subseteq strays' /\ live' \ strays' = (live \ strays) \ {key}
BY DEF Destroys

-----------------------------------------------------------------------------
(* The requests of the operators.                                          *)

\* A request begins with nothing.
LEMMA BeginsKeeps ==
  ASSUME TokenInv, NEW j \in Job, NEW kind \in Kind, Begins(j, kind)
  PROVE  TokenInv'
<1> DEFINE new == [kind |-> kind, at |-> FirstStep(kind), key |-> 0,
                   seen |-> IF kind = "revoke" THEN row ELSE FirstRow]
<1>1. /\ job' = [job EXCEPT ![j] = new] /\ job[j] = None
      /\ kind = "enroll" => \A i \in Job : ~Does(i, "enroll")
      /\ beat' = beat /\ row' = row /\ live' = live /\ probe' = probe /\ minted' = minted
      /\ withdrawn' = withdrawn /\ strays' = strays
  BY DEF Begins, FirstFree, ghosts
<1>2. disorder => ~Orderly'
  <2>1. disorder' = disorder
    BY DEF Begins, ghosts
  <2> QED BY <2>1, Zenon DEF Orderly
<1>3. FirstRow \in Row /\ FirstRow.active = 1 /\ minted >= 1 /\ row \in Row /\ row.active <= minted
  BY DEF FirstRow, Row, TokenInv, TokenType
<1>4. new \in JobRow /\ new.seen.active <= minted
  BY <1>3 DEF JobRow, Kind, FirstStep
<1>5. /\ new.kind = kind /\ new.key <= minted' /\ new.at \in {"mint", "revoke", "clear"}
      /\ new.at = "mint" => kind \in {"rotate", "replace"}
      /\ new.at = "clear" => kind = "enroll"
  BY <1>1, <1>3 DEF FirstStep, Kind, TokenInv, TokenType
<1>6. ~Holding(j)
  BY <1>1 DEF Holding
<1> HIDE DEF new
<1> QED BY <1>1, <1>2, <1>4, <1>5, <1>6, JobAlone

\* The row is read: the key made stays in hand.
LEMMA ReadKeeps ==
  ASSUME TokenInv, NEW j \in Job, ReadsRow(j)
  PROVE  TokenInv'
<1> DEFINE new == [job[j] EXCEPT !.seen = row, !.at = "write"]
<1>1. /\ job[j] \in JobRow /\ job[j] # None /\ job[j].at = "read"
      /\ row \in Row /\ row.active <= minted
  BY DEF ReadsRow, At, TokenInv, TokenType
<1>2. /\ job' = [job EXCEPT ![j] = new]
      /\ beat' = beat /\ row' = row /\ live' = live /\ probe' = probe /\ minted' = minted
      /\ withdrawn' = withdrawn /\ strays' = strays
  BY <1>1 DEF ReadsRow, ghosts, TokenInv, TokenType
<1>3. disorder => ~Orderly'
  <2>1. disorder' = disorder
    BY DEF ReadsRow, ghosts
  <2> QED BY <2>1, Zenon DEF Orderly
<1>4. new \in JobRow /\ new.at = "write" /\ new.key = job[j].key /\ new.kind = job[j].kind
      /\ new.seen = row
  BY <1>1 DEF JobRow
<1>5. new.kind \in {"rotate", "replace"} /\ Holding(j)
  BY <1>1, <1>4 DEF TokenInv, JobKinds, Holding
<1> HIDE DEF new
<1>6. /\ new \in JobRow \cup {None} /\ new.kind # "enroll" /\ new.at # "clear" /\ new.at # "mint"
      /\ new.at \notin {"reenroll", "set", "answer"} /\ new.seen.active <= minted
      /\ new # None /\ new.key <= minted'
  BY <1>1, <1>2, <1>4, <1>5, NothingAssumption DEF TokenInv, JobKinds
<1> QED BY <1>2, <1>3, <1>4, <1>5, <1>6, JobAlone

\* A request that held no key ends.
LEMMA EndKeeps ==
  ASSUME TokenInv, NEW j \in Job, ~Holding(j), Ends(j), beat' = beat, row' = row, live' = live,
         probe' = probe, minted' = minted, UNCHANGED ghosts
  PROVE  TokenInv'
<1>1. /\ job' = [job EXCEPT ![j] = None] /\ withdrawn' = withdrawn /\ strays' = strays
  BY DEF Ends, ghosts
<1>2. disorder => ~Orderly'
  <2>1. disorder' = disorder
    BY DEF ghosts
  <2> QED BY <2>1, Zenon DEF Orderly
<1>3. None \in JobRow \cup {None}
  OBVIOUS
<1> QED BY <1>1, <1>2, <1>3, JobAlone

\* A request ends by a failure: the key it made, if it has one, becomes a stray.
LEMMA FailureKeeps ==
  ASSUME TokenInv, NEW j \in Job, Ends(j), beat' = beat, row' = row, probe' = probe,
         withdrawn' = withdrawn, disorder' = disorder,
         minted' \in Nat, minted' >= minted, live \subseteq live',
         \A x \in live' : x \in live \/ x = minted',
         \A x \in live' \ strays' : x \in live \ strays,
         Holding(j) => job[j].key \in strays'
  PROVE  TokenInv'
<1>1. /\ job' \in [Job -> JobRow \cup {None}] /\ job'[j] = None
      /\ \A q \in Job \ {j} : job'[q] = job[q]
      /\ beat' \in [Beat -> BeatRow \cup {None}]
      /\ JobKinds' /\ OneEnrolment' /\ OneAwaited'
  <2>1. job' = [job EXCEPT ![j] = None] /\ None \in JobRow \cup {None}
    BY DEF Ends
  <2> QED BY <2>1, JobWritten
<1>2. TokenType'
  BY <1>1 DEF TokenInv, TokenType, Row
<1>3. ASSUME Orderly' PROVE OrderlyInv'
  <2>1. OrderlyInv
    BY <1>3, Zenon DEF TokenInv, Orderly
  <2>2. RowHolds' /\ ProbeHolds'
    BY <2>1 DEF OrderlyInv, RowHolds, ProbeHolds, Top
  <2>3. ~Holding(j)' /\ \A q \in Job \ {j} : Holding(q)' <=> Holding(q)
    BY <1>1 DEF Holding
  <2>4. KeysApart'
    BY <1>1, <2>1, <2>3 DEF OrderlyInv, KeysApart
  <2>5. Noted'
    BY <1>1, <2>1, <2>3 DEF OrderlyInv, Noted
  <2>6. /\ row' \in Row /\ probe' \in ProbeRow /\ 0 \in Nat
        /\ row'.token = row.token /\ probe'.token = probe.token
        /\ \A x \in live : x = row.active \/ x \in live'
        /\ \A x \in live' \ strays' : x \in live \ strays \/ x > minted
        /\ row'.active \in {row.active, row.pending, 0}
        /\ row'.pending \in {row.active, row.pending, 0}
        /\ live \cup withdrawn \subseteq live' \cup withdrawn'
        /\ row'.pver = row.pver /\ row'.pending = row.pending
        /\ probe'.version = probe.version
    BY DEF TokenInv, TokenType
  <2>9. Top <= Top'
    BY DEF TokenInv, TokenType, Row, Top
  <2>7. ASSUME NEW q \in Job PROVE JobHolds(q)'
    <3>1. CASE q = j
      BY <1>1, <2>3, <3>1 DEF JobHolds, Enrols
    <3>2. CASE q # j
      <4>1. job'[q] = job[q]
        BY <1>1, <3>2
      <4>2. Holding(q) => job[q].key # 0
        BY <2>1 DEF OrderlyInv, JobHolds, TokenInv, TokenType
      <4> QED BY <2>1, <2>6, <4>1, <4>2, OtherJob
    <3> QED BY <3>1, <3>2
  <2>8. \A b \in Beat : BeatHolds(b)'
    BY <2>1, <2>6, <2>9, OtherBeats
  <2> QED BY <2>2, <2>4, <2>5, <2>7, <2>8 DEF OrderlyInv
<1> QED BY <1>1, <1>2, <1>3 DEF TokenInv

\* So does a request that is abandoned.
LEMMA AbandonKeeps ==
  ASSUME TokenInv, NEW j \in Job, Abandons(j)
  PROVE  TokenInv'
<1>1. /\ Ends(j) /\ beat' = beat /\ row' = row /\ probe' = probe /\ live' = live
      /\ withdrawn' = withdrawn /\ disorder' = disorder /\ minted' = minted
      /\ strays' = strays \cup IF Holding(j) THEN {job[j].key} ELSE {}
  BY DEF Abandons
<1>2. minted' \in Nat /\ minted' >= minted
  BY <1>1 DEF TokenInv, TokenType
<1> QED BY <1>1, <1>2, FailureKeeps

\* A key made is one that nobody has.
LEMMA MintKeeps ==
  ASSUME TokenInv, NEW j \in Job, Mints(j)
  PROVE  TokenInv'
<1>1. /\ job[j] \in JobRow /\ job[j] # None /\ job[j].at = "mint" /\ ~Holding(j)
      /\ row' = row /\ beat' = beat /\ probe' = probe
      /\ withdrawn' = withdrawn /\ disorder' = disorder /\ minted \in Nat
  BY DEF Mints, At, Holding, TokenInv, TokenType
<1>2. CASE Ends(j) /\ live' = live /\ minted' = minted /\ strays' = strays
  BY <1>1, <1>2, FailureKeeps
<1>3. CASE /\ Ends(j) /\ minted' = minted + 1
           /\ live' = live \cup {minted'} /\ strays' = strays \cup {minted'}
  <2>1. minted' \in Nat /\ minted' >= minted
    BY <1>1, <1>3
  <2> QED BY <1>1, <1>3, <2>1, FailureKeeps
<1>4. CASE /\ minted' = minted + 1 /\ live' = live \cup {minted'} /\ strays' = strays
           /\ job' = [job EXCEPT ![j].key = minted',
                                 ![j].at  = IF Does(j, "enroll") THEN "set" ELSE "read"]
  <2> DEFINE w == IF Does(j, "enroll") THEN "set" ELSE "read"
             k == minted + 1
             new == [job[j] EXCEPT !.key = k, !.at = w]
  <2>1. minted \in Nat \ {0}
    BY DEF TokenInv, TokenType
  <2>2. live' = live \cup {k} /\ strays' = strays
    BY <1>4
  <2>3. job' = [job EXCEPT ![j] = new]
    <3>1. job' = [job EXCEPT ![j].key = k, ![j].at = w]
      BY <1>4
    <3> HIDE DEF k, w
    <3> QED BY <1>1, <3>1 DEF TokenInv, TokenType
  <2>4. /\ new \in JobRow /\ new.at = w /\ new.key = k /\ new.kind = job[j].kind
        /\ new.seen = job[j].seen
    <3>1. k \in Nat /\ w \in {"set", "read"}
      BY <2>1
    <3> HIDE DEF k, w
    <3> QED BY <1>1, <3>1 DEF JobRow
  <2>5. job[j].kind # "revoke" /\ job[j].seen.active <= minted
    BY <1>1 DEF TokenInv, JobKinds
  <2>6. /\ w = "set" => new.kind = "enroll"
        /\ w = "read" => new.kind \in {"rotate", "replace"}
        /\ new.kind = "enroll" => Does(j, "enroll")
        /\ w \in {"set", "read"}
    BY <1>1, <2>4, <2>5 DEF Does, JobRow, Kind
  <2> HIDE DEF new, w, k
  <2>7. /\ job' \in [Job -> JobRow \cup {None}] /\ job'[j] = new
        /\ \A q \in Job \ {j} : job'[q] = job[q]
        /\ beat' \in [Beat -> BeatRow \cup {None}]
        /\ JobKinds' /\ OneEnrolment' /\ OneAwaited'
    <3>1. minted' \in Nat /\ minted' >= minted /\ new.key <= minted'
      BY <1>4, <2>1, <2>4 DEF k
    <3> QED BY <1>1, <2>3, <2>4, <2>5, <2>6, <3>1, JobWritten
  <2>8. TokenType'
    BY <1>1, <1>4, <2>1, <2>2, <2>7 DEF TokenInv, TokenType, Row, k
  <2>9. ASSUME Orderly' PROVE OrderlyInv'
    <3>1. OrderlyInv
      BY <1>1, <2>9, Zenon DEF TokenInv, Orderly
    <3>2. live \subseteq 1..minted /\ k \notin live /\ k # 0 /\ k # row.active /\ k # row.pending
          /\ row \in Row /\ probe \in ProbeRow /\ k \in Nat /\ k > minted
      BY <2>1 DEF k, TokenInv, TokenType, Row
    <3>3. RowHolds' /\ ProbeHolds'
      BY <1>1, <2>2, <3>1 DEF OrderlyInv, RowHolds, ProbeHolds, Top
    <3>4. new # None /\ new \in JobRow
      BY <2>4, NothingAssumption
    <3>5. Holding(j)' /\ job'[j].key = k
      BY <2>4, <2>6, <2>7, <3>4 DEF Holding
    <3>6. ASSUME NEW q \in Job \ {j}
          PROVE  /\ job'[q] = job[q] /\ (Holding(q)' <=> Holding(q))
                 /\ Holding(q) => job[q].key # k
      BY <2>7, <3>1, <3>2 DEF Holding, OrderlyInv, JobHolds
    <3>7. KeysApart'
      BY <3>1, <3>5, <3>6 DEF OrderlyInv, KeysApart
    <3>8. Noted'
      BY <1>1, <2>2, <3>1, <3>5, <3>6 DEF OrderlyInv, Noted
    <3>9. JobHolds(j)'
      <4>1. Enrols(j, {"reenroll", "mint", "set"})' => Enrols(j, {"reenroll", "mint", "set"})
        BY <1>1, <2>4, <2>7, <3>4 DEF Enrols
      <4>2. Enrols(j, {"mint", "set", "answer"})' => Enrols(j, {"mint", "set", "answer"})
        BY <1>1, <2>4, <2>7, <3>4 DEF Enrols
      <4>3. ~Enrols(j, {"answer"})'
        BY <2>4, <2>6, <2>7 DEF Enrols
      <4>4. job[j].seen.active # k /\ job'[j].seen = job[j].seen
        BY <1>1, <2>1, <2>4, <2>5, <2>7, <3>2 DEF JobRow, Row
      <4>5. JobHolds(j)
        BY <3>1 DEF OrderlyInv
      <4>6. k \in live' /\ k # row'.active /\ k # row'.pending
        BY <1>1, <2>2, <3>2
      <4>7. Enrols(j, {"reenroll", "mint", "set"})' => job'[j].seen.active \notin live' \ strays'
        BY <1>1, <2>2, <4>1, <4>4, <4>5 DEF JobHolds
      <4>8. Enrols(j, {"mint", "set", "answer"})' =>
              probe'.token < row'.token /\ job'[j].seen.token = row'.token
        BY <1>1, <4>2, <4>4, <4>5 DEF JobHolds
      <4> QED BY <3>5, <4>3, <4>6, <4>7, <4>8 DEF JobHolds
    <3>10. ASSUME NEW q \in Job \ {j} PROVE JobHolds(q)'
      <4>1. /\ row' \in Row /\ probe' \in ProbeRow
            /\ \A x \in live : x = row.active \/ x \in live'
            /\ \A x \in live' \ strays' : x \in live \ strays \/ x > minted
            /\ row'.active \in {row.active, row.pending, 0, k}
            /\ row'.pending \in {row.active, row.pending, 0, k}
            /\ row'.token = row.token /\ probe'.token = probe.token
            /\ live \cup withdrawn \subseteq live' \cup withdrawn'
        BY <1>1, <2>2, <3>2
      <4>2. job'[q] = job[q] /\ (Holding(q) => job[q].key # k)
        BY <3>6
      <4> QED BY <3>1, <3>2, <4>1, <4>2, OtherJob
    <3>11. \A b \in Beat : BeatHolds(b)'
      <4>1. /\ row' \in Row /\ probe' \in ProbeRow
            /\ live \cup withdrawn \subseteq live' \cup withdrawn'
            /\ row'.pver = row.pver /\ row'.pending = row.pending
            /\ probe'.version = probe.version /\ probe'.token = probe.token
        BY <1>1, <2>2, <3>2
      <4>2. Top <= Top'
        BY <1>1, <3>2 DEF Top, Row
      <4> QED BY <1>1, <3>1, <4>1, <4>2, OtherBeats
    <3> QED BY <3>3, <3>7, <3>8, <3>9, <3>10, <3>11 DEF OrderlyInv
  <2> QED BY <2>7, <2>8, <2>9 DEF TokenInv
<1> QED BY <1>2, <1>3, <1>4 DEF Mints

\* A request writes the row, may destroy the active key, and moves on or ends.
LEMMA JobWrites ==
  ASSUME TokenInv, NEW j \in Job, NEW new \in JobRow \cup {None}, NEW k \in Nat,
         job' = [job EXCEPT ![j] = new], beat' = beat, minted' = minted, probe' = probe,
         row' \in Row, row'.active <= minted, row'.pending <= minted, live' \subseteq live,
         disorder => ~Orderly',
         new # None =>
           /\ new.at \in {"mint", "clear", "reenroll", "set", "answer"} => new.kind = "enroll"
           /\ new.seen.active <= minted /\ new.key <= minted,
         new # None /\ new.kind = "enroll" => Does(j, "enroll"),
         new # None => new.at \notin {"read", "write", "set"},
         k = 0 \/ (Holding(j) /\ k = job[j].key),
         Orderly' /\ OrderlyInv =>
           /\ RowHolds' /\ ProbeHolds' /\ Noted' /\ JobHolds(j)'
           /\ \A x \in live : x = row.active \/ x \in live'
           /\ \A x \in live' \ strays' : x \in live \ strays
           /\ row'.active \in {row.active, row.pending, 0, k}
           /\ row'.pending \in {row.active, row.pending, 0, k}
           /\ row'.token = row.token \/ Does(j, "enroll")
           /\ live \cup withdrawn \subseteq live' \cup withdrawn'
           /\ Top <= Top'
           /\ (row'.pver = row.pver /\ row'.pending = row.pending) \/ row'.pver > Top
  PROVE  TokenInv'
<1>1. /\ job' \in [Job -> JobRow \cup {None}] /\ job'[j] = new
      /\ \A q \in Job \ {j} : job'[q] = job[q]
      /\ beat' \in [Beat -> BeatRow \cup {None}]
      /\ JobKinds' /\ OneEnrolment' /\ OneAwaited'
  <2>1. minted' \in Nat /\ minted' >= minted
    BY DEF TokenInv, TokenType
  <2> QED BY <2>1, JobWritten
<1>2. TokenType'
  BY <1>1 DEF TokenInv, TokenType
<1>3. ASSUME Orderly' PROVE OrderlyInv'
  <2>1. OrderlyInv
    BY <1>3, Zenon DEF TokenInv, Orderly
  <2>2. /\ RowHolds' /\ ProbeHolds' /\ Noted' /\ JobHolds(j)'
        /\ \A x \in live : x = row.active \/ x \in live'
        /\ \A x \in live' \ strays' : x \in live \ strays
        /\ row'.active \in {row.active, row.pending, 0, k}
        /\ row'.pending \in {row.active, row.pending, 0, k}
        /\ row'.token = row.token \/ Does(j, "enroll")
        /\ live \cup withdrawn \subseteq live' \cup withdrawn'
        /\ Top <= Top'
        /\ (row'.pver = row.pver /\ row'.pending = row.pending) \/ row'.pver > Top
    BY <1>3, <2>1
  <2>3. ~Holding(j)' /\ \A q \in Job \ {j} : Holding(q)' <=> Holding(q)
    BY <1>1 DEF Holding
  <2>4. KeysApart'
    BY <1>1, <2>1, <2>3 DEF OrderlyInv, KeysApart
  <2>5. ASSUME NEW q \in Job \ {j} PROVE JobHolds(q)'
    <3>1. Holding(q) => job[q].key # k
      <4>1. Holding(q) => job[q].key # 0
        BY <2>1 DEF OrderlyInv, JobHolds, TokenInv, TokenType
      <4> QED BY <2>1, <4>1 DEF OrderlyInv, KeysApart
    <3>2. Does(q, "enroll") => row'.token = row.token /\ probe'.token = probe.token
      BY <2>2 DEF TokenInv, OneEnrolment
    <3>3. probe' \in ProbeRow
      BY DEF TokenInv, TokenType
    <3>4. \A x \in live' \ strays' : x \in live \ strays \/ x > minted
      BY <2>2
    <3> QED BY <1>1, <2>1, <2>2, <3>1, <3>2, <3>3, <3>4, OtherJob
  <2>6. \A b \in Beat : BeatHolds(b)'
    <3>1. probe' \in ProbeRow /\ probe'.version = probe.version /\ probe'.token = probe.token
      BY DEF TokenInv, TokenType
    <3> QED BY <2>1, <2>2, <3>1, OtherBeats
  <2> QED BY <2>2, <2>4, <2>5, <2>6 DEF OrderlyInv
<1> QED BY <1>1, <1>2, <1>3 DEF TokenInv

\* A key staged waits beside the active one.
LEMMA StageKeeps ==
  ASSUME TokenInv, NEW j \in Job, Stages(j)
  PROVE  TokenInv'
<1> DEFINE k == job[j].key
           s == job[j].seen
           d == [row EXCEPT !.pending = k, !.pver = s.version + 1]
<1>1. /\ job[j] \in JobRow /\ job[j] # None /\ job[j].at = "write" /\ job[j].kind = "rotate"
      /\ Holding(j) /\ ~Does(j, "enroll") /\ row \in Row /\ row.active <= minted
  BY DEF Stages, At, Does, Holding, TokenInv, TokenType
<1>2. /\ row' = d /\ job' = [job EXCEPT ![j] = None] /\ beat' = beat /\ minted' = minted
      /\ live' = live /\ probe' = probe /\ withdrawn' = withdrawn /\ strays' = strays
      /\ disorder' = (disorder \/ Crosses(s))
  BY DEF Stages, NextVersion, Ends
<1>3. k \in Nat /\ k <= minted /\ s \in Row
  BY <1>1 DEF JobRow, TokenInv, JobKinds
<1>4. d \in Row /\ d.active = row.active /\ d.pending = k /\ d.version = row.version
      /\ d.pver = s.version + 1 /\ d.token = row.token
  <2>1. s.version + 1 \in Nat
    BY <1>3 DEF Row
  <2> HIDE DEF k, s
  <2> QED BY <1>1, <1>3, <2>1 DEF Row
<1>5. disorder => ~Orderly'
  BY <1>2, Zenon DEF Orderly
<1>6. Orderly' => row = s /\ row.pending = 0
  <2>1. Orderly' => ~Crosses(s)
    BY <1>2, Zenon DEF Orderly
  <2> QED BY <2>1 DEF Crosses
<1> HIDE DEF k, s, d
<1>7. ASSUME Orderly', OrderlyInv
      PROVE  /\ RowHolds' /\ ProbeHolds' /\ Noted' /\ JobHolds(j)'
             /\ row'.pver > Top /\ Top <= Top'
  <2>1. row.pver = 0 /\ row.version > 0 /\ s = row /\ row.version \in Nat /\ row.active \in Nat
    BY <1>1, <1>6, <1>7 DEF OrderlyInv, RowHolds, Row
  <2>2. k \in live /\ k # row.active /\ k # 0
    BY <1>1, <1>7 DEF OrderlyInv, JobHolds, k, TokenInv, TokenType
  <2>3. RowHolds'
    BY <1>2, <1>4, <2>1, <2>2 DEF RowHolds
  <2>4. Top = row.version /\ Top' = row.version + 1 /\ row'.pver = row.version + 1
    BY <1>2, <1>4, <2>1 DEF Top
  <2>5. ProbeHolds'
    <3>1. probe.version <= row.version /\ probe.version \in Nat
      BY <1>7, <2>1, <2>4 DEF OrderlyInv, ProbeHolds, TokenInv, TokenType, ProbeRow
    <3> QED BY <1>2, <1>4, <1>7, <2>1, <2>4, <3>1 DEF OrderlyInv, ProbeHolds
  <2>6. job'[j] = None /\ \A q \in Job \ {j} : job'[q] = job[q]
    BY <1>2 DEF TokenInv, TokenType
  <2>7. Noted'
    <3>1. \A q \in Job : Holding(q) => q = j \/ (Holding(q)' /\ job'[q].key = job[q].key)
      BY <2>6 DEF Holding
    <3>2. row'.active = row.active /\ row'.pending = k /\ row.pending = 0 /\ 0 \notin live
      BY <1>2, <1>4, <1>6, <1>7 DEF TokenInv, TokenType
    <3> QED BY <1>2, <1>7, <3>1, <3>2 DEF OrderlyInv, Noted, k
  <2>8. JobHolds(j)'
    BY <2>6 DEF JobHolds, Holding, Enrols
  <2> QED BY <2>1, <2>3, <2>4, <2>5, <2>7, <2>8
<1>8. /\ row'.active \in {row.active, row.pending, 0, k}
      /\ row'.pending \in {row.active, row.pending, 0, k} /\ row'.token = row.token
      /\ k = 0 \/ (Holding(j) /\ k = job[j].key)
      /\ row' \in Row /\ row'.active <= minted /\ row'.pending <= minted /\ live' \subseteq live
  BY <1>1, <1>2, <1>3, <1>4 DEF k
<1>9. /\ \A x \in live : x = row.active \/ x \in live'
      /\ \A x \in live' \ strays' : x \in live \ strays
      /\ live \cup withdrawn \subseteq live' \cup withdrawn'
  BY <1>2
<1>10. None \in JobRow \cup {None}
  OBVIOUS
<1> QED BY <1>2, <1>3, <1>5, <1>7, <1>8, <1>9, <1>10, JobWrites

\* A key withdrawn at once is not the row's any more.
LEMMA ReplaceKeeps ==
  ASSUME TokenInv, NEW j \in Job, Replaces(j)
  PROVE  TokenInv'
<1> DEFINE k == job[j].key
           s == job[j].seen
           d == [row EXCEPT !.active = 0, !.pending = k, !.pver = s.version + 1]
<1>1. /\ job[j] \in JobRow /\ job[j] # None /\ job[j].at = "write" /\ job[j].kind = "replace"
      /\ Holding(j) /\ ~Does(j, "enroll") /\ row \in Row /\ row.active <= minted
  BY DEF Replaces, At, Does, Holding, TokenInv, TokenType
<1>2. /\ row' = d /\ job' = [job EXCEPT ![j] = None] /\ beat' = beat /\ minted' = minted
      /\ Destroys(s.active) /\ probe' = probe /\ withdrawn' = withdrawn \cup {s.active}
      /\ disorder' = (disorder \/ Crosses(s))
  BY DEF Replaces, NextVersion, Ends
<1>3. k \in Nat /\ k <= minted /\ s \in Row
  BY <1>1 DEF JobRow, TokenInv, JobKinds
<1>4. d \in Row /\ d.active = 0 /\ d.pending = k /\ d.version = row.version
      /\ d.pver = s.version + 1 /\ d.token = row.token
  <2>1. s.version + 1 \in Nat
    BY <1>3 DEF Row
  <2> HIDE DEF k, s
  <2> QED BY <1>1, <1>3, <2>1 DEF Row
<1>5. disorder => ~Orderly'
  BY <1>2, Zenon DEF Orderly
<1>6. Orderly' => row = s /\ row.pending = 0
  <2>1. Orderly' => ~Crosses(s)
    BY <1>2, Zenon DEF Orderly
  <2> QED BY <2>1 DEF Crosses
<1>7. /\ live' \subseteq live /\ \A x \in live : x = s.active \/ x \in live'
      /\ strays \subseteq strays' /\ live' \ strays' = (live \ strays) \ {s.active}
  BY <1>2, Destroyed
<1> HIDE DEF k, s, d
<1>8. ASSUME Orderly', OrderlyInv
      PROVE  /\ RowHolds' /\ ProbeHolds' /\ Noted' /\ JobHolds(j)'
             /\ row'.pver > Top /\ Top <= Top'
  <2>1. row.pver = 0 /\ row.version > 0 /\ s = row /\ row.version \in Nat /\ row.active \in Nat
    BY <1>1, <1>6, <1>8 DEF OrderlyInv, RowHolds, Row
  <2>2. k \in live /\ k # row.active /\ k # 0 /\ k \in live'
    <3>1. k \in live /\ k # row.active /\ k # 0
      BY <1>1, <1>8 DEF OrderlyInv, JobHolds, k, TokenInv, TokenType
    <3> QED BY <1>7, <2>1, <3>1
  <2>3. RowHolds'
    BY <1>2, <1>4, <2>1, <2>2 DEF RowHolds
  <2>4. Top = row.version /\ Top' = row.version + 1 /\ row'.pver = row.version + 1
    BY <1>2, <1>4, <2>1 DEF Top
  <2>5. ProbeHolds'
    <3>1. probe.version <= row.version /\ probe.version \in Nat
      BY <1>8, <2>1, <2>4 DEF OrderlyInv, ProbeHolds, TokenInv, TokenType, ProbeRow
    <3>2. probe.key \in live' \cup withdrawn' /\ probe.token <= row'.token
      BY <1>2, <1>4, <1>7, <1>8 DEF OrderlyInv, ProbeHolds
    <3> QED BY <1>2, <1>4, <2>1, <2>4, <3>1, <3>2 DEF ProbeHolds
  <2>6. job'[j] = None /\ \A q \in Job \ {j} : job'[q] = job[q]
    BY <1>2 DEF TokenInv, TokenType
  <2>7. Noted'
    <3>1. \A q \in Job : Holding(q) => q = j \/ (Holding(q)' /\ job'[q].key = job[q].key)
      BY <2>6 DEF Holding
    <3>2. row'.pending = k /\ row.pending = 0 /\ 0 \notin live /\ s.active = row.active
      BY <1>2, <1>4, <1>6, <1>8 DEF TokenInv, TokenType
    <3> QED BY <1>7, <1>8, <3>1, <3>2 DEF OrderlyInv, Noted, k
  <2>8. JobHolds(j)'
    BY <2>6 DEF JobHolds, Holding, Enrols
  <2> QED BY <2>1, <2>3, <2>4, <2>5, <2>7, <2>8
<1>9. /\ row'.active \in {row.active, row.pending, 0, k}
      /\ row'.pending \in {row.active, row.pending, 0, k} /\ row'.token = row.token
      /\ k = 0 \/ (Holding(j) /\ k = job[j].key)
      /\ row' \in Row /\ row'.active <= minted /\ row'.pending <= minted /\ live' \subseteq live
  BY <1>1, <1>2, <1>3, <1>4, <1>7 DEF k, TokenInv, TokenType
<1>10. /\ Orderly' => \A x \in live : x = row.active \/ x \in live'
       /\ \A x \in live' \ strays' : x \in live \ strays
       /\ live \cup withdrawn \subseteq live' \cup withdrawn'
  BY <1>2, <1>6, <1>7
<1>11. None \in JobRow \cup {None}
  OBVIOUS
<1> QED BY <1>2, <1>3, <1>5, <1>8, <1>9, <1>10, <1>11, JobWrites

\* A revocation withdraws the active key.
LEMMA RevokeKeeps ==
  ASSUME TokenInv, NEW j \in Job, Revokes(j)
  PROVE  TokenInv'
<1> DEFINE s == job[j].seen
           d == [row EXCEPT !.revoked = TRUE]
<1>1. /\ job[j] \in JobRow /\ job[j] # None /\ job[j].at = "revoke" /\ ~Holding(j)
      /\ row \in Row /\ row.active <= minted /\ row.pending <= minted
  BY DEF Revokes, At, Holding, TokenInv, TokenType
<1>2. /\ Ends(j) /\ job' = [job EXCEPT ![j] = None] /\ beat' = beat /\ minted' = minted
      /\ probe' = probe
  BY DEF Revokes, Ends
<1>3. CASE row.revoked
  <2>1. row' = row /\ live' = live /\ UNCHANGED ghosts
    BY <1>3 DEF Revokes
  <2> QED BY <1>1, <1>2, <2>1, EndKeeps
<1>4. CASE ~row.revoked
  <2>1. /\ row' = d /\ Destroys(s.active) /\ withdrawn' = withdrawn \cup {s.active}
        /\ disorder' = (disorder \/ row # s)
    BY <1>4 DEF Revokes
  <2>2. disorder => ~Orderly'
    BY <2>1, Zenon DEF Orderly
  <2>3. Orderly' => row = s
    BY <2>1, Zenon DEF Orderly
  <2>4. d \in Row /\ d.active = row.active /\ d.pending = row.pending /\ d.version = row.version
        /\ d.pver = row.pver /\ d.token = row.token
    BY <1>1 DEF Row
  <2>5. /\ live' \subseteq live /\ \A x \in live : x = s.active \/ x \in live'
        /\ strays \subseteq strays' /\ live' \ strays' = (live \ strays) \ {s.active}
    BY <2>1, Destroyed
  <2> HIDE DEF s, d
  <2>6. Top' = Top
    BY <2>1, <2>4 DEF Top
  <2>7. ASSUME Orderly', OrderlyInv
        PROVE  RowHolds' /\ ProbeHolds' /\ Noted' /\ JobHolds(j)'
    <3>1. RowHolds'
      BY <2>1, <2>3, <2>4, <2>5, <2>7 DEF OrderlyInv, RowHolds
    <3>2. probe.key \in live' \cup withdrawn'
      BY <2>1, <2>5, <2>7 DEF OrderlyInv, ProbeHolds
    <3>3. ProbeHolds'
      BY <1>2, <2>1, <2>4, <2>6, <2>7, <3>2 DEF OrderlyInv, ProbeHolds
    <3>4. job'[j] = None /\ \A q \in Job \ {j} : job'[q] = job[q]
      BY <1>2 DEF TokenInv, TokenType
    <3>5. \A q \in Job : Holding(q) => (Holding(q)' /\ job'[q].key = job[q].key)
      BY <1>1, <3>4 DEF Holding
    <3>6. Noted'
      BY <2>1, <2>4, <2>5, <2>7, <3>5 DEF OrderlyInv, Noted
    <3>7. JobHolds(j)'
      BY <3>4 DEF JobHolds, Holding, Enrols
    <3> QED BY <3>1, <3>3, <3>6, <3>7
  <2>8. /\ row'.active \in {row.active, row.pending, 0}
        /\ row'.pending \in {row.active, row.pending, 0} /\ row'.token = row.token
        /\ row' \in Row /\ row'.active <= minted /\ row'.pending <= minted /\ live' \subseteq live
        /\ row'.pver = row.pver /\ row'.pending = row.pending /\ Top <= Top'
        /\ Top \in Nat
    BY <1>1, <2>1, <2>4, <2>5, <2>6 DEF Top, Row
  <2>9. /\ Orderly' => \A x \in live : x = row.active \/ x \in live'
        /\ \A x \in live' \ strays' : x \in live \ strays
        /\ live \cup withdrawn \subseteq live' \cup withdrawn'
    BY <2>1, <2>3, <2>5
  <2>10. None \in JobRow \cup {None} /\ 0 \in Nat
    OBVIOUS
  <2> QED BY <1>2, <2>2, <2>7, <2>8, <2>9, <2>10, JobWrites
<1> QED BY <1>3, <1>4

\* An enrolment first withdraws the active key.
LEMMA ClearKeeps ==
  ASSUME TokenInv, NEW j \in Job, Clears(j)
  PROVE  TokenInv'
<1> DEFINE new == [job[j] EXCEPT !.seen = row, !.at = "reenroll"]
<1>1. /\ job[j] \in JobRow /\ job[j] # None /\ job[j].at = "clear" /\ ~Holding(j)
      /\ job[j].kind = "enroll" /\ job[j].key <= minted
      /\ row \in Row /\ row.active <= minted /\ row.pending <= minted
  BY DEF Clears, At, Holding, TokenInv, TokenType, JobKinds
<1>2. /\ beat' = beat /\ minted' = minted /\ probe' = probe /\ row' = row /\ Destroys(row.active)
      /\ withdrawn' = withdrawn \cup {row.active}
  BY DEF Clears
<1>3. job' = [job EXCEPT ![j] = new]
  BY <1>1 DEF Clears, TokenInv, TokenType
<1>4. disorder => ~Orderly'
  <2>1. disorder' = disorder
    BY DEF Clears
  <2> QED BY <2>1, Zenon DEF Orderly
<1>5. new \in JobRow /\ new.at = "reenroll" /\ new.seen = row /\ new.kind = "enroll"
      /\ new.key = job[j].key
  BY <1>1 DEF JobRow
<1>6. /\ live' \subseteq live /\ \A x \in live : x = row.active \/ x \in live'
      /\ strays \subseteq strays' /\ live' \ strays' = (live \ strays) \ {row.active}
  BY <1>2, Destroyed
<1> HIDE DEF new
<1>7. Top' = Top /\ Top \in Nat
  BY <1>1, <1>2 DEF Top, Row
<1>8. ASSUME Orderly', OrderlyInv
      PROVE  RowHolds' /\ ProbeHolds' /\ Noted' /\ JobHolds(j)'
  <2>1. RowHolds'
    BY <1>2, <1>6, <1>8 DEF OrderlyInv, RowHolds
  <2>2. probe.key \in live' \cup withdrawn'
    BY <1>2, <1>6, <1>8 DEF OrderlyInv, ProbeHolds
  <2>3. ProbeHolds'
    BY <1>2, <1>7, <1>8, <2>2 DEF OrderlyInv, ProbeHolds
  <2>4. job'[j] = new /\ \A q \in Job \ {j} : job'[q] = job[q]
    BY <1>3 DEF TokenInv, TokenType
  <2>5. \A q \in Job : Holding(q) => (Holding(q)' /\ job'[q].key = job[q].key)
    BY <1>1, <2>4 DEF Holding
  <2>6. Noted'
    BY <1>2, <1>6, <1>8, <2>5 DEF OrderlyInv, Noted
  <2>7. JobHolds(j)'
    BY <1>5, <1>6, <2>4 DEF JobHolds, Holding, Enrols
  <2> QED BY <2>1, <2>3, <2>6, <2>7
<1>9. /\ row'.active \in {row.active, row.pending, 0}
      /\ row'.pending \in {row.active, row.pending, 0} /\ row'.token = row.token
      /\ row' \in Row /\ row'.active <= minted /\ row'.pending <= minted
      /\ row'.pver = row.pver /\ row'.pending = row.pending /\ Top <= Top'
  BY <1>1, <1>2, <1>7
<1>10. /\ \A x \in live' \ strays' : x \in live \ strays
       /\ live \cup withdrawn \subseteq live' \cup withdrawn'
  BY <1>2, <1>6
<1>11. new \in JobRow \cup {None} /\ 0 \in Nat /\ Does(j, "enroll")
       /\ new.seen.active <= minted /\ new.key <= minted
  BY <1>1, <1>5 DEF Does
<1> QED BY <1>2, <1>3, <1>4, <1>5, <1>6, <1>8, <1>9, <1>10, <1>11, JobWrites

\* It gives the probe a token that no probe has.
LEMMA ReenrollKeeps ==
  ASSUME TokenInv, NEW j \in Job, Reenrolls(j)
  PROVE  TokenInv'
<1> DEFINE s == job[j].seen
           d == [row EXCEPT !.token = row.token + 1, !.revoked = FALSE]
           new == [job[j] EXCEPT !.seen = d, !.at = "mint"]
<1>1. /\ job[j] \in JobRow /\ job[j] # None /\ job[j].at = "reenroll" /\ ~Holding(j)
      /\ job[j].kind = "enroll" /\ job[j].key <= minted
      /\ row \in Row /\ row.active <= minted /\ row.pending <= minted
  BY DEF Reenrolls, At, Holding, TokenInv, TokenType, JobKinds
<1>2. /\ beat' = beat /\ minted' = minted /\ probe' = probe /\ row' = d /\ live' = live
      /\ withdrawn' = withdrawn /\ strays' = strays /\ disorder' = (disorder \/ row # s)
  BY DEF Reenrolls
<1>3. job' = [job EXCEPT ![j] = new]
  <2>1. job' = [job EXCEPT ![j].seen = d, ![j].at = "mint"]
    BY <1>2 DEF Reenrolls
  <2> HIDE DEF d
  <2> QED BY <1>1, <2>1 DEF TokenInv, TokenType
<1>4. d \in Row /\ d.active = row.active /\ d.pending = row.pending /\ d.version = row.version
      /\ d.pver = row.pver /\ d.token = row.token + 1 /\ row.token \in Nat
  <2>1. row.token \in Nat /\ row.token + 1 \in Nat
    BY <1>1 DEF Row
  <2> DEFINE t == row.token + 1
  <2> HIDE DEF t
  <2>2. d = [row EXCEPT !.token = t, !.revoked = FALSE] /\ t \in Nat
    BY <2>1 DEF t
  <2> HIDE DEF d
  <2>3. d \in Row /\ d.active = row.active /\ d.pending = row.pending /\ d.version = row.version
        /\ d.pver = row.pver /\ d.token = t
    BY <1>1, <2>2 DEF Row
  <2> QED BY <2>1, <2>3 DEF t
<1> HIDE DEF d
<1>5. new \in JobRow /\ new.at = "mint" /\ new.seen = d /\ new.kind = "enroll"
      /\ new.key = job[j].key
  BY <1>1, <1>4 DEF JobRow
<1> HIDE DEF new, s
<1>6. disorder => ~Orderly'
  BY <1>2, Zenon DEF Orderly
<1>7. Orderly' => row = s
  BY <1>2, Zenon DEF Orderly
<1>8. Top' = Top /\ Top \in Nat
  BY <1>1, <1>2, <1>4 DEF Top, Row
<1>9. ASSUME Orderly', OrderlyInv
      PROVE  RowHolds' /\ ProbeHolds' /\ Noted' /\ JobHolds(j)'
  <2>1. RowHolds'
    BY <1>2, <1>4, <1>9 DEF OrderlyInv, RowHolds
  <2>2. probe.token <= row.token /\ probe.token \in Nat
    BY <1>9 DEF OrderlyInv, ProbeHolds, TokenInv, TokenType, ProbeRow
  <2>3. ProbeHolds'
    BY <1>2, <1>4, <1>8, <1>9, <2>2 DEF OrderlyInv, ProbeHolds
  <2>4. job'[j] = new /\ \A q \in Job \ {j} : job'[q] = job[q]
    BY <1>3 DEF TokenInv, TokenType
  <2>5. \A q \in Job : Holding(q) => (Holding(q)' /\ job'[q].key = job[q].key)
    BY <1>1, <2>4 DEF Holding
  <2>6. Noted'
    BY <1>2, <1>4, <1>9, <2>5 DEF OrderlyInv, Noted
  <2>7. JobHolds(j)'
    <3>1. row.active \notin live \ strays
      <4>1. Enrols(j, {"reenroll", "mint", "set"})
        BY <1>1 DEF Enrols
      <4> QED BY <1>7, <1>9, <4>1 DEF OrderlyInv, JobHolds, s
    <3>2. probe'.token < row'.token /\ new.seen.token = row'.token
      BY <1>2, <1>4, <1>5, <2>2
    <3> QED BY <1>2, <1>4, <1>5, <2>4, <3>1, <3>2 DEF JobHolds, Holding, Enrols
  <2> QED BY <2>1, <2>3, <2>6, <2>7
<1>10. /\ row'.active \in {row.active, row.pending, 0}
       /\ row'.pending \in {row.active, row.pending, 0}
       /\ row' \in Row /\ row'.active <= minted /\ row'.pending <= minted
       /\ row'.pver = row.pver /\ row'.pending = row.pending /\ Top <= Top'
  BY <1>1, <1>2, <1>4, <1>8
<1>11. /\ \A x \in live : x = row.active \/ x \in live'
       /\ \A x \in live' \ strays' : x \in live \ strays
       /\ live \cup withdrawn \subseteq live' \cup withdrawn' /\ live' \subseteq live
  BY <1>2
<1>12. new \in JobRow \cup {None} /\ 0 \in Nat /\ Does(j, "enroll")
       /\ new.seen.active <= minted /\ new.key <= minted
  BY <1>1, <1>4, <1>5 DEF Does
<1> QED BY <1>2, <1>3, <1>5, <1>6, <1>9, <1>10, <1>11, <1>12, JobWrites

\* Then notes the key made for it.
LEMMA SetKeeps ==
  ASSUME TokenInv, NEW j \in Job, Sets(j)
  PROVE  TokenInv'
<1> DEFINE s == job[j].seen
           k == job[j].key
           d == [row EXCEPT !.active = k]
           new == [job[j] EXCEPT !.at = "answer"]
<1>1. /\ job[j] \in JobRow /\ job[j] # None /\ job[j].at = "set" /\ Holding(j)
      /\ job[j].kind = "enroll" /\ k <= minted /\ k \in Nat /\ s.active <= minted
      /\ row \in Row /\ row.active <= minted /\ row.pending <= minted
  BY DEF Sets, At, Holding, TokenInv, TokenType, JobKinds, JobRow
<1>2. /\ beat' = beat /\ minted' = minted /\ probe' = probe /\ row' = d /\ live' = live
      /\ withdrawn' = withdrawn /\ strays' = strays /\ disorder' = (disorder \/ row # s)
  BY DEF Sets
<1>3. job' = [job EXCEPT ![j] = new]
  BY DEF Sets
<1>4. new \in JobRow /\ new.at = "answer" /\ new.seen = s /\ new.kind = "enroll" /\ new.key = k
  BY <1>1 DEF JobRow
<1> HIDE DEF k
<1>5. d \in Row /\ d.active = k /\ d.pending = row.pending /\ d.version = row.version
      /\ d.pver = row.pver /\ d.token = row.token
  BY <1>1 DEF Row
<1> HIDE DEF new, s, d
<1>6. disorder => ~Orderly'
  BY <1>2, Zenon DEF Orderly
<1>7. Orderly' => row = s
  BY <1>2, Zenon DEF Orderly
<1>8. Top' = Top /\ Top \in Nat
  BY <1>1, <1>2, <1>5 DEF Top, Row
<1>9. ASSUME Orderly', OrderlyInv
      PROVE  RowHolds' /\ ProbeHolds' /\ Noted' /\ JobHolds(j)'
  <2>1. k \in live /\ k # row.pending
    BY <1>1, <1>9 DEF OrderlyInv, JobHolds, k
  <2>2. RowHolds'
    BY <1>2, <1>5, <1>9, <2>1 DEF OrderlyInv, RowHolds
  <2>3. ProbeHolds'
    BY <1>2, <1>5, <1>8, <1>9 DEF OrderlyInv, ProbeHolds
  <2>4. job'[j] = new /\ \A q \in Job \ {j} : job'[q] = job[q]
    BY <1>3 DEF TokenInv, TokenType
  <2>5. Enrols(j, {"reenroll", "mint", "set"}) /\ Enrols(j, {"mint", "set", "answer"})
    BY <1>1 DEF Enrols
  <2>6. row.active \notin live \ strays
    BY <1>7, <1>9, <2>5 DEF OrderlyInv, JobHolds, s
  <2>7. Noted'
    <3>1. \A q \in Job : Holding(q) => q = j \/ (Holding(q)' /\ job'[q].key = job[q].key)
      BY <2>4 DEF Holding
    <3> QED BY <1>2, <1>5, <1>9, <2>6, <3>1 DEF OrderlyInv, Noted, k
  <2>8. JobHolds(j)'
    <3>1. probe.token < row.token /\ s.token = row.token
      BY <1>9, <2>5 DEF OrderlyInv, JobHolds, s
    <3> QED BY <1>2, <1>4, <1>5, <2>1, <2>4, <3>1 DEF JobHolds, Holding, Enrols
  <2> QED BY <2>2, <2>3, <2>7, <2>8
<1>10. /\ row'.active \in {row.active, row.pending, 0, k}
       /\ row'.pending \in {row.active, row.pending, 0, k}
       /\ row' \in Row /\ row'.active <= minted /\ row'.pending <= minted
       /\ row'.pver = row.pver /\ row'.pending = row.pending /\ Top <= Top'
  BY <1>1, <1>2, <1>5, <1>8
<1>11. /\ \A x \in live : x = row.active \/ x \in live'
       /\ \A x \in live' \ strays' : x \in live \ strays
       /\ live \cup withdrawn \subseteq live' \cup withdrawn' /\ live' \subseteq live
  BY <1>2
<1>12. new \in JobRow \cup {None} /\ Does(j, "enroll")
       /\ new.seen.active <= minted /\ new.key <= minted /\ k = job[j].key
  BY <1>1, <1>4 DEF Does, k, s
<1> QED BY <1>1, <1>2, <1>3, <1>4, <1>6, <1>9, <1>10, <1>11, <1>12, JobWrites

\* The probe takes the key of its enrolment: no heartbeat has its token yet.
LEMMA EnrolledKeeps ==
  ASSUME TokenInv, NEW j \in Job, Enrolled(j)
  PROVE  TokenInv'
<1>1. /\ job[j] \in JobRow /\ job[j] # None /\ job[j].at = "answer" /\ ~Holding(j)
      /\ job[j].kind = "enroll" /\ job[j].key \in Nat /\ job[j].seen.token \in Nat
      /\ row \in Row /\ probe \in ProbeRow
  BY DEF Enrolled, At, Holding, TokenInv, TokenType, JobKinds, JobRow, Row
<1>2. /\ Ends(j) /\ job' = [job EXCEPT ![j] = None] /\ beat' = beat /\ minted' = minted
      /\ row' = row /\ live' = live /\ UNCHANGED ghosts
  BY DEF Enrolled, Ends
<1>3. CASE probe' = probe
  BY <1>1, <1>2, <1>3, EndKeeps
<1>4. CASE probe' # probe
  <2>1. probe' = [key |-> job[j].key, version |-> 0, token |-> job[j].seen.token]
    BY <1>4 DEF Enrolled
  <2>2. /\ probe' \in ProbeRow /\ probe'.key = job[j].key /\ probe'.version = 0
        /\ probe'.token = job[j].seen.token
    BY <1>1, <2>1 DEF ProbeRow
  <2>3. /\ job' \in [Job -> JobRow \cup {None}] /\ job'[j] = None
        /\ \A q \in Job \ {j} : job'[q] = job[q]
        /\ beat' \in [Beat -> BeatRow \cup {None}]
        /\ JobKinds' /\ OneEnrolment' /\ OneAwaited'
    <3>1. minted' \in Nat /\ minted' >= minted /\ None \in JobRow \cup {None}
      BY <1>2 DEF TokenInv, TokenType
    <3> QED BY <1>2, <3>1, JobWritten
  <2>4. TokenType'
    BY <1>2, <2>2, <2>3 DEF TokenInv, TokenType
  <2>5. ASSUME Orderly' PROVE OrderlyInv'
    <3>1. OrderlyInv
      <4>1. disorder' = disorder
        BY <1>2 DEF ghosts
      <4> QED BY <2>5, <4>1, Zenon DEF TokenInv, Orderly
    <3>2. /\ probe.token < row.token /\ job[j].seen.token = row.token
          /\ job[j].key \in live \cup withdrawn
      <4>1. Enrols(j, {"mint", "set", "answer"}) /\ Enrols(j, {"answer"})
        BY <1>1 DEF Enrols
      <4> QED BY <3>1, <4>1 DEF OrderlyInv, JobHolds
    <3>3. withdrawn' = withdrawn /\ strays' = strays /\ live \subseteq 1..minted
          /\ Top' = Top /\ Top \in Nat /\ row.token \in Nat /\ probe.token \in Nat /\ row.pver \in Nat
      BY <1>1, <1>2 DEF ghosts, TokenInv, TokenType, Top, Row, ProbeRow
    <3>4. RowHolds'
      BY <1>2, <3>1 DEF OrderlyInv, RowHolds
    <3>5. ProbeHolds'
      BY <1>2, <2>2, <3>2, <3>3 DEF ProbeHolds
    <3>6. \A q \in Job : Holding(q)' <=> Holding(q)
      BY <1>1, <2>3 DEF Holding
    <3>7. \A q \in Job : Holding(q) => job'[q].key = job[q].key
      BY <1>1, <2>3
    <3>8. KeysApart'
      BY <3>1, <3>6, <3>7 DEF OrderlyInv, KeysApart
    <3>9. Noted'
      BY <1>2, <3>1, <3>3, <3>6, <3>7 DEF OrderlyInv, Noted
    <3>10. ASSUME NEW q \in Job PROVE JobHolds(q)'
      <4>1. CASE q = j
        BY <2>3, <4>1 DEF JobHolds, Holding, Enrols
      <4>2. CASE q # j
        <5>1. job'[q] = job[q] /\ JobHolds(q)
          BY <2>3, <3>1, <4>2 DEF OrderlyInv
        <5>2. ~Does(q, "enroll")
          BY <1>1, <4>2 DEF TokenInv, OneEnrolment, Does
        <5>3. ~Enrols(q, {"reenroll", "mint", "set"})' /\ ~Enrols(q, {"mint", "set", "answer"})'
              /\ ~Enrols(q, {"answer"})'
          BY <5>1, <5>2 DEF Enrols, Does
        <5> QED BY <1>2, <5>1, <5>3 DEF JobHolds, Holding
      <4> QED BY <4>1, <4>2
    <3>11. \A b \in Beat : BeatHolds(b)'
      <4>1. /\ row' \in Row /\ live \cup withdrawn \subseteq live' \cup withdrawn'
            /\ Top <= Top' /\ row'.pver = row.pver /\ row'.pending = row.pending
            /\ probe'.version = 0 /\ probe'.token > probe.token
        BY <1>1, <1>2, <2>2, <3>2, <3>3
      <4> QED BY <1>2, <2>2, <3>1, <4>1, OtherBeats
    <3> QED BY <3>4, <3>5, <3>8, <3>9, <3>10, <3>11 DEF OrderlyInv
  <2> QED BY <2>3, <2>4, <2>5 DEF TokenInv
<1> QED BY <1>3, <1>4

-----------------------------------------------------------------------------
(* Heartbeats.                                                             *)

\* A heartbeat says what the probe has.
LEMMA SendKeeps ==
  ASSUME TokenInv, NEW b \in Beat, Sends(b)
  PROVE  TokenInv'
<1> DEFINE new == [at |-> "sent", awaited |-> TRUE, version |-> probe.version,
                   token |-> probe.token, seen |-> FirstRow, key |-> 0, pver |-> 0]
<1>1. /\ beat' = [beat EXCEPT ![b] = new] /\ \A c \in Beat : ~Awaiting(c)
      /\ job' = job /\ row' = row /\ live' = live /\ probe' = probe /\ minted' = minted
      /\ withdrawn' = withdrawn /\ strays' = strays
  BY DEF Sends, ghosts
<1>2. disorder => ~Orderly'
  <2>1. disorder' = disorder
    BY DEF Sends, ghosts
  <2> QED BY <2>1, Zenon DEF Orderly
<1>3. new \in BeatRow /\ new.at = "sent" /\ new.token = probe.token /\ new.version = probe.version
      /\ probe.token \in Nat /\ probe.version \in Nat
  BY DEF BeatRow, FirstRow, Row, TokenInv, TokenType, ProbeRow
<1> HIDE DEF new
<1>4. /\ new \in BeatRow \cup {None} /\ new.at # "settle" /\ new.at # "replied"
      /\ new.token <= probe.token /\ new.version <= probe.version
  BY <1>3
<1> QED BY <1>1, <1>2, <1>4, BeatAlone

\* A heartbeat that ends.
LEMMA BeatEndKeeps ==
  ASSUME TokenInv, NEW b \in Beat, BeatEnds(b), job' = job, row' = row, live' = live,
         probe' = probe, minted' = minted, UNCHANGED ghosts
  PROVE  TokenInv'
<1>1. /\ beat' = [beat EXCEPT ![b] = None] /\ withdrawn' = withdrawn /\ strays' = strays
  BY DEF BeatEnds, ghosts
<1>2. disorder => ~Orderly'
  <2>1. disorder' = disorder
    BY DEF ghosts
  <2> QED BY <2>1, Zenon DEF Orderly
<1>3. None \in BeatRow \cup {None}
  OBVIOUS
<1> QED BY <1>1, <1>2, <1>3, BeatAlone

\* A heartbeat is let in, or not.
LEMMA AuthenticateKeeps ==
  ASSUME TokenInv, NEW b \in Beat, Authenticates(b)
  PROVE  TokenInv'
<1>1. /\ beat[b] \in BeatRow /\ beat[b] # None
      /\ job' = job /\ row' = row /\ live' = live /\ probe' = probe /\ minted' = minted
      /\ withdrawn' = withdrawn /\ strays' = strays /\ UNCHANGED ghosts
  BY DEF Authenticates, BeatAt, ghosts, TokenInv, TokenType
<1>2. CASE row.revoked \/ beat[b].token # row.token
  BY <1>1, <1>2, BeatEndKeeps DEF Authenticates
<1>3. CASE ~(row.revoked \/ beat[b].token # row.token)
  <2> DEFINE new == [beat[b] EXCEPT !.at = "read"]
  <2>1. beat' = [beat EXCEPT ![b] = new]
    BY <1>3 DEF Authenticates
  <2>2. new \in BeatRow /\ new.at = "read" /\ new.token = beat[b].token
        /\ new.version = beat[b].version /\ new.awaited = beat[b].awaited
    BY <1>1 DEF BeatRow
  <2> HIDE DEF new
  <2>3. disorder => ~Orderly'
    <3>1. disorder' = disorder
      BY <1>1 DEF ghosts
    <3> QED BY <3>1, Zenon DEF Orderly
  <2>4. new.awaited => Awaiting(b)
    BY <1>1, <2>2 DEF Awaiting
  <2>5. Orderly' => /\ new.token <= probe.token
                    /\ new.token = probe.token => new.version <= probe.version
    <3>1. Orderly' => OrderlyInv
      BY <2>3, Zenon DEF TokenInv, Orderly
    <3> QED BY <1>1, <2>2, <3>1 DEF OrderlyInv, BeatHolds
  <2> QED BY <1>1, <2>1, <2>2, <2>3, <2>4, <2>5, BeatAlone
<1> QED BY <1>2, <1>3

\* A heartbeat that settles a rotation has the token of the row.
LEMMA VersionKeeps ==
  ASSUME TokenInv, NEW b \in Beat, ReadsVersion(b)
  PROVE  TokenInv'
<1>1. /\ beat[b] \in BeatRow /\ beat[b] # None /\ row \in Row
      /\ job' = job /\ row' = row /\ live' = live /\ probe' = probe /\ minted' = minted
      /\ withdrawn' = withdrawn /\ strays' = strays
      /\ disorder' = (disorder \/ beat[b].token # row.token)
  BY DEF ReadsVersion, BeatAt, TokenInv, TokenType
<1>2. disorder => ~Orderly'
  BY <1>1, Zenon DEF Orderly
<1>3. Orderly' => beat[b].token = row.token
  BY <1>1, Zenon DEF Orderly
<1>4. Orderly' => /\ beat[b].token <= probe.token
                  /\ beat[b].token = probe.token => beat[b].version <= probe.version
  <2>1. Orderly' => OrderlyInv
    BY <1>2, Zenon DEF TokenInv, Orderly
  <2> QED BY <1>1, <2>1 DEF OrderlyInv, BeatHolds
<1>5. CASE Settles(beat[b].version)
  <2> DEFINE new == [beat[b] EXCEPT !.seen = row, !.at = "settle"]
  <2>1. beat' = [beat EXCEPT ![b] = new]
    BY <1>1, <1>5 DEF ReadsVersion, TokenInv, TokenType
  <2>2. new \in BeatRow /\ new.at = "settle" /\ new.token = beat[b].token /\ new.seen = row
        /\ new.version = beat[b].version /\ new.awaited = beat[b].awaited
    BY <1>1 DEF BeatRow
  <2> HIDE DEF new
  <2>3. row.pver = new.version /\ new.version # 0
    BY <1>5, <2>2 DEF Settles
  <2>4. new.awaited => Awaiting(b)
    BY <1>1, <2>2 DEF Awaiting
  <2> QED BY <1>1, <1>2, <1>3, <1>4, <2>1, <2>2, <2>3, <2>4, BeatAlone
<1>6. CASE ~Settles(beat[b].version)
  <2> DEFINE new == [beat[b] EXCEPT !.at = "reply"]
  <2>1. beat' = [beat EXCEPT ![b] = new]
    BY <1>1, <1>6 DEF ReadsVersion, TokenInv, TokenType
  <2>2. new \in BeatRow /\ new.at = "reply" /\ new.token = beat[b].token
        /\ new.version = beat[b].version /\ new.awaited = beat[b].awaited
    BY <1>1 DEF BeatRow
  <2> HIDE DEF new
  <2>3. new.awaited => Awaiting(b)
    BY <1>1, <2>2 DEF Awaiting
  <2> QED BY <1>1, <1>2, <1>4, <2>1, <2>2, <2>3, BeatAlone
<1> QED BY <1>5, <1>6

\* An answer has what is staged.
LEMMA ReplyKeeps ==
  ASSUME TokenInv, NEW b \in Beat, Replies(b)
  PROVE  TokenInv'
<1>1. /\ beat[b] \in BeatRow /\ beat[b] # None /\ row \in Row
      /\ job' = job /\ row' = row /\ live' = live /\ probe' = probe /\ minted' = minted
      /\ withdrawn' = withdrawn /\ strays' = strays /\ UNCHANGED ghosts
  BY DEF Replies, BeatAt, ghosts, TokenInv, TokenType
<1>2. CASE ~beat[b].awaited
  BY <1>1, <1>2, BeatEndKeeps DEF Replies
<1>3. CASE beat[b].awaited
  <2> DEFINE new == [beat[b] EXCEPT !.at = "replied", !.key = row.pending, !.pver = row.pver]
  <2>1. beat' = [beat EXCEPT ![b] = new]
    BY <1>1, <1>3 DEF Replies, TokenInv, TokenType
  <2>2. new \in BeatRow /\ new.at = "replied" /\ new.token = beat[b].token /\ new.awaited
        /\ new.version = beat[b].version /\ new.key = row.pending /\ new.pver = row.pver
    BY <1>1, <1>3 DEF BeatRow, Row
  <2> HIDE DEF new
  <2>3. disorder => ~Orderly'
    <3>1. disorder' = disorder
      BY <1>1 DEF ghosts
    <3> QED BY <3>1, Zenon DEF Orderly
  <2>4. Awaiting(b)
    BY <1>1, <1>3 DEF Awaiting
  <2>5. ASSUME Orderly'
        PROVE  /\ new.token <= probe.token
               /\ new.token = probe.token => new.version <= probe.version
               /\ new.pver # 0 => /\ probe.version <= new.pver /\ new.pver <= Top
                                  /\ new.key \in live \cup withdrawn
    <3>1. OrderlyInv
      BY <2>3, <2>5, Zenon DEF TokenInv, Orderly
    <3>2. /\ new.token <= probe.token
          /\ new.token = probe.token => new.version <= probe.version
      BY <1>1, <2>2, <3>1 DEF OrderlyInv, BeatHolds
    <3>3. row.pver # 0 => /\ probe.version <= row.pver /\ row.pver <= Top
                          /\ row.pending \in live
      BY <1>1, <3>1 DEF OrderlyInv, RowHolds, ProbeHolds, Top, Row
    <3> QED BY <2>2, <3>2, <3>3
  <2> QED BY <1>1, <2>1, <2>2, <2>3, <2>4, <2>5, BeatAlone
<1> QED BY <1>2, <1>3

\* A heartbeat the probe gives up may still be handled.
LEMMA GiveUpKeeps ==
  ASSUME TokenInv, NEW b \in Beat, GivesUp(b)
  PROVE  TokenInv'
<1>1. /\ beat[b] \in BeatRow /\ beat[b] # None
      /\ job' = job /\ row' = row /\ live' = live /\ probe' = probe /\ minted' = minted
      /\ withdrawn' = withdrawn /\ strays' = strays /\ UNCHANGED ghosts
  BY DEF GivesUp, Awaiting, ghosts, TokenInv, TokenType
<1>2. CASE beat[b].at = "replied"
  BY <1>1, <1>2, BeatEndKeeps DEF GivesUp
<1>3. CASE beat[b].at # "replied"
  <2> DEFINE new == [beat[b] EXCEPT !.awaited = FALSE]
  <2>1. beat' = [beat EXCEPT ![b] = new]
    BY <1>3 DEF GivesUp
  <2>2. new \in BeatRow /\ new.at = beat[b].at /\ new.token = beat[b].token
        /\ new.version = beat[b].version /\ ~new.awaited /\ new.seen = beat[b].seen
    BY <1>1 DEF BeatRow
  <2> HIDE DEF new
  <2>3. disorder => ~Orderly'
    <3>1. disorder' = disorder
      BY <1>1 DEF ghosts
    <3> QED BY <3>1, Zenon DEF Orderly
  <2>4. Orderly' => /\ new.token <= probe.token
                    /\ new.token = probe.token => new.version <= probe.version
                    /\ new.at = "settle" => /\ new.seen.token = new.token
                                            /\ new.seen.pver = new.version /\ new.version # 0
    <3>1. Orderly' => OrderlyInv
      BY <2>3, Zenon DEF TokenInv, Orderly
    <3> QED BY <1>1, <2>2, <3>1 DEF OrderlyInv, BeatHolds, BeatAt
  <2> QED BY <1>1, <1>3, <2>1, <2>2, <2>3, <2>4, BeatAlone
<1> QED BY <1>2, <1>3

\* The probe takes a key that is staged, or was, and waits for no other answer.
LEMMA ApplyKeeps ==
  ASSUME TokenInv, NEW b \in Beat, Applies(b)
  PROVE  TokenInv'
<1>1. /\ beat[b] \in BeatRow /\ beat[b] # None /\ BeatAt(b, "replied") /\ BeatEnds(b)
      /\ row \in Row /\ probe \in ProbeRow
      /\ job' = job /\ row' = row /\ live' = live /\ minted' = minted
      /\ withdrawn' = withdrawn /\ strays' = strays /\ UNCHANGED ghosts
  BY DEF Applies, BeatAt, ghosts, TokenInv, TokenType
<1>2. CASE ~IsNewer(beat[b].pver)
  BY <1>1, <1>2, BeatEndKeeps DEF Applies
<1>3. CASE IsNewer(beat[b].pver)
  <2> DEFINE v == beat[b].pver
             k == beat[b].key
             new == [probe EXCEPT !.key = k, !.version = v]
  <2>1. probe' = new /\ v > probe.version /\ v \in Nat /\ k \in Nat
    BY <1>1, <1>3 DEF Applies, IsNewer, BeatRow
  <2> HIDE DEF v, k
  <2>2. probe' \in ProbeRow /\ probe'.key = k /\ probe'.version = v /\ probe'.token = probe.token
        /\ probe.version \in Nat /\ probe.token \in Nat
    BY <1>1, <2>1 DEF ProbeRow
  <2> HIDE DEF new
  <2>3. /\ beat' \in [Beat -> BeatRow \cup {None}] /\ beat'[b] = None
        /\ \A c \in Beat \ {b} : beat'[c] = beat[c]
    BY <1>1 DEF BeatEnds, TokenInv, TokenType
  <2>4. TokenType' /\ JobKinds' /\ OneEnrolment'
    BY <1>1, <2>2, <2>3 DEF TokenInv, TokenType, JobKinds, OneEnrolment, Does
  <2>5. OneAwaited'
    <3>1. \A c \in Beat : Awaiting(c)' => Awaiting(c)
      BY <2>3 DEF Awaiting
    <3> QED BY <3>1 DEF TokenInv, OneAwaited
  <2>6. ASSUME Orderly' PROVE OrderlyInv'
    <3>1. OrderlyInv
      <4>1. disorder' = disorder
        BY <1>1 DEF ghosts
      <4> QED BY <2>6, <4>1, Zenon DEF TokenInv, Orderly
    <3>2. RowHolds' /\ KeysApart'
      BY <1>1, <3>1 DEF OrderlyInv, RowHolds, KeysApart, Holding
    <3>3. Noted'
      BY <1>1, <3>1 DEF OrderlyInv, Noted, Holding
    <3>4. \A q \in Job : JobHolds(q)'
      BY <1>1, <2>2, <3>1 DEF OrderlyInv, JobHolds, Enrols, Holding
    <3>5. v # 0 /\ v <= Top /\ k \in live \cup withdrawn /\ (v = row.pver => k = row.pending)
      BY <1>1, <2>1, <2>2, <3>1 DEF OrderlyInv, BeatHolds, v, k
    <3>6. ProbeHolds'
      BY <1>1, <2>2, <3>1, <3>5 DEF OrderlyInv, ProbeHolds, Top
    <3>7. ASSUME NEW c \in Beat PROVE BeatHolds(c)'
      <4>1. CASE c = b
        BY <2>3, <4>1 DEF BeatHolds, BeatAt
      <4>2. CASE c # b
        <5>1. beat'[c] = beat[c] /\ BeatHolds(c) /\ beat[c] \in BeatRow \cup {None}
          BY <2>3, <3>1, <4>2 DEF OrderlyInv, TokenInv, TokenType
        <5>2. ~BeatAt(c, "replied")
          <6>1. Awaiting(b) /\ ~Awaiting(c)
            <7>1. Awaiting(b)
              BY <1>1, <3>1 DEF OrderlyInv, BeatHolds, Awaiting
            <7> QED BY <4>2, <7>1 DEF TokenInv, OneAwaited
          <6> QED BY <5>1, <6>1 DEF BeatHolds, Awaiting, BeatAt
        <5>3. beat[c] # None =>
                /\ beat[c].token <= probe'.token
                /\ beat[c].token = probe'.token => beat[c].version <= probe'.version
          BY <2>1, <2>2, <5>1 DEF BeatHolds, BeatRow
        <5>4. BeatAt(c, "settle") =>
                /\ beat[c].seen.token = beat[c].token
                /\ beat[c].seen.pver = beat[c].version /\ beat[c].version # 0
          BY <5>1 DEF BeatHolds
        <5> QED BY <5>1, <5>2, <5>3, <5>4 DEF BeatHolds, BeatAt
      <4> QED BY <4>1, <4>2
    <3> QED BY <3>2, <3>3, <3>4, <3>6, <3>7 DEF OrderlyInv
  <2> QED BY <2>4, <2>5, <2>6 DEF TokenInv
<1> QED BY <1>2, <1>3

\* What a heartbeat that settles the rotation knows of the probe: it holds the
\* key that becomes active, and no enrolment is under way that has a token.
LEMMA SettledIsHeld ==
  ASSUME TokenInv, OrderlyInv, NEW b \in Beat, BeatAt(b, "settle"), beat[b].seen = row
  PROVE  /\ row.pver # 0 /\ row.pending # 0 /\ row.pver = beat[b].version
         /\ probe.version = row.pver /\ probe.key = row.pending
         /\ \A q \in Job : ~Enrols(q, {"mint", "set", "answer"})
<1>1. /\ beat[b] \in BeatRow /\ beat[b] # None /\ row \in Row /\ probe \in ProbeRow
  BY DEF BeatAt, TokenInv, TokenType
<1>2. /\ row.token = beat[b].token /\ row.pver = beat[b].version /\ row.pver # 0
      /\ beat[b].token <= probe.token
      /\ beat[b].token = probe.token => beat[b].version <= probe.version
  BY <1>1 DEF OrderlyInv, BeatHolds
<1>3. probe.token <= row.token /\ probe.version <= Top
  BY DEF OrderlyInv, ProbeHolds
<1>4. row.token \in Nat /\ probe.token \in Nat /\ probe.version \in Nat /\ row.pver \in Nat
  BY <1>1 DEF Row, ProbeRow
<1>5. probe.token = row.token /\ probe.version = row.pver
  BY <1>2, <1>3, <1>4 DEF Top
<1>6. row.pending # 0 /\ probe.key = row.pending
  BY <1>2, <1>5 DEF OrderlyInv, RowHolds, ProbeHolds
<1>7. \A q \in Job : ~Enrols(q, {"mint", "set", "answer"})
  BY <1>4, <1>5 DEF OrderlyInv, JobHolds
<1> QED BY <1>2, <1>5, <1>6, <1>7

\* The key that becomes active is the one the probe holds; the other goes.
LEMMA PromoteKeeps ==
  ASSUME TokenInv, NEW b \in Beat, Promotes(b)
  PROVE  TokenInv'
<1> DEFINE v == beat[b].version
           a == beat[b].seen.active
           k == row.pending
           d == [row EXCEPT !.active = k, !.version = v, !.pending = 0, !.pver = 0]
           new == [beat[b] EXCEPT !.at = "reply", !.seen = FirstRow]
<1>1. /\ beat[b] \in BeatRow /\ beat[b] # None /\ BeatAt(b, "settle") /\ v \in Nat /\ k \in Nat
      /\ row \in Row /\ probe \in ProbeRow /\ row.pending <= minted /\ minted \in Nat
      /\ job' = job /\ probe' = probe /\ minted' = minted /\ withdrawn' = withdrawn
      /\ row' = d /\ Destroys(a) /\ disorder' = (disorder \/ row # beat[b].seen)
  BY DEF Promotes, BeatAt, TokenInv, TokenType, BeatRow, Row
<1>2. beat' = [beat EXCEPT ![b] = new]
  BY <1>1 DEF Promotes, TokenInv, TokenType
<1>3. new \in BeatRow /\ new.at = "reply" /\ new.token = beat[b].token
      /\ new.version = beat[b].version /\ new.awaited = beat[b].awaited
  BY <1>1 DEF BeatRow, FirstRow, Row
<1> HIDE DEF v, a, new
<1>4. d \in Row /\ d.active = k /\ d.version = v /\ d.pending = 0 /\ d.pver = 0
      /\ d.token = row.token
  <2> HIDE DEF k
  <2> QED BY <1>1 DEF Row
<1> HIDE DEF d
<1>5. /\ live' \subseteq live /\ \A x \in live : x = a \/ x \in live'
      /\ strays \subseteq strays' /\ live' \ strays' = (live \ strays) \ {a}
  BY <1>1, Destroyed
<1>6. /\ beat' \in [Beat -> BeatRow \cup {None}] /\ beat'[b] = new
      /\ \A c \in Beat \ {b} : beat'[c] = beat[c]
  BY <1>2, <1>3 DEF TokenInv, TokenType
<1>7. TokenType' /\ JobKinds' /\ OneEnrolment'
  BY <1>1, <1>4, <1>5, <1>6 DEF TokenInv, TokenType, JobKinds, OneEnrolment, Does
<1>8. OneAwaited'
  <2>1. \A c \in Beat : Awaiting(c)' => Awaiting(c)
    BY <1>1, <1>3, <1>6 DEF Awaiting
  <2> QED BY <2>1 DEF TokenInv, OneAwaited
<1>9. ASSUME Orderly' PROVE OrderlyInv'
  <2>1. OrderlyInv
    BY <1>1, <1>9, Zenon DEF TokenInv, Orderly
  <2>2. beat[b].seen = row
    BY <1>1, <1>9, Zenon DEF Orderly
  <2>3. /\ row.pver # 0 /\ k # 0 /\ row.pver = v /\ a = row.active
        /\ probe.version = row.pver /\ probe.key = k
        /\ \A q \in Job : ~Enrols(q, {"mint", "set", "answer"})
    BY <1>1, <2>1, <2>2, SettledIsHeld DEF v, a
  <2>4. k # row.active /\ k \in live /\ k \in live'
    <3>1. k # row.active /\ k \in live
      BY <2>1, <2>3 DEF OrderlyInv, RowHolds
    <3> QED BY <1>5, <2>3, <3>1
  <2> HIDE DEF k
  <2>5. Top = v /\ Top' = v
    BY <1>1, <1>4, <2>3 DEF Top
  <2>6. RowHolds'
    BY <1>1, <1>4, <2>3 DEF RowHolds
  <2>7. ProbeHolds'
    BY <1>1, <1>4, <2>1, <2>3, <2>4, <2>5 DEF OrderlyInv, ProbeHolds
  <2>8. KeysApart'
    BY <1>1, <2>1 DEF OrderlyInv, KeysApart, Holding
  <2>9. Noted'
    BY <1>1, <1>4, <1>5, <2>1, <2>3 DEF OrderlyInv, Noted, Holding, k
  <2>10. ASSUME NEW q \in Job PROVE JobHolds(q)'
    <3>1. /\ row' \in Row /\ probe' \in ProbeRow /\ job'[q] = job[q] /\ 0 \in Nat
          /\ \A x \in live : x = row.active \/ x \in live'
          /\ \A x \in live' \ strays' : x \in live \ strays \/ x > minted
          /\ row'.active \in {row.active, row.pending, 0}
          /\ row'.pending \in {row.active, row.pending, 0}
          /\ row'.token = row.token /\ probe'.token = probe.token
      BY <1>1, <1>4, <1>5, <2>3 DEF k
    <3>2. Holding(q) => job[q].key # 0
      BY <2>1 DEF OrderlyInv, JobHolds, TokenInv, TokenType
    <3>3. ~Enrols(q, {"answer"})
      BY <2>3 DEF Enrols
    <3> QED BY <2>1, <3>1, <3>2, <3>3, OtherJob
  <2>11. ASSUME NEW c \in Beat PROVE BeatHolds(c)'
    <3>1. BeatHolds(c)
      BY <2>1 DEF OrderlyInv
    <3>2. CASE c = b
      BY <1>1, <1>3, <1>6, <3>1, <3>2 DEF BeatHolds, BeatAt
    <3>3. CASE c # b
      <4>1. beat'[c] = beat[c] /\ beat[c] \in BeatRow \cup {None}
        BY <1>6, <3>3 DEF TokenInv, TokenType
      <4>2. ASSUME BeatAt(c, "replied"), beat[c].pver # 0
            PROVE  /\ probe'.version <= beat[c].pver /\ beat[c].pver <= Top'
                   /\ beat[c].key \in live' \cup withdrawn'
                   /\ beat[c].pver = row'.pver => beat[c].key = row'.pending
        <5>1. /\ probe.version <= beat[c].pver /\ beat[c].pver <= Top
              /\ beat[c].pver = row.pver => beat[c].key = row.pending
          BY <3>1, <4>2 DEF BeatHolds
        <5>2. beat[c].pver \in Nat /\ probe.version = v /\ v \in Nat
          BY <1>1, <2>3, <4>1, <4>2 DEF BeatAt, BeatRow
        <5>3. beat[c].pver = row.pver
          BY <2>3, <2>5, <5>1, <5>2
        <5> QED BY <1>1, <1>4, <2>3, <2>4, <2>5, <5>1, <5>2, <5>3 DEF k
      <4>3. /\ beat[c] # None =>
                 /\ beat[c].token <= probe'.token
                 /\ beat[c].token = probe'.token => beat[c].version <= probe'.version
            /\ BeatAt(c, "settle") =>
                 /\ beat[c].seen.token = beat[c].token
                 /\ beat[c].seen.pver = beat[c].version /\ beat[c].version # 0
            /\ BeatAt(c, "replied") => beat[c].awaited
        BY <1>1, <3>1 DEF BeatHolds
      <4> QED BY <4>1, <4>2, <4>3 DEF BeatHolds, BeatAt
    <3> QED BY <3>2, <3>3
  <2> QED BY <2>6, <2>7, <2>8, <2>9, <2>10, <2>11 DEF OrderlyInv
<1> QED BY <1>7, <1>8, <1>9 DEF TokenInv

-----------------------------------------------------------------------------
(* The invariant.                                                          *)

\* It holds at the start: the probe has its first key and nothing is under way.
LEMMA TokensInitially == ASSUME Init PROVE TokenInv
<1>1. TokenType
  BY DEF Init, TokenType, FirstRow, Row, ProbeRow
<1>2. /\ \A j \in Job : job[j] = None
      /\ \A b \in Beat : beat[b] = None
  BY DEF Init
<1>3. JobKinds /\ OneEnrolment /\ OneAwaited
  BY <1>2 DEF JobKinds, OneEnrolment, OneAwaited, Does, Awaiting
<1>4. RowHolds /\ ProbeHolds /\ KeysApart /\ Noted
  BY <1>2 DEF Init, FirstRow, RowHolds, ProbeHolds, KeysApart, Noted, Holding, Top
<1>5. \A j \in Job : JobHolds(j)
  BY <1>2 DEF JobHolds, Holding, Enrols
<1>6. \A b \in Beat : BeatHolds(b)
  BY <1>2 DEF BeatHolds, BeatAt
<1> QED BY <1>1, <1>3, <1>4, <1>5, <1>6 DEF TokenInv, OrderlyInv

\* Every step keeps it.
LEMMA TokensStep == ASSUME TokenInv, [Next]_vars PROVE TokenInv'
<1>1. ASSUME NEW j \in Job, NEW kind \in Kind, Begins(j, kind) PROVE TokenInv'
  BY <1>1, BeginsKeeps
<1>2. ASSUME NEW j \in Job, Mints(j) PROVE TokenInv'
  BY <1>2, MintKeeps
<1>3. ASSUME NEW j \in Job, ReadsRow(j) PROVE TokenInv'
  BY <1>3, ReadKeeps
<1>4. ASSUME NEW j \in Job, Stages(j) PROVE TokenInv'
  BY <1>4, StageKeeps
<1>5. ASSUME NEW j \in Job, Replaces(j) PROVE TokenInv'
  BY <1>5, ReplaceKeeps
<1>6. ASSUME NEW j \in Job, Revokes(j) PROVE TokenInv'
  BY <1>6, RevokeKeeps
<1>7. ASSUME NEW j \in Job, Clears(j) PROVE TokenInv'
  BY <1>7, ClearKeeps
<1>8. ASSUME NEW j \in Job, Reenrolls(j) PROVE TokenInv'
  BY <1>8, ReenrollKeeps
<1>9. ASSUME NEW j \in Job, Sets(j) PROVE TokenInv'
  BY <1>9, SetKeeps
<1>10. ASSUME NEW j \in Job, Enrolled(j) PROVE TokenInv'
  BY <1>10, EnrolledKeeps
<1>19. ASSUME NEW j \in Job, Abandons(j) PROVE TokenInv'
  BY <1>19, AbandonKeeps
<1>11. ASSUME NEW b \in Beat, Sends(b) PROVE TokenInv'
  BY <1>11, SendKeeps
<1>12. ASSUME NEW b \in Beat, Authenticates(b) PROVE TokenInv'
  BY <1>12, AuthenticateKeeps
<1>13. ASSUME NEW b \in Beat, ReadsVersion(b) PROVE TokenInv'
  BY <1>13, VersionKeeps
<1>14. ASSUME NEW b \in Beat, Promotes(b) PROVE TokenInv'
  BY <1>14, PromoteKeeps
<1>15. ASSUME NEW b \in Beat, Replies(b) PROVE TokenInv'
  BY <1>15, ReplyKeeps
<1>16. ASSUME NEW b \in Beat, Applies(b) PROVE TokenInv'
  BY <1>16, ApplyKeeps
<1>17. ASSUME NEW b \in Beat, GivesUp(b) PROVE TokenInv'
  BY <1>17, GiveUpKeeps
<1>18. CASE UNCHANGED vars
  <2>1. UNCHANGED <<row, live, minted, job, beat, probe, withdrawn, strays>> /\ Orderly' = Orderly
    BY <1>18 DEF vars, ghosts, Orderly
  <2>2. TokenType' /\ JobKinds' /\ OneEnrolment' /\ OneAwaited'
    BY <2>1 DEF TokenInv, TokenType, JobKinds, OneEnrolment, OneAwaited, Does, Awaiting
  <2>3. OrderlyInv' <=> OrderlyInv
    BY <2>1 DEF OrderlyInv, RowHolds, ProbeHolds, KeysApart, Noted, JobHolds, BeatHolds,
                Holding, Enrols, BeatAt, Top
  <2> QED BY <2>1, <2>2, <2>3, Zenon DEF TokenInv
<1> QED BY <1>1, <1>2, <1>3, <1>4, <1>5, <1>6, <1>7, <1>8, <1>9, <1>10, <1>11, <1>12, <1>13,
           <1>14, <1>15, <1>16, <1>17, <1>18, <1>19 DEF Next, JobSteps, BeatSteps

\* So it always holds.
LEMMA TokensInductive == Spec => []TokenInv
<1>1. Init => TokenInv
  BY TokensInitially
<1>2. TokenInv /\ [Next]_vars => TokenInv'
  BY TokensStep
<1> QED BY <1>1, <1>2, PTL DEF Spec

-----------------------------------------------------------------------------
(* What it gives.                                                          *)

\* The rows, requests and heartbeats have their types, and no key is used that
\* the service did not make (mint_write_token).
THEOREM TokensTypeCorrect == Spec => []TokenType
<1>1. TokenInv => TokenType
  BY DEF TokenInv
<1> QED BY <1>1, TokensInductive, PTL

\* No rotation cuts a probe: the key it holds is accepted, unless an operator
\* withdrew it or rotations crossed (stage_token_rotation, acknowledge_token_version).
THEOREM RotationNeverCuts == Spec => []KeyWorks
<1>1. TokenInv => KeyWorks
  BY DEF TokenInv, KeyWorks, OrderlyInv, ProbeHolds
<1> QED BY <1>1, TokensInductive, PTL

\* A key the database accepts is one the hub can still destroy: the row or a
\* request under way names it, unless a failure left it behind, of the call that
\* destroys it (delete_authorization), or of the request that made it, between the
\* service making it and the row naming it (mint_write_token, rotate_token, enroll).
THEOREM NoKeyIsForgotten == Spec => []EveryKeyIsNoted
<1>1. ASSUME TokenInv PROVE EveryKeyIsNoted
  <2>1. {i \in Job : Holding(i)} \subseteq {i \in Job : job[i] # None}
    BY DEF Holding
  <2> QED BY <1>1, <2>1 DEF TokenInv, EveryKeyIsNoted, OrderlyInv, Noted
<1> QED BY <1>1, TokensInductive, PTL

\* A staged key becomes active only when the probe holds it already: the one
\* that is destroyed then is of no use to it (acknowledge_token_version).
THEOREM PromotedKeyIsHeld == Spec => OrderlyPromotedIsHeld
<1>1. ASSUME TokenInv, [Next]_vars, Promotion, ~disorder'
      PROVE  probe.key = row'.active
  <2>1. ASSUME NEW b \in Beat, Promotes(b) PROVE probe.key = row'.active
    <3>1. /\ BeatAt(b, "settle") /\ disorder' = (disorder \/ row # beat[b].seen)
          /\ row' = [row EXCEPT !.active = row.pending, !.version = beat[b].version,
                                !.pending = 0, !.pver = 0]
      BY <2>1 DEF Promotes
    <3>2. row'.active = row.pending
      BY <3>1 DEF TokenInv, TokenType, Row
    <3>3. OrderlyInv /\ beat[b].seen = row
      BY <1>1, <3>1, Zenon DEF TokenInv, Orderly
    <3> QED BY <1>1, <3>1, <3>2, <3>3, SettledIsHeld
  <2>2. ASSUME NEW j \in Job, Stages(j) \/ Replaces(j) PROVE FALSE
    <3>1. row'.pending = job[j].key
      BY <1>1, <2>2 DEF Stages, Replaces, TokenInv, TokenType, Row
    <3>2. Holding(j) /\ (disorder => disorder')
      BY <2>2 DEF Stages, Replaces, At, Holding
    <3>3. OrderlyInv
      BY <1>1, <3>2, Zenon DEF TokenInv, Orderly
    <3>4. job[j].key # 0
      BY <1>1, <3>2, <3>3 DEF OrderlyInv, JobHolds, TokenInv, TokenType
    <3> QED BY <1>1, <3>1, <3>4 DEF Promotion
  <2>3. ASSUME NEW j \in Job, Revokes(j) \/ Reenrolls(j) \/ Sets(j) PROVE row'.pending = row.pending
    BY <1>1, <2>3 DEF Revokes, Reenrolls, Sets, TokenInv, TokenType, Row
  <2>4. ASSUME NEW j \in Job, \/ \E kind \in Kind : Begins(j, kind)
                              \/ Mints(j) \/ ReadsRow(j) \/ Clears(j) \/ Enrolled(j) \/ Abandons(j)
        PROVE  row' = row
    BY <2>4 DEF Begins, Mints, ReadsRow, Clears, Enrolled, Abandons
  <2>5. ASSUME NEW b \in Beat, \/ Sends(b) \/ Authenticates(b) \/ ReadsVersion(b)
                               \/ Replies(b) \/ Applies(b) \/ GivesUp(b)
        PROVE  row' = row
    BY <2>5 DEF Sends, Authenticates, ReadsVersion, Replies, Applies, GivesUp
  <2>6. UNCHANGED vars => row' = row
    BY DEF vars
  <2>7. row'.pending # row.pending
    BY <1>1 DEF Promotion
  <2> QED BY <1>1, <2>1, <2>2, <2>3, <2>4, <2>5, <2>6, <2>7 DEF Next, JobSteps, BeatSteps
<1>2. TokenInv /\ [Next]_vars => [Promotion /\ ~disorder' => probe.key = row'.active]_vars
  BY <1>1
<1> QED BY <1>2, TokensInductive, PTL DEF Spec, OrderlyPromotedIsHeld

=============================================================================
