----------------------------- MODULE Availability ----------------------------
(***************************************************************************)
(* What the measures of one target say over a window: the rate of          *)
(* availability and the time nothing measured, computed twice.             *)
(*                                                                         *)
(* The report reads the points themselves, joins them second by second and *)
(* adds up every gap, a gap being a spacing beyond three times the median. *)
(* The card of a probe is refreshed every three seconds and reads four     *)
(* numbers the time series computes: it knows neither the seconds nor the  *)
(* median, and may only say less than the report.                          *)
(*                                                                         *)
(* A history is made of stretches: rounds at one cadence, or nothing while *)
(* the machine sleeps.  Points written by an earlier version carry no      *)
(* verdict, and two loops on one target write twice in a second.           *)
(***************************************************************************)
EXTENDS Integers, SequencesExt

CONSTANTS
  Rounds,        (* numbers of rounds of a stretch                         *)
  Cadence,       (* seconds between two rounds                             *)
  Sleeps,        (* seconds without a round                                *)
  MaxStretches,  (* bound: stretches of a history                          *)
  Nothing        (* no number                                              *)

ASSUME AvailabilityAssumption ==
  Rounds \cup Cadence \cup Sleeps \subseteq Nat \ {0} /\ MaxStretches \in Nat

GapFactor == 3     \* GAP_FACTOR, in sla.rs and in uptime.ts
Majored == 2       \* MEDIANE_MAJOREE_PAR

VARIABLES
  till,       (* the second reached                                        *)
  points,     (* the points of the target, in order: the second, and what  *)
              (* `alive' says, or "silent" without that field              *)
  stretches

measures == <<till, points, stretches>>

AvailabilityInit == till = 0 /\ points = <<>> /\ stretches = 0

Stretch(length, new) ==
  /\ stretches < MaxStretches /\ stretches' = stretches + 1
  /\ till' = till + length /\ points' = points \o new

\* measure_loop: a point at each round, whatever the target answered.
Measures(n, d, says) == Stretch(n * d, [i \in 1..n |-> [at |-> till + (i - 1) * d, says |-> says]])

\* Two loops on one target: their rounds fall in the same second.
MeasuresTwice(n, d) ==
  Stretch(n * d, [i \in 1..(2 * n) |-> [at |-> till + ((i - 1) \div 2) * d,
                                        says |-> IF i % 2 = 0 THEN "down" ELSE "up"]])

Sleep(s) == Stretch(s, <<>>)

AvailabilityNext ==
  \/ \E n \in Rounds, d \in Cadence, says \in {"up", "down", "silent"} : Measures(n, d, says)
  \/ \E n \in Rounds, d \in Cadence : MeasuresTwice(n, d)
  \/ \E s \in Sleeps : Sleep(s)

---------------------------------------------------------------------------
(* The report.                                                             *)

Within(from, to) == SelectSeq(points, LAMBDA p : p.at \in from..to)

Seconds(ps) == {p.at : p \in Range(ps)}

\* samples_from_flux_csv and sla_from_flux_csv: the points of a second are
\* one sample, the last `alive' of the second its verdict.
Verdict(ps, s) ==
  LET said == {k \in DOMAIN ps : ps[k].at = s /\ ps[k].says # "silent"}
  IN IF said = {} THEN "silent" ELSE ps[Max(said)].says

\* compute_sla: the samples that answered, of those that have a verdict.
ReportRate(ps) ==
  [up |-> Cardinality({s \in Seconds(ps) : Verdict(ps, s) = "up"}),
   of |-> Cardinality({s \in Seconds(ps) : Verdict(ps, s) # "silent"})]

\* From each second but the last, the time to the next one.
Steps(times) == [s \in times \ {Max(times)} |-> Min({t \in times : t > s}) - s]

\* The term of rank half the length of the sorted steps.
Median(steps) ==
  CHOOSE m \in Range(steps) :
    LET half == Cardinality(DOMAIN steps) \div 2
    IN /\ Cardinality({s \in DOMAIN steps : steps[s] < m}) <= half
       /\ Cardinality({s \in DOMAIN steps : steps[s] <= m}) > half

AtLeastOne(n) == IF n < 1 THEN 1 ELSE n

\* compute_coverage, the seconds of the window it calls a gap.
ReportGap(ps, from, to) ==
  LET times == Seconds(ps)
      steps == Steps(times)
      median == AtLeastOne(Median(steps))
      Over(d, less) == IF d > GapFactor * median THEN d - less ELSE 0
      gap == SumFunction([s \in DOMAIN steps |-> Over(steps[s], median)])
             + Over(Min(times) - from, 0) + Over(to - Max(times), 0)
  IN IF Cardinality(times) < 2 THEN to - from + 1 ELSE Min({gap, to - from + 1})

---------------------------------------------------------------------------
(* The card.                                                               *)

\* uptime_flux and uptime_from_flux_csv: mean, count, first, last and the
\* largest elapsed of the points that carry a verdict.
Uptime(ps) ==
  LET said == SelectSeq(ps, LAMBDA p : p.says # "silent")
      n == Len(said)
  IN [up |-> Len(SelectSeq(said, LAMBDA p : p.says = "up")), of |-> n,
      first |-> IF n > 0 THEN said[1].at ELSE Nothing,
      last |-> IF n > 0 THEN said[n].at ELSE Nothing,
      hole |-> IF n > 1 THEN Max({said[k + 1].at - said[k].at : k \in 1..(n - 1)}) ELSE Nothing]

\* A slip: the mean taken for the median.
CardGapByTheMean(u, from, to) ==
  LET mean == Max({u.of - 1, u.last - u.first})
      Over(d, less) == IF d * (u.of - 1) > GapFactor * mean THEN d * (u.of - 1) - less ELSE 0
  IN IF u.of < 2 THEN 0
     ELSE Over(u.first - from, 0) + Over(to - u.last, 0) + Over(u.hole, mean)

\* unmeasuredLabel, in seconds and multiplied by u.of - 1, the number of
\* spacings: twice the mean stands for the median, which it is at least.
CardGap(u, from, to) ==
  LET major == Majored * Max({u.of - 1, u.last - u.first})
      Over(d, less) == IF d * (u.of - 1) > GapFactor * major THEN d * (u.of - 1) - less ELSE 0
  IN IF u.of < 2 THEN 0
     ELSE Min({Over(u.first - from, 0) + Over(to - u.last, 0) + Over(u.hole, major),
               (to - from + 1) * (u.of - 1)})

---------------------------------------------------------------------------
(* Properties.                                                             *)

\* Every point has a verdict and a second of its own.
Plain(ps) ==
  /\ \A k \in DOMAIN ps : ps[k].says # "silent"
  /\ Cardinality(Seconds(ps)) = Len(ps)

\* Over any window up to now, the card shows the rate of the report and never
\* announces a longer time without a measure ("un MINORANT, jamais la
\* couverture fine du rapport [...] les deux ecrans ne peuvent pas se
\* contredire", uptime.ts), when every point has a verdict and a second of
\* its own.
CardSaysLess ==
  \A from \in 0..till :
    LET ps == Within(from, till)
        u == Uptime(ps)
        r == ReportRate(ps)
    IN Plain(ps) =>
         /\ u.up = r.up /\ u.of = r.of
         /\ CardGap(u, from, till) <= Max({u.of - 1, 0}) * ReportGap(ps, from, till)
=============================================================================
