------------------------------ MODULE Evaluation ------------------------------
(***************************************************************************)
(* calibration compare: the shadow score of the recorded samples against   *)
(* their outcomes, beside the current score, and whether the candidate may *)
(* be promoted.  A corpus is a set of cells: n samples of one repository   *)
(* that agree in everything the evaluation looks at.                       *)
(***************************************************************************)
EXTENDS Integers, FiniteSets, Functions

CONSTANTS
  Primary,         \* the cohort [horizon, advisory, gate] that may be promoted
  MinBand,         \* samples that each score band needs
  MinRepositories, \* repositories that the cohort needs
  MinClass         \* outcomes of each class that it needs

ScoreBands == <<<<0, 30>>, <<31, 60>>, <<61, 80>>, <<81, 100>>>>

Count(rows) == SumFunction([c \in rows |-> c.n])
IsPositive(c) == c.outcome \in {"regression", "revert", "hotfix"}
Positives(rows) == {c \in rows : IsPositive(c)}
Negatives(rows) == {c \in rows : ~IsPositive(c)}

\* Equal scores share the first rank of their group (for a mutation).
FirstRankSum(rows, model) ==
  SumFunction([v \in {c[model] : c \in rows} |->
    Count(Positives({c \in rows : c[model] = v}))
      * 2 * (1 + Count({c \in rows : c[model] < v}))])

\* computeRocAuc: the ranks are summed over groups of equal scores, in which
\* each sample has the mean rank; twice the sum is a whole number.
positiveRankSum(rows, model) ==
  LET group(v) == {c \in rows : c[model] = v}
      rank(v) == 1 + Count({c \in rows : c[model] < v})
  IN SumFunction([v \in {c[model] : c \in rows} |->
                    Count(Positives(group(v))) * (2 * rank(v) + Count(group(v)) - 1)])

\* Twice the number of pairs that the score puts in the right order; the area is
\* this over twice the number of pairs.
AucPairs(rows, model) ==
  positiveRankSum(rows, model) - Count(Positives(rows)) * (Count(Positives(rows)) + 1)

InBand(rows, model, b) ==
  {c \in rows : ScoreBands[b][1] <= c[model] /\ c[model] <= ScoreBands[b][2]}

bandRatesNondecreasing(rows, model) ==
  LET n(b) == Count(InBand(rows, model, b))
      p(b) == Count(Positives(InBand(rows, model, b)))
  IN /\ \A b \in DOMAIN ScoreBands : n(b) > 0
     /\ \A b \in DOMAIN ScoreBands \ {1} : p(b) * n(b - 1) >= p(b - 1) * n(b)

Missed(rows, model) ==
  Count({c \in Positives(rows) : c[model] < c.cohort.advisory})

\* The first four checks ask for enough data.
EnoughData(rows) ==
  /\ \A b \in DOMAIN ScoreBands : Count(InBand(rows, "shadow", b)) >= MinBand
  /\ Cardinality({c.repository : c \in rows}) >= MinRepositories
  /\ \A r \in {c.repository : c \in rows} :
       10 * Count({c \in rows : c.repository = r}) <= 4 * Count(rows)
  /\ Count(Positives(rows)) >= MinClass /\ Count(Negatives(rows)) >= MinClass

\* In whole numbers.  The code compares quotients and grants 1e-9 for their
\* rounding, which is less than one pair, or one miss, of a corpus below 10^6 pairs.
Improves(rows) ==
  LET p == Count(Positives(rows))
      pairs == p * Count(Negatives(rows))
  IN /\ pairs > 0
     /\ 100 * (AucPairs(rows, "shadow") - AucPairs(rows, "v4")) >= 3 * 2 * pairs
     /\ 100 * (Missed(rows, "shadow") - Missed(rows, "v4")) <= 2 * p
     /\ bandRatesNondecreasing(rows, "shadow")

status(rows, deterministic, attested) ==
  IF ~EnoughData(rows) THEN "insufficient-data"
  ELSE IF Improves(rows) /\ deterministic /\ attested THEN "eligible-for-review"
  ELSE "rejected"

\* A sample takes part when it has an outcome and its horizon has passed.
Complete(corpus, now) == {c \in corpus : c.outcome # "none" /\ c.dueAt <= now}

\* attested: the golden fixtures are in order for both models and the operator
\* vouches for the repository's own tests.
buildComparison(corpus, now, deterministic, attested) ==
  {[cohort |-> k, rows |-> {c \in Complete(corpus, now) : c.cohort = k},
    promotionStatus |->
      IF k = Primary
      THEN status({c \in Complete(corpus, now) : c.cohort = k}, deterministic, attested)
      ELSE "exploratory"] :
     k \in {c.cohort : c \in Complete(corpus, now)}}
=============================================================================
