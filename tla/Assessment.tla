------------------------------ MODULE Assessment ------------------------------
(***************************************************************************)
(* The assessment of a repository from its evidence: axis scores, risk     *)
(* clusters, the repository score and its confidence.  Scores are exact    *)
(* fractions, rounded where the code rounds.                               *)
(***************************************************************************)
EXTENDS Integers, Evidence

CONSTANT NoPolicy  \* of a report in clear, for the redaction policy

\* x / y to the nearest integer, halves up, as Math.round.
Rounded(x, y) == (2 * x + y) \div (2 * y)

Greatest(S) == IF S = {} THEN 0 ELSE Max(S)

\* The k-th largest strength; a strength may occur more than once, so each is
\* paired with what bears it.
NthStrength(strengths, k) ==
  Greatest({x[2] : x \in {y \in strengths : Quantify(strengths, LAMBDA z : z[2] >= y[2]) >= k}})

\* The mean of all strengths, which an added weak one lowers (for a mutation).
MeanStrength(strengths, weights) ==
  IF strengths = {} THEN 0
  ELSE FoldSet(LAMBDA x, sum : sum + 10 * x[2], 0, strengths) \div Cardinality(strengths)

weightedPeak(strengths, weights) ==
  SumFunction([k \in DOMAIN weights |-> weights[k] * NthStrength(strengths, k)])

AxisPeakWeights == <<6, 3, 1>>     \* in tenths
ClusterPeakWeights == <<7, 2, 1>>

semanticRiskStrength == [local |-> 35, module |-> 60, repository |-> 85]

-----------------------------------------------------------------------------
(* What counts: evidence of a signal that some plugin supports, and of it  *)
(* the product paths; findings that name a path and some evidence.         *)

supportedSignals(capabilities) == UNION {c.supported : c \in capabilities}

capabilityApprovedEvidence(d) ==
  {e \in d.evidence : e.signal \in supportedSignals(d.capabilities)}

isScoreEligibleSemanticFinding(f) == f.path # NoFile /\ f.refs # {}

\* Of the items of one signal and path (cycles), the strongest one.
dedupeEvidence(items) ==
  {CHOOSE e \in {x \in items : x.signal = g[1] /\ x.path = g[2]} :
     \A x \in items : x.signal = g[1] /\ x.path = g[2] => x.strength <= e.strength :
     g \in {<<x.signal, x.path>> : x \in items}}

productEvidence(items) == {e \in items : e.role = "product"}

evaluableMechanisms(axis, capabilities) ==
  IF axis = "semantic" THEN {"semantic"}
  ELSE {Mechanism(g) : g \in {h \in supportedSignals(capabilities) : SignalAxis[h] = axis}}

-----------------------------------------------------------------------------
(* Axes: 0.65 peak + 0.25 breadth + 0.1 diversity, where breadth reaches   *)
(* its maximum when half of the product paths are affected.                *)

\* As if breadth could grow beyond its maximum (for a mutation).
UncappedBreadth(affected, total) == 200 * affected

\* In percent of the product paths, of which there are so many in total.
computeBreadth(affected, total) == Min({100 * total, 200 * affected})

scoreAxis(axis, items, findings, productPathCount, evaluable) ==
  LET scored == productEvidence(dedupeEvidence(items))
      peak == weightedPeak({<<e.id, e.strength>> : e \in scored}
                \cup {<<<<"finding", f.fid, {}>>, semanticRiskStrength[f.scope]>> : f \in findings},
                AxisPeakWeights)
      affected == Cardinality({e.path : e \in scored} \cup {f.path : f \in findings})
      n == IF productPathCount = 0 THEN 1 ELSE productPathCount
      breadth == IF productPathCount = 0 THEN 0 ELSE computeBreadth(affected, n)
      observed == {Mechanism(e.signal) : e \in scored}
                    \cup (IF findings = {} THEN {} ELSE {"semantic"})
      m == IF evaluable = {} THEN 1 ELSE Cardinality(evaluable)
      diversity == Cardinality(observed \cap evaluable)
  IN Rounded(65 * peak * n * m + 250 * breadth * m + 10000 * diversity * n, 1000 * n * m)

AxisIds == {"structure", "blast", "verification", "volatility", "semantic"}

\* An axis that no supported signal feeds is left out, and the semantic axis is
\* when no provider answered or a configured one found nothing.
evaluatedAxes(d) ==
  {a \in AxisIds \ {"semantic"} : evaluableMechanisms(a, d.capabilities) # {}}
  \cup (IF d.semantic = "available" /\ d.findings # {} THEN {"semantic"} ELSE {})

axisScores(s, d) ==
  [a \in evaluatedAxes(d) |->
     scoreAxis(a, {e \in capabilityApprovedEvidence(d) : SignalAxis[e.signal] = a},
               IF a = "semantic" THEN {f \in d.findings : isScoreEligibleSemanticFinding(f)}
               ELSE {},
               Cardinality(Products(s)), evaluableMechanisms(a, d.capabilities))]

-----------------------------------------------------------------------------
(* Clusters: the product evidence of one mechanism, split into components  *)
(* of paths that the related paths connect; findings by the paths they     *)
(* rest on.                                                                *)

Related(items) == UNION {{e.path} \X e.related : e \in items}

\* connectedComponents: relations between two paths of the group, both ways.
Links(items) ==
  LET paths == {e.path : e \in items}
  IN {p \in paths \X paths : p \in Related(items) \/ <<p[2], p[1]>> \in Related(items)}

Cluster(mechanism, paths, strengths, ids, signals) ==
  [mechanism |-> mechanism, paths |-> paths, evidenceIds |-> ids,
   score |-> Rounded(weightedPeak(strengths, ClusterPeakWeights), 10),
   confidence |-> Min({100, Rounded(100 * Cardinality(signals), 3)})]

EvidenceClusters(mechanism, items) ==
  {LET component == {e \in items : e.path \in paths}
   IN Cluster(mechanism, paths, {<<e.id, e.strength>> : e \in component},
              {e.id : e \in component}, {e.signal : e \in component}) :
     paths \in {Reach(Links(items), {e.path}) : e \in items}}

\* Only evidence that was approved lends its path to a finding.
findingPaths(approved, f) == {f.path} \cup {e.path : e \in {x \in approved : x.id \in f.refs}}

SemanticClusters(approved, findings) ==
  {LET group == {f \in findings : findingPaths(approved, f) = paths}
   IN [Cluster("semantic", paths,
               {<<f.fid, semanticRiskStrength[f.scope]>> : f \in group},
               UNION {f.refs : f \in group}, {})
        EXCEPT !.confidence = Max({f.confidence : f \in group})] :
     paths \in {findingPaths(approved, f) : f \in findings}}

buildMechanismClusters(approved, findings) ==
  LET items == productEvidence(approved)
  IN (UNION {EvidenceClusters(m, {e \in items : Mechanism(e.signal) = m}) :
               m \in {Mechanism(e.signal) : e \in items}})
     \cup SemanticClusters(approved, findings)

-----------------------------------------------------------------------------
(* The repository: the mean of the evaluated axes and 0.3 of what the      *)
(* worst cluster exceeds it by.                                            *)

scoreRepository(axes, clusters) ==
  LET sum == SumFunction(axes)
      k == Cardinality(DOMAIN axes)
      excess == k * Greatest({c.score : c \in clusters}) - sum
  IN IF k = 0 THEN 0 ELSE Rounded(10 * sum + 3 * Greatest({0, excess}), 10 * k)

\* In hundredths: signal coverage, completeness of the input (in 8000ths) and
\* reliability of the measurement (in 20ths).
computeEvidenceConfidence(s, d) ==
  LET expected == Cardinality(d.capabilities) * Cardinality(DOMAIN SignalAxis)
      covered == FoldSet(LAMBDA c, acc : acc + Cardinality(c.supported), 0, d.capabilities)
      e == IF expected = 0 THEN 1 ELSE expected
      completeness == (IF s.truncated THEN 17 ELSE 20) * Greatest({14, 20 - s.issues})
                        * (IF s.git \/ "volatility" \in evaluatedAxes(d) THEN 20 ELSE 17)
      reliability == CASE d.semantic = "available" -> 20
                       [] d.semantic = "failed" -> 17
                       [] d.semantic = "off" -> 19
  IN Rounded(400000 * (IF expected = 0 THEN 1 ELSE covered)
               + e * (30 * completeness + 8000 * reliability), 8000 * e)

\* assessRisk, up to the parse of the report: identities of findings come from
\* the provider, and two equal ones refuse the whole diagnosis.
assessRisk(s, extracted, answer) ==
  LET d == [evidence |-> extracted.evidence, capabilities |-> extracted.capabilities,
            semantic |-> answer.status, findings |-> ToSet(answer.findings)]
      eligible == {f \in d.findings : isScoreEligibleSemanticFinding(f)}
      axes == axisScores(s, d)
      clusters == buildMechanismClusters(capabilityApprovedEvidence(d), eligible)
  IN [refused |-> FALSE, policy |-> NoPolicy,
      evidence |-> d.evidence, findings |-> d.findings, semantic |-> d.semantic,
      capabilities |-> d.capabilities, axes |-> axes, clusters |-> clusters,
      score |-> scoreRepository(axes, clusters), confidence |-> computeEvidenceConfidence(s, d)]

Refused == [refused |-> TRUE]

runDiagnosis(s, answer) ==
  LET extracted == extractEvidenceWithPlugins(s)
      duplicateIds == \E i, j \in DOMAIN answer.findings :
                        i # j /\ answer.findings[i].fid = answer.findings[j].fid
  IN IF extracted.refused \/ duplicateIds THEN Refused ELSE assessRisk(s, extracted, answer)
=============================================================================
