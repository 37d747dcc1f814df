--------------------------- MODULE Diagnosis_proofs ---------------------------
(***************************************************************************)
(* Theorems about the reports of Diagnosis: the gate, the comparison of    *)
(* score models, the diff, the evidence and the score, for any repository, *)
(* policy, calibration and samples.                                        *)
(***************************************************************************)
EXTENDS Diagnosis, SumLemmas, SequenceTheorems

-----------------------------------------------------------------------------
(* The gate.                                                               *)

Quality(file, golden, required) ==
  summarizeCalibrationQuality(loadCalibration(file, golden, required))
Eligible(file, golden, required) == loadCalibration(file, golden, required).gateEligible

GateFields == {"pc", "golden", "policy", "reported", "score", "confidence", "quality",
               "evaluation", "loaded", "undisturbed"}

\* What the gate has found out, as long as nobody rewrites the policy between its
\* two loads or the calibration between its three.
GateInv ==
  /\ calibration \in Datasets
  /\ DOMAIN gate = GateFields
  /\ gate.pc = "diagnose" /\ gate.undisturbed => gate.policy = policy
  /\ gate.pc = "quality" /\ gate.undisturbed => gate.reported = gate.policy
  /\ gate.pc = "load" /\ gate.undisturbed =>
       gate.quality = Quality(calibration, gate.golden, gate.policy.required)
  /\ gate.pc = "done" =>
       /\ gate.loaded \in Datasets \ {Malformed}
       /\ gate.undisturbed =>
            gate.quality = Quality(gate.loaded, gate.golden, gate.policy.required)
       /\ gate.evaluation =
            evaluatePolicy(gate.score, gate.confidence, gate.policy,
                           Eligible(gate.loaded, gate.golden, gate.policy.required))

(***************************************************************************)
(* What quality.ts calls validated is what dataset.ts holds eligible.      *)
(***************************************************************************)
LEMMA EligibleIsValidated ==
  ASSUME NEW file, NEW golden \in BOOLEAN, NEW required
  PROVE  Eligible(file, golden, required) <=> Quality(file, golden, required) = "validated"
<1> DEFINE d == loadCalibration(file, golden, required)
<1>1. CASE file = NoData
  <2>1. d.records = {} /\ d.gateEligible = FALSE
    BY <1>1 DEF loadCalibration
  <2> QED BY <2>1 DEF Eligible, Quality, summarizeCalibrationQuality
<1>2. CASE file # NoData
  <2>1. /\ d.records = file.records /\ d.golden = golden
        /\ d.missing = required \ file.satisfied
        /\ d.gateEligible = deriveGateEligible(file.records, golden, required, file.satisfied)
    BY <1>2 DEF loadCalibration
  <2>2. EveryRecordHas(d.records, Metric) <=>
          /\ EveryRecordHas(d.records, {"falsePositiveRate", "missRate"})
          /\ EveryRecordHas(d.records, {"rankingQuality", "explanationUsefulness"})
    BY DEF EveryRecordHas, Metric
  <2>3. collectMissingValidationConditions(d) = {} <=>
          /\ hasMinimumSamplesForEveryScoreBand(d.records)
          /\ EveryRecordHas(d.records, Metric)
          /\ d.golden /\ d.missing = {}
    BY <2>2 DEF collectMissingValidationConditions
  <2>4. Quality(file, golden, required) = "validated" <=>
          d.records # {} /\ collectMissingValidationConditions(d) = {}
    BY DEF Quality, summarizeCalibrationQuality
  <2> QED BY <2>1, <2>3, <2>4 DEF Eligible, deriveGateEligible
<1> QED BY <1>1, <1>2

\* Steps that leave the gate, the policy and the calibration alone.
LEMMA GateFrame ==
  GateInv /\ UNCHANGED gated => GateInv'
<1> SUFFICES ASSUME GateInv, UNCHANGED gated PROVE GateInv'
  OBVIOUS
<1>1. calibration' = calibration /\ gate' = gate /\ policy' = policy
  BY DEF gated
<1> QED BY <1>1 DEF GateInv, Quality, Eligible

LEMMA GateStep ==
  GateInv /\ [Next]_vars => GateInv'
<1> SUFFICES ASSUME GateInv, [Next]_vars PROVE GateInv'
  OBVIOUS
<1>1. CASE UNCHANGED gated
  BY <1>1, GateFrame
<1>2. ASSUME GateFails, UNCHANGED <<policy, calibration>> PROVE GateInv'
  <2>1. DOMAIN gate' = GateFields /\ gate'.pc = "failed"
    BY <1>2 DEF GateFails, GateInv, GateFields
  <2> QED BY <1>2, <2>1 DEF GateInv
<1>3. CASE GatePolicy
  <2>1. /\ DOMAIN gate' = GateFields /\ gate'.pc = "diagnose" /\ gate'.policy = policy
        /\ UNCHANGED <<policy, calibration>>
    BY <1>3 DEF GatePolicy, GateInv, GateFields
  <2> QED BY <2>1 DEF GateInv
<1>4. CASE GateDiagnose
  <2> DEFINE loads == loadCalibration(calibration, FALSE, policy.required).records = {}
             step  == IF loads THEN "load" ELSE "quality"
  <2>1. PICK report :
          \/ GateFails
          \/ gate' = [gate EXCEPT !.score = report.score, !.confidence = report.confidence,
                        !.reported = policy, !.pc = step, !.quality = "uncalibrated"]
    BY <1>4, Zenon DEF GateDiagnose
  <2>2. UNCHANGED <<policy, calibration>> /\ gate.pc = "diagnose"
    BY <1>4 DEF GateDiagnose
  <2>3. CASE GateFails
    BY <1>2, <2>2, <2>3
  <2>4. CASE ~GateFails
    <3> HIDE DEF step
    <3>1. /\ DOMAIN gate' = GateFields /\ gate'.pc = step /\ gate'.reported = policy
          /\ gate'.quality = "uncalibrated" /\ gate'.policy = gate.policy
          /\ gate'.undisturbed = gate.undisturbed /\ gate'.golden = gate.golden
      BY <2>1, <2>4 DEF GateInv, GateFields
    <3>2. step \in {"load", "quality"} /\ (step = "load" => loads)
      BY DEF step
    <3>3. ASSUME loads, gate.undisturbed
          PROVE  Quality(calibration, gate.golden, gate.policy.required) = "uncalibrated"
      <4>1. loadCalibration(calibration, gate.golden, gate.policy.required).records = {}
        BY <3>3 DEF loadCalibration
      <4> QED BY <4>1 DEF Quality, summarizeCalibrationQuality
    <3>4. gate'.undisturbed => gate'.policy = policy
      BY <2>2, <3>1 DEF GateInv
    <3>5. gate'.pc = "load" /\ gate'.undisturbed =>
            gate'.quality = Quality(calibration, gate'.golden, gate'.policy.required)
      BY <3>1, <3>2, <3>3
    <3> QED BY <2>2, <3>1, <3>2, <3>4, <3>5 DEF GateInv, Quality
  <2> QED BY <2>3, <2>4
<1>5. CASE GateQuality
  <2>1. UNCHANGED <<policy, calibration>> /\ gate.pc = "quality"
    BY <1>5 DEF GateQuality
  <2>2. CASE GateFails
    BY <1>2, <2>1, <2>2
  <2>3. CASE ~GateFails
    <3> DEFINE quality == Quality(calibration, gate.golden, gate.reported.required)
    <3>1. gate' = [gate EXCEPT !.pc = "load", !.quality = quality]
      BY <1>5, <2>3 DEF GateQuality, Quality
    <3> HIDE DEF quality
    <3>2. /\ DOMAIN gate' = GateFields /\ gate'.pc = "load" /\ gate'.quality = quality
          /\ gate'.policy = gate.policy /\ gate'.golden = gate.golden
          /\ gate'.undisturbed = gate.undisturbed
      BY <3>1 DEF GateInv, GateFields
    <3>3. gate'.undisturbed =>
            gate'.quality = Quality(calibration, gate'.golden, gate'.policy.required)
      BY <2>1, <3>2 DEF GateInv, quality
    <3> QED BY <2>1, <3>2, <3>3 DEF GateInv, Quality
  <2> QED BY <2>2, <2>3
<1>6. CASE GateEvaluate
  <2>1. UNCHANGED <<policy, calibration>> /\ gate.pc = "load"
    BY <1>6 DEF GateEvaluate
  <2>2. CASE GateFails
    BY <1>2, <2>1, <2>2
  <2>3. CASE ~GateFails
    <3> DEFINE verdict == evaluatePolicy(gate.score, gate.confidence, gate.policy,
                            Eligible(calibration, gate.golden, gate.policy.required))
    <3>1. /\ gate' = [gate EXCEPT !.pc = "done", !.loaded = calibration, !.evaluation = verdict]
          /\ calibration # Malformed
      BY <1>6, <2>3 DEF GateEvaluate, Eligible
    <3> HIDE DEF verdict
    <3>2. /\ DOMAIN gate' = GateFields /\ gate'.pc = "done" /\ gate'.loaded = calibration
          /\ gate'.quality = gate.quality /\ gate'.undisturbed = gate.undisturbed
          /\ gate'.score = gate.score /\ gate'.confidence = gate.confidence
          /\ gate'.policy = gate.policy /\ gate'.golden = gate.golden
          /\ gate'.evaluation = verdict
      BY <3>1 DEF GateInv, GateFields
    <3>3. gate'.evaluation =
            evaluatePolicy(gate'.score, gate'.confidence, gate'.policy,
                           Eligible(gate'.loaded, gate'.golden, gate'.policy.required))
      BY <3>2 DEF verdict
    <3> QED BY <2>1, <3>1, <3>2, <3>3 DEF GateInv
  <2> QED BY <2>2, <2>3
<1>7. ASSUME NEW calm, gate' = [gate EXCEPT !.undisturbed = calm]
      PROVE  /\ DOMAIN gate' = GateFields /\ gate'.undisturbed = calm
             /\ gate'.pc = gate.pc /\ gate'.golden = gate.golden /\ gate'.policy = gate.policy
             /\ gate'.reported = gate.reported /\ gate'.score = gate.score
             /\ gate'.confidence = gate.confidence /\ gate'.quality = gate.quality
             /\ gate'.evaluation = gate.evaluation /\ gate'.loaded = gate.loaded
  BY <1>7 DEF GateInv, GateFields
<1>8. CASE RewritePolicy
  <2> DEFINE calm == gate.undisturbed /\ gate.pc # "diagnose"
  <2>1. gate' = [gate EXCEPT !.undisturbed = calm] /\ calibration' = calibration
    BY <1>8, Zenon DEF RewritePolicy
  <2>2. calm => gate.undisturbed /\ gate.pc # "diagnose"
    OBVIOUS
  <2> HIDE DEF calm
  <2> QED BY <1>7, <2>1, <2>2 DEF GateInv
<1>9. CASE Recalibrate
  <2> DEFINE calm == gate.undisturbed /\ gate.pc \in {"idle", "diagnose", "done"}
  <2>1. /\ gate' = [gate EXCEPT !.undisturbed = calm]
        /\ calibration' \in Datasets /\ policy' = policy
    BY <1>9, Zenon DEF Recalibrate
  <2>2. calm => gate.undisturbed /\ gate.pc \in {"idle", "diagnose", "done"}
    OBVIOUS
  <2> HIDE DEF calm
  <2> QED BY <1>7, <2>1, <2>2 DEF GateInv
<1> QED BY <1>1, <1>3, <1>4, <1>5, <1>6, <1>8, <1>9
      DEF Next, vars, Edit, Reconfigure, Scan, Diff, CompareProvisional, CompareAgain,
          CompareFinal, Tick, gated

\* Does the golden regression pass?  It is the same for the whole gate.
LEMMA GoldenHolds == Spec => [](DOMAIN gate = GateFields /\ gate.golden \in BOOLEAN)
<1> DEFINE Inv == DOMAIN gate = GateFields /\ gate.golden \in BOOLEAN
<1>1. Init => Inv
  <2> SUFFICES ASSUME Init PROVE Inv
    OBVIOUS
  <2>1. PICK golden \in BOOLEAN : gate = GateIdle(golden)
    BY DEF Init
  <2>2. DOMAIN gate = GateFields /\ gate.golden = golden
    BY <2>1 DEF GateIdle, GateFields
  <2> QED BY <2>2
<1>2. Inv /\ [Next]_vars => Inv'
  <2> SUFFICES ASSUME Inv, [Next]_vars PROVE Inv'
    OBVIOUS
  <2>1. CASE gate' = gate
    BY <2>1
  <2>2. CASE GateFails
    BY <2>2 DEF GateFails, GateFields
  <2>3. CASE GatePolicy
    BY <2>3 DEF GatePolicy, GateFields
  <2>4. CASE GateDiagnose /\ ~GateFails
    <3> DEFINE loads == loadCalibration(calibration, FALSE, policy.required).records = {}
               step  == IF loads THEN "load" ELSE "quality"
    <3>1. PICK report :
            gate' = [gate EXCEPT !.score = report.score, !.confidence = report.confidence,
                       !.reported = policy, !.pc = step, !.quality = "uncalibrated"]
      BY <2>4, Zenon DEF GateDiagnose
    <3> HIDE DEF step
    <3> QED BY <3>1 DEF GateFields
  <2>5. CASE GateQuality /\ ~GateFails
    <3> DEFINE quality == summarizeCalibrationQuality(
                            loadCalibration(calibration, gate.golden, gate.reported.required))
    <3>1. gate' = [gate EXCEPT !.pc = "load", !.quality = quality]
      BY <2>5, Zenon DEF GateQuality
    <3> HIDE DEF quality
    <3> QED BY <3>1 DEF GateFields
  <2>6. CASE GateEvaluate /\ ~GateFails
    <3> DEFINE verdict == evaluatePolicy(gate.score, gate.confidence, gate.policy,
                   loadCalibration(calibration, gate.golden, gate.policy.required).gateEligible)
    <3>1. gate' = [gate EXCEPT !.pc = "done", !.loaded = calibration, !.evaluation = verdict]
      BY <2>6, Zenon DEF GateEvaluate
    <3> HIDE DEF verdict
    <3> QED BY <3>1 DEF GateFields
  <2>7. CASE RewritePolicy \/ Recalibrate
    <3>1. PICK calm : gate' = [gate EXCEPT !.undisturbed = calm]
      BY <2>7, Zenon DEF RewritePolicy, Recalibrate
    <3> QED BY <3>1 DEF GateFields
  <2> QED BY <2>1, <2>2, <2>3, <2>4, <2>5, <2>6, <2>7
        DEF Next, vars, gated, Edit, Reconfigure, Scan, Diff, CompareProvisional, CompareAgain,
            CompareFinal, Tick
<1> QED BY <1>1, <1>2, PTL DEF Spec

LEMMA GateHolds == Spec => []GateInv
<1>1. Init => GateInv
  <2> SUFFICES ASSUME Init PROVE GateInv
    OBVIOUS
  <2>1. PICK golden \in BOOLEAN : gate = GateIdle(golden)
    BY DEF Init
  <2>2. DOMAIN gate = GateFields /\ gate.pc = "idle"
    BY <2>1 DEF GateIdle, GateFields
  <2> QED BY <2>2 DEF GateInv, Init
<1> QED BY <1>1, GateStep, PTL DEF Spec

(***************************************************************************)
(* A gate that asks for calibration fails a build only on a calibrated     *)
(* score, and unless the policy or the calibration is rewritten between    *)
(* its loads, what the gate holds eligible is what the report calls        *)
(* validated (evaluatePolicy, summarizeCalibrationQuality), for any        *)
(* datasets, bands and policies.                                           *)
(***************************************************************************)
THEOREM CalibratedGate == Spec => []GateNeedsCalibration
<1>1. GateInv /\ gate.golden \in BOOLEAN => GateNeedsCalibration
  <2> SUFFICES ASSUME GateInv, gate.golden \in BOOLEAN, gate.pc = "done"
               PROVE  GateNeedsCalibration
    BY DEF GateNeedsCalibration
  <2> DEFINE file     == gate.loaded
             required == gate.policy.required
             eligible == Eligible(file, gate.golden, required)
  <2>1. /\ file \in Datasets \ {Malformed}
        /\ gate.evaluation = evaluatePolicy(gate.score, gate.confidence, gate.policy, eligible)
        /\ gate.undisturbed => gate.quality = Quality(file, gate.golden, required)
    BY DEF GateInv
  <2>2. gate.evaluation.gateEligible = eligible
    BY <2>1 DEF evaluatePolicy
  <2>3. gate.evaluation.gateWouldFail => ~gate.policy.requireCalibration \/ eligible
    <3> DEFINE advisory == gate.score >= gate.policy.advisoryThreshold
               fails == /\ gate.policy.gateEnabled
                        /\ ~gate.policy.requireCalibration \/ eligible
                        /\ gate.confidence >= 50
                        /\ gate.score >= gate.policy.gateThreshold
    <3>1. gate.evaluation =
            [advisory |-> advisory, gateWouldFail |-> fails, gateEligible |-> eligible]
      BY <2>1, Zenon DEF evaluatePolicy
    <3>2. gate.evaluation.gateWouldFail = fails
      <4> HIDE DEF advisory, fails, eligible
      <4> QED BY <3>1
    <3> QED BY <3>2, Zenon
  <2>4. ASSUME eligible
        PROVE  /\ file # NoData /\ gate.golden /\ required \subseteq file.satisfied
               /\ \A b \in Band : \E d \in file.records :
                    d.band = b /\ d.samples >= MinSamples /\ d.measured = Metric
    <3>1. file # NoData
      BY <2>4 DEF Eligible, loadCalibration
    <3>2. deriveGateEligible(file.records, gate.golden, required, file.satisfied)
      BY <2>4, <3>1 DEF Eligible, loadCalibration
    <3>3. \A r \in file.records : r.measured = Metric
      BY <2>1, <3>1, <3>2, CalibrationAssumption DEF deriveGateEligible, EveryRecordHas
    <3> QED BY <3>1, <3>2, <3>3
          DEF deriveGateEligible, hasMinimumSamplesForEveryScoreBand
  <2>5. eligible <=> Quality(file, gate.golden, required) = "validated"
    BY EligibleIsValidated
  <2> HIDE DEF eligible
  <2> QED BY <2>1, <2>2, <2>3, <2>4, <2>5 DEF GateNeedsCalibration
<1> QED BY <1>1, GateHolds, GoldenHolds, PTL

-----------------------------------------------------------------------------
(* The comparison of score models.                                         *)

Scored(rows, model) ==
  IsFiniteSet(rows) /\ \A c \in rows : c.n \in Nat /\ c[model] \in Int

LEMMA CountWithin ==
  ASSUME NEW R, IsFiniteSet(R), \A c \in R : c.n \in Nat, NEW T \in SUBSET R
  PROVE  Count(T) = SumFunctionOnSet([c \in R |-> c.n], T) /\ Count(T) \in Nat
<1> DEFINE f == [c \in T |-> c.n]
           g == [c \in R |-> c.n]
<1>1. IsFiniteSet(T)
  BY FS_Subset
<1>2. \A c \in T : f[c] \in Nat /\ f[c] = g[c] /\ f[c] \in Int
  OBVIOUS
<1>3. Count(T) = SumFunctionOnSet(f, T)
  BY DEF Count, SumFunction
<1> HIDE DEF f, g
<1>4. SumFunctionOnSet(f, T) = SumFunctionOnSet(g, T)
  BY <1>1, <1>2, SumEqual
<1>5. SumFunctionOnSet(f, T) \in Nat
  BY <1>1, <1>2, SumType
<1> QED BY <1>3, <1>4, <1>5 DEF g

LEMMA CountOfNone == Count({}) = 0
BY SumEmpty DEF Count, SumFunction

LEMMA CountJoined ==
  ASSUME NEW S, NEW T, IsFiniteSet(S), IsFiniteSet(T), S \cap T = {},
         \A c \in S \cup T : c.n \in Nat
  PROVE  /\ Count(S \cup T) = Count(S) + Count(T)
         /\ Count(S) \in Nat /\ Count(T) \in Nat
<1> DEFINE R == S \cup T
           f == [c \in R |-> c.n]
<1>1. IsFiniteSet(R)
  BY FS_Union
<1>2. \A c \in R : f[c] \in Int
  OBVIOUS
<1>3. /\ Count(R) = SumFunctionOnSet(f, R)
      /\ Count(S) = SumFunctionOnSet(f, S) /\ Count(S) \in Nat
      /\ Count(T) = SumFunctionOnSet(f, T) /\ Count(T) \in Nat
  BY <1>1, CountWithin
<1> HIDE DEF f
<1>4. SumFunctionOnSet(f, S \cup T) = SumFunctionOnSet(f, S) + SumFunctionOnSet(f, T)
  BY <1>2, SumUnion
<1> QED BY <1>3, <1>4

LEMMA CountMore ==
  ASSUME NEW S, IsFiniteSet(S), NEW m, m \notin S, \A c \in S \cup {m} : c.n \in Nat
  PROVE  Count(S \cup {m}) = Count(S) + m.n /\ Count(S) \in Nat
<1> DEFINE R == S \cup {m}
           f == [c \in R |-> c.n]
<1>1. IsFiniteSet(R)
  BY FS_AddElement
<1>2. \A c \in R : f[c] \in Int /\ f[c] = c.n
  OBVIOUS
<1>3. /\ Count(R) = SumFunctionOnSet(f, R)
      /\ Count(S) = SumFunctionOnSet(f, S) /\ Count(S) \in Nat
  BY <1>1, CountWithin
<1> HIDE DEF f
<1>4. SumFunctionOnSet(f, S \cup {m}) = f[m] + SumFunctionOnSet(f, S)
  BY <1>2, SumAdd
<1>5. m.n \in Nat /\ f[m] = m.n
  BY <1>2
<1> QED BY <1>3, <1>4, <1>5

\* Among finitely many cells one has the highest score.
LEMMA HighestScore ==
  ASSUME NEW model, NEW T, Scored(T, model), T # {}
  PROVE  \E m \in T : \A c \in T : c[model] <= m[model]
<1> DEFINE Above(m) == {c \in T : c[model] > m[model]}
           D == {Above(m) : m \in T}
<1>1. PICK U \in D : \A V \in D : V \subseteq U => V = U
  <2>1. IsFiniteSet(T) /\ D \in SUBSET SUBSET T /\ D # {}
    BY DEF Scored
  <2> HIDE DEF D
  <2> QED BY <2>1, MinimalSet
<1>2. PICK m \in T : U = Above(m)
  OBVIOUS
<1>3. ASSUME NEW c \in T, ~(c[model] <= m[model])
      PROVE  FALSE
  <2>1. \A d \in T : d[model] \in Int
    BY DEF Scored
  <2>2. c \in Above(m) /\ c \notin Above(c) /\ Above(c) \subseteq Above(m)
    BY <1>3, <2>1
  <2> QED BY <1>1, <1>2, <2>2
<1> QED BY <1>3

\* Twice the share of a pair: whole when its order is right, half when it ties.
Worth(p, q, model) ==
  p.n * q.n * (IF p[model] > q[model] THEN 2 ELSE IF p[model] = q[model] THEN 1 ELSE 0)

Lower(rows, model, v) == {c \in rows : c[model] < v}
Tied(rows, model, v) == {c \in rows : c[model] = v}

LEMMA WorthType ==
  ASSUME NEW p, NEW q, NEW model, p.n \in Nat, q.n \in Nat
  PROVE  Worth(p, q, model) \in Int
BY DEF Worth

\* A cell that joins is in one of the two groups, unless it is above them.
LEMMA Grouped ==
  ASSUME NEW model, NEW W, NEW q, Scored(W \cup {q}, model), q \notin W, NEW v \in Int
  PROVE  /\ Count(Lower(W \cup {q}, model, v)) =
              Count(Lower(W, model, v)) + IF q[model] < v THEN q.n ELSE 0
         /\ Count(Tied(W \cup {q}, model, v)) =
              Count(Tied(W, model, v)) + IF q[model] = v THEN q.n ELSE 0
         /\ Count(Lower(W, model, v)) \in Nat /\ Count(Tied(W, model, v)) \in Nat
<1>1. /\ IsFiniteSet(W) /\ IsFiniteSet(Lower(W, model, v)) /\ IsFiniteSet(Tied(W, model, v))
      /\ \A c \in W \cup {q} : c.n \in Nat
  <2>1. W \in SUBSET (W \cup {q}) /\ Lower(W, model, v) \in SUBSET (W \cup {q})
        /\ Tied(W, model, v) \in SUBSET (W \cup {q})
    BY DEF Lower, Tied
  <2> QED BY <2>1, FS_Subset DEF Scored
<1>2. q \notin Lower(W, model, v) /\ q \notin Tied(W, model, v)
  BY DEF Lower, Tied
<1>3. Count(Lower(W, model, v)) \in Nat /\ Count(Tied(W, model, v)) \in Nat
  <2>1. Lower(W, model, v) \in SUBSET W /\ Tied(W, model, v) \in SUBSET W
    BY DEF Lower, Tied
  <2> QED BY <1>1, <2>1, CountWithin
<1>4. Count(Lower(W \cup {q}, model, v)) =
        Count(Lower(W, model, v)) + IF q[model] < v THEN q.n ELSE 0
  <2>1. CASE q[model] < v
    <3>1. Lower(W \cup {q}, model, v) = Lower(W, model, v) \cup {q}
      BY <2>1 DEF Lower
    <3>2. \A c \in Lower(W, model, v) \cup {q} : c.n \in Nat
      BY <1>1 DEF Lower
    <3>3. Count(Lower(W, model, v) \cup {q}) = Count(Lower(W, model, v)) + q.n
      BY <1>1, <1>2, <3>2, CountMore
    <3> QED BY <2>1, <3>1, <3>3
  <2>2. CASE ~(q[model] < v)
    <3>1. Lower(W \cup {q}, model, v) = Lower(W, model, v)
      BY <2>2 DEF Lower
    <3> QED BY <1>3, <2>2, <3>1
  <2> QED BY <2>1, <2>2
<1>5. Count(Tied(W \cup {q}, model, v)) =
        Count(Tied(W, model, v)) + IF q[model] = v THEN q.n ELSE 0
  <2>1. CASE q[model] = v
    <3>1. Tied(W \cup {q}, model, v) = Tied(W, model, v) \cup {q}
      BY <2>1 DEF Tied
    <3>2. \A c \in Tied(W, model, v) \cup {q} : c.n \in Nat
      BY <1>1 DEF Tied
    <3>3. Count(Tied(W, model, v) \cup {q}) = Count(Tied(W, model, v)) + q.n
      BY <1>1, <1>2, <3>2, CountMore
    <3> QED BY <2>1, <3>1, <3>3
  <2>2. CASE q[model] # v
    <3>1. Tied(W \cup {q}, model, v) = Tied(W, model, v)
      BY <2>2 DEF Tied
    <3> QED BY <1>3, <2>2, <3>1
  <2> QED BY <2>1, <2>2
<1> QED BY <1>3, <1>4, <1>5

LEMMA Distributes ==
  \A a, b, c \in Int : /\ a * (b + c) = a * b + a * c
                       /\ a * (2 * b) = 2 * (a * b)
                       /\ a * b \in Int /\ a * b = b * a /\ a * 0 = 0
OBVIOUS

\* All pairs of the highest positive with negatives.
LEMMA PairsBelow ==
  ASSUME NEW model, NEW m, m.n \in Nat, m[model] \in Int,
         NEW Q, Scored(Q, model), \A q \in Q : q[model] <= m[model],
         NEW h, \A q \in Q : h[<<m, q>>] = Worth(m, q, model)
  PROVE  SumFunctionOnSet(h, {m} \X Q) =
           m.n * (2 * Count(Lower(Q, model, m[model])) + Count(Tied(Q, model, m[model])))
<1> DEFINE v == m[model]
           low(U) == Count(Lower(U, model, v))
           tied(U) == Count(Tied(U, model, v))
           E(U) == SumFunctionOnSet(h, {m} \X U) = m.n * (2 * low(U) + tied(U))
           D == {U \in SUBSET Q : ~E(U)}
<1>1. SUFFICES ASSUME D # {} PROVE FALSE
  OBVIOUS
<1>2. PICK U \in D : \A V \in D : V \subseteq U => V = U
  <2>1. IsFiniteSet(Q) /\ D \in SUBSET SUBSET Q
    BY DEF Scored
  <2> HIDE DEF D
  <2> QED BY <1>1, <2>1, MinimalSet
<1>3. E({})
  <2>1. {m} \X {} = {} /\ Lower({}, model, v) = {} /\ Tied({}, model, v) = {}
    BY DEF Lower, Tied
  <2>2. SumFunctionOnSet(h, {m} \X {}) = 0
    BY <2>1, SumEmpty
  <2>3. low({}) = 0 /\ tied({}) = 0
    BY <2>1, CountOfNone
  <2> HIDE DEF low, tied
  <2> QED BY <2>2, <2>3
<1>4. PICK q \in U : TRUE
  BY <1>2, <1>3
<1> DEFINE W == U \ {q}
<1>5. U \in SUBSET Q /\ q \in Q /\ q \notin W /\ U = W \cup {q} /\ W \in SUBSET Q
  BY <1>4
<1>6. E(W)
  BY <1>2, <1>5
<1>7. Scored(W \cup {q}, model) /\ IsFiniteSet(W)
  BY <1>5, FS_Subset DEF Scored
<1>8. /\ low(U) = low(W) + IF q[model] < v THEN q.n ELSE 0
      /\ tied(U) = tied(W) + IF q[model] = v THEN q.n ELSE 0
      /\ low(W) \in Nat /\ tied(W) \in Nat
  <2> HIDE DEF W
  <2>1. /\ low(W \cup {q}) = low(W) + IF q[model] < v THEN q.n ELSE 0
        /\ tied(W \cup {q}) = tied(W) + IF q[model] = v THEN q.n ELSE 0
        /\ low(W) \in Nat /\ tied(W) \in Nat
    BY <1>5, <1>7, Grouped
  <2>2. U = W \cup {q}
    BY <1>5
  <2> HIDE DEF low, tied, v
  <2> QED BY <2>1, <2>2
<1>9. SumFunctionOnSet(h, {m} \X U) = h[<<m, q>>] + SumFunctionOnSet(h, {m} \X W)
  <2>1. {m} \X U = ({m} \X W) \cup {<<m, q>>} /\ <<m, q>> \notin {m} \X W
    BY <1>5
  <2>2. IsFiniteSet({m} \X W)
    BY <1>7, FS_Singleton, FS_Product
  <2>3. \A y \in ({m} \X W) \cup {<<m, q>>} : h[y] \in Int
    <3>1. \A r \in Q : r.n \in Nat
      BY DEF Scored
    <3>2. \A y \in ({m} \X W) \cup {<<m, q>>} : \E r \in Q : y = <<m, r>>
      BY <1>5
    <3> QED BY <3>1, <3>2, WorthType
  <2> HIDE DEF W
  <2> QED BY <2>1, <2>2, <2>3, SumAdd
<1>10. q.n \in Nat /\ q[model] \in Int /\ q[model] <= v /\ h[<<m, q>>] = Worth(m, q, model)
  BY <1>5 DEF Scored
<1>11. Worth(m, q, model) = m.n * (IF q[model] < v THEN 2 * q.n ELSE q.n)
  <2>1. CASE q[model] < v
    <3>1. Worth(m, q, model) = (m.n * q.n) * 2
      BY <1>10, <2>1 DEF Worth
    <3>2. m.n * (2 * q.n) = 2 * (m.n * q.n) /\ m.n * q.n \in Int
      BY <1>10, Distributes
    <3> QED BY <2>1, <3>1, <3>2
  <2>2. CASE q[model] = v
    <3>1. Worth(m, q, model) = (m.n * q.n) * 1
      BY <1>10, <2>2 DEF Worth
    <3>2. m.n * q.n \in Int
      BY <1>10, Distributes
    <3> QED BY <1>10, <2>2, <3>1, <3>2
  <2> QED BY <1>10, <2>1, <2>2
<1>12. E(U)
  <2> DEFINE x == IF q[model] < v THEN 2 * q.n ELSE q.n
             y == 2 * low(W) + tied(W)
  <2>1. x \in Int /\ y \in Int /\ 2 * low(U) + tied(U) = x + y
    <3> HIDE DEF low, tied, W
    <3>1. CASE q[model] < v
      BY <1>8, <1>10, <3>1
    <3>2. CASE q[model] = v
      BY <1>8, <1>10, <3>2
    <3> QED BY <1>10, <3>1, <3>2
  <2>2. m.n * (x + y) = m.n * x + m.n * y
    BY <2>1, Distributes
  <2>3. SumFunctionOnSet(h, {m} \X U) = m.n * x + m.n * y
    BY <1>6, <1>9, <1>10, <1>11
  <2> HIDE DEF x, y, low, tied
  <2> QED BY <2>1, <2>2, <2>3
<1> QED BY <1>2, <1>12

\* All pairs of positives with the highest negative.
LEMMA PairsTied ==
  ASSUME NEW model, NEW m, m.n \in Nat, m[model] \in Int,
         NEW Q, Scored(Q, model), \A q \in Q : q[model] <= m[model],
         NEW h, \A q \in Q : h[<<q, m>>] = Worth(q, m, model)
  PROVE  SumFunctionOnSet(h, Q \X {m}) = m.n * Count(Tied(Q, model, m[model]))
<1> DEFINE v == m[model]
           tied(U) == Count(Tied(U, model, v))
           E(U) == SumFunctionOnSet(h, U \X {m}) = m.n * tied(U)
           D == {U \in SUBSET Q : ~E(U)}
<1>1. SUFFICES ASSUME D # {} PROVE FALSE
  OBVIOUS
<1>2. PICK U \in D : \A V \in D : V \subseteq U => V = U
  <2>1. IsFiniteSet(Q) /\ D \in SUBSET SUBSET Q
    BY DEF Scored
  <2> HIDE DEF D
  <2> QED BY <1>1, <2>1, MinimalSet
<1>3. E({})
  <2>1. {} \X {m} = {} /\ Tied({}, model, v) = {}
    BY DEF Tied
  <2>2. SumFunctionOnSet(h, {} \X {m}) = 0
    BY <2>1, SumEmpty
  <2>3. tied({}) = 0
    BY <2>1, CountOfNone
  <2> HIDE DEF tied
  <2> QED BY <2>2, <2>3
<1>4. PICK q \in U : TRUE
  BY <1>2, <1>3
<1> DEFINE W == U \ {q}
<1>5. U \in SUBSET Q /\ q \in Q /\ q \notin W /\ U = W \cup {q} /\ W \in SUBSET Q
  BY <1>4
<1>6. E(W)
  BY <1>2, <1>5
<1>7. Scored(W \cup {q}, model) /\ IsFiniteSet(W)
  BY <1>5, FS_Subset DEF Scored
<1>8. tied(U) = tied(W) + (IF q[model] = v THEN q.n ELSE 0) /\ tied(W) \in Nat
  <2> HIDE DEF W
  <2>1. /\ tied(W \cup {q}) = tied(W) + IF q[model] = v THEN q.n ELSE 0
        /\ tied(W) \in Nat
    <3> DEFINE low(R) == Count(Lower(R, model, v))
    <3>1. /\ low(W \cup {q}) = low(W) + IF q[model] < v THEN q.n ELSE 0
          /\ tied(W \cup {q}) = tied(W) + IF q[model] = v THEN q.n ELSE 0
          /\ low(W) \in Nat /\ tied(W) \in Nat
      BY <1>5, <1>7, Grouped
    <3> QED BY <3>1
  <2>2. U = W \cup {q}
    BY <1>5
  <2> HIDE DEF tied, v
  <2> QED BY <2>1, <2>2
<1>9. SumFunctionOnSet(h, U \X {m}) = h[<<q, m>>] + SumFunctionOnSet(h, W \X {m})
  <2>1. U \X {m} = (W \X {m}) \cup {<<q, m>>} /\ <<q, m>> \notin W \X {m}
    BY <1>5
  <2>2. IsFiniteSet(W \X {m})
    BY <1>7, FS_Singleton, FS_Product
  <2>3. \A y \in (W \X {m}) \cup {<<q, m>>} : h[y] \in Int
    <3>1. \A r \in Q : r.n \in Nat
      BY DEF Scored
    <3>2. \A y \in (W \X {m}) \cup {<<q, m>>} : \E r \in Q : y = <<r, m>>
      BY <1>5
    <3> QED BY <3>1, <3>2, WorthType
  <2> HIDE DEF W
  <2> QED BY <2>1, <2>2, <2>3, SumAdd
<1>10. q.n \in Nat /\ q[model] \in Int /\ q[model] <= v /\ h[<<q, m>>] = Worth(q, m, model)
  BY <1>5 DEF Scored
<1>11. Worth(q, m, model) = m.n * (IF q[model] = v THEN q.n ELSE 0)
  <2>1. m.n * q.n \in Int /\ m.n * q.n = q.n * m.n /\ m.n * 0 = 0
    BY <1>10, Distributes
  <2>2. CASE q[model] = v
    BY <1>10, <2>1, <2>2 DEF Worth
  <2>3. CASE q[model] # v
    BY <1>10, <2>1, <2>3 DEF Worth
  <2> QED BY <2>2, <2>3
<1>12. E(U)
  <2> DEFINE x == IF q[model] = v THEN q.n ELSE 0
             y == tied(W)
  <2>1. x \in Int /\ y \in Int /\ tied(U) = x + y
    <3> HIDE DEF tied
    <3> QED BY <1>8, <1>10
  <2>2. m.n * (x + y) = m.n * x + m.n * y
    BY <2>1, Distributes
  <2>3. SumFunctionOnSet(h, U \X {m}) = m.n * x + m.n * y
    BY <1>6, <1>9, <1>10, <1>11
  <2> HIDE DEF x, y, tied
  <2> QED BY <2>1, <2>2, <2>3
<1> QED BY <1>2, <1>12

\* What a sample of score v adds to the rank sum, twice over.
Ranked(rows, model, v) ==
  Count(Positives(Tied(rows, model, v)))
    * (2 * (1 + Count(Lower(rows, model, v))) + Count(Tied(rows, model, v)) - 1)

LEMMA RankedType ==
  ASSUME NEW rows, NEW model, Scored(rows, model), NEW v
  PROVE  Ranked(rows, model, v) \in Int
<1>1. /\ Lower(rows, model, v) \in SUBSET rows /\ Tied(rows, model, v) \in SUBSET rows
      /\ Positives(Tied(rows, model, v)) \in SUBSET rows
  BY DEF Lower, Tied, Positives
<1>2. /\ Count(Lower(rows, model, v)) \in Nat /\ Count(Tied(rows, model, v)) \in Nat
      /\ Count(Positives(Tied(rows, model, v))) \in Nat
  BY <1>1, CountWithin DEF Scored
<1> QED BY <1>2 DEF Ranked

LEMMA FiniteImage ==
  ASSUME NEW S, IsFiniteSet(S), NEW x
  PROVE  IsFiniteSet({y[x] : y \in S})
<1> DEFINE f == [y \in S |-> y[x]]
           T == {y[x] : y \in S}
<1>1. f \in Surjection(S, T)
  BY DEF Surjection
<1> HIDE DEF f
<1> QED BY <1>1, FS_Surjection

\* The rank sum, with the group of v apart (which may be empty).
LEMMA RankSplit ==
  ASSUME NEW rows, NEW model, Scored(rows, model), NEW v,
         NEW V, V = {c[model] : c \in rows} \ {v},
         NEW f, \A w \in V : f[w] = Ranked(rows, model, w)
  PROVE  positiveRankSum(rows, model) = SumFunctionOnSet(f, V) + Ranked(rows, model, v)
<1> DEFINE values == {c[model] : c \in rows}
           g == [w \in values |-> Ranked(rows, model, w)]
<1>1. positiveRankSum(rows, model) = SumFunctionOnSet(g, values)
  BY DEF positiveRankSum, SumFunction, Ranked, Lower, Tied
<1>2. IsFiniteSet(values) /\ IsFiniteSet(V)
  <2>1. IsFiniteSet(values)
    BY FiniteImage DEF Scored
  <2> QED BY <2>1, FS_Subset
<1>3. \A w \in values : g[w] = Ranked(rows, model, w) /\ g[w] \in Int
  BY RankedType
<1>4. SumFunctionOnSet(g, V) = SumFunctionOnSet(f, V) /\ SumFunctionOnSet(f, V) \in Int
  <2> HIDE DEF g
  <2>1. \A w \in V : f[w] \in Int /\ f[w] = g[w]
    BY <1>3
  <2> QED BY <1>2, <2>1, SumEqual, SumType
<1>5. Ranked(rows, model, v) \in Int
  BY RankedType
<1>6. CASE v \in values
  <2> HIDE DEF g, values
  <2>1. SumFunctionOnSet(g, values) = g[v] + SumFunctionOnSet(g, values \ {v})
    BY <1>2, <1>3, <1>6, SumRemove
  <2>2. SumFunctionOnSet(g, values \ {v}) = SumFunctionOnSet(f, V)
    BY <1>4 DEF values
  <2>3. positiveRankSum(rows, model) = Ranked(rows, model, v) + SumFunctionOnSet(f, V)
    BY <1>1, <1>3, <1>6, <2>1, <2>2
  <2> QED BY <1>4, <1>5, <2>3
<1>7. CASE v \notin values
  <2>1. V = values /\ Tied(rows, model, v) = {}
    BY <1>7 DEF Tied
  <2>2. Count(Positives(Tied(rows, model, v))) = 0
    BY <2>1, CountOfNone DEF Positives
  <2>3. /\ Count(Lower(rows, model, v)) \in Nat /\ Count(Tied(rows, model, v)) = 0
    BY <2>1, CountOfNone, CountWithin DEF Lower, Scored
  <2>4. Ranked(rows, model, v) = 0
    BY <2>2, <2>3 DEF Ranked
  <2> HIDE DEF g, values
  <2>5. positiveRankSum(rows, model) = SumFunctionOnSet(f, V)
    BY <1>1, <1>4, <2>1
  <2> QED BY <1>4, <2>4, <2>5
<1> QED BY <1>6, <1>7

\* How the rank sum and the number of positives grow by n positives, among kp
\* positives and kn negatives of their score and lp and ln below it.
LEMMA RankArithmetic ==
  ASSUME NEW kp \in Nat, NEW kn \in Nat, NEW lp \in Nat, NEW ln \in Nat, NEW n \in Nat
  PROVE  LET old == kp * (2 * (1 + (lp + ln)) + (kp + kn) - 1)
             tied == 2 * (1 + (lp + ln)) + (kp + kn + n) - 1
             p == lp + kp
         IN /\ kp * tied = old + n * kp
            /\ (kp + n) * tied - (p + n) * (p + n + 1) = old - p * (p + 1) + n * (2 * ln + kn)
OBVIOUS

\* The groups of v, by class: nothing lies above v.
LEMMA Classes ==
  ASSUME NEW S, NEW model, Scored(S, model), NEW v \in Int, \A c \in S : c[model] <= v
  PROVE  LET kp == Count(Tied(Positives(S), model, v))
             kn == Count(Tied(Negatives(S), model, v))
             lp == Count(Lower(Positives(S), model, v))
             ln == Count(Lower(Negatives(S), model, v))
         IN /\ kp \in Nat /\ kn \in Nat /\ lp \in Nat /\ ln \in Nat
            /\ Count(Tied(S, model, v)) = kp + kn
            /\ Count(Lower(S, model, v)) = lp + ln
            /\ Count(Positives(S)) = lp + kp
            /\ Count(Positives(Tied(S, model, v))) = kp
<1> DEFINE P == Positives(S)
           N == Negatives(S)
<1>1. /\ Tied(S, model, v) = Tied(P, model, v) \cup Tied(N, model, v)
      /\ Tied(P, model, v) \cap Tied(N, model, v) = {}
  BY DEF Tied, Positives, Negatives
<1>2. /\ Lower(S, model, v) = Lower(P, model, v) \cup Lower(N, model, v)
      /\ Lower(P, model, v) \cap Lower(N, model, v) = {}
  BY DEF Lower, Positives, Negatives
<1>3. P = Lower(P, model, v) \cup Tied(P, model, v)
  BY DEF Lower, Tied, Positives, Scored
<1>4. Lower(P, model, v) \cap Tied(P, model, v) = {}
  <2>1. \A c \in P : c[model] \in Int
    BY DEF Positives, Scored
  <2> QED BY <2>1 DEF Lower, Tied
<1>5. Positives(Tied(S, model, v)) = Tied(P, model, v)
  BY DEF Tied, Positives
<1>6. /\ Tied(P, model, v) \in SUBSET S /\ Tied(N, model, v) \in SUBSET S
      /\ Lower(P, model, v) \in SUBSET S /\ Lower(N, model, v) \in SUBSET S
  BY DEF Lower, Tied, Positives, Negatives
<1>7. /\ IsFiniteSet(Tied(P, model, v)) /\ IsFiniteSet(Tied(N, model, v))
      /\ IsFiniteSet(Lower(P, model, v)) /\ IsFiniteSet(Lower(N, model, v))
      /\ \A c \in S : c.n \in Nat
  BY <1>6, FS_Subset DEF Scored
<1> HIDE DEF P, N
<1>8. /\ Count(Tied(S, model, v)) = Count(Tied(P, model, v)) + Count(Tied(N, model, v))
      /\ Count(Tied(P, model, v)) \in Nat /\ Count(Tied(N, model, v)) \in Nat
  BY <1>1, <1>6, <1>7, CountJoined
<1>9. /\ Count(Lower(S, model, v)) = Count(Lower(P, model, v)) + Count(Lower(N, model, v))
      /\ Count(Lower(P, model, v)) \in Nat /\ Count(Lower(N, model, v)) \in Nat
  BY <1>2, <1>6, <1>7, CountJoined
<1>10. Count(P) = Count(Lower(P, model, v)) + Count(Tied(P, model, v))
  <2>1. Count(Lower(P, model, v) \cup Tied(P, model, v)) =
          Count(Lower(P, model, v)) + Count(Tied(P, model, v))
    BY <1>4, <1>6, <1>7, CountJoined
  <2> QED BY <1>3, <2>1
<1> QED BY <1>5, <1>8, <1>9, <1>10 DEF P, N

\* The same sum, whatever the pairs are part of.
LEMMA PairsWithin ==
  ASSUME NEW T, NEW model, Scored(T, model), NEW R \in SUBSET T,
         NEW h, h = [pq \in T \X T |-> Worth(pq[1], pq[2], model)]
  PROVE  /\ PairsInOrder(R, model) = SumFunctionOnSet(h, Positives(R) \X Negatives(R))
         /\ PairsInOrder(R, model) \in Int
<1> DEFINE Q == Positives(R) \X Negatives(R)
           g == [pq \in Q |-> Worth(pq[1], pq[2], model)]
<1>1. PairsInOrder(R, model) = SumFunctionOnSet(g, Q)
  BY DEF PairsInOrder, SumFunction, Worth
<1>2. \A pq \in Q : g[pq] = h[pq] /\ g[pq] \in Int
  <2>1. \A pq \in Q : pq \in T \X T /\ pq[1] \in T /\ pq[2] \in T
    BY DEF Positives, Negatives
  <2> QED BY <2>1, WorthType DEF Scored
<1>3. IsFiniteSet(Q)
  <2>1. Positives(R) \in SUBSET T /\ Negatives(R) \in SUBSET T
    BY DEF Positives, Negatives
  <2>2. IsFiniteSet(Positives(R)) /\ IsFiniteSet(Negatives(R))
    BY <2>1, FS_Subset DEF Scored
  <2> QED BY <2>2, FS_Product
<1> HIDE DEF g, Q
<1>4. SumFunctionOnSet(g, Q) = SumFunctionOnSet(h, Q) /\ SumFunctionOnSet(g, Q) \in Int
  BY <1>2, <1>3, SumEqual, SumType
<1> QED BY <1>1, <1>4 DEF Q

\* A cell that joins below or at no other score keeps ranks and pairs in step.
LEMMA HighestJoins ==
  ASSUME NEW S, NEW m, m \notin S, NEW model, Scored(S \cup {m}, model),
         \A c \in S : c[model] <= m[model],
         AucPairs(S, model) = PairsInOrder(S, model)
  PROVE  AucPairs(S \cup {m}, model) = PairsInOrder(S \cup {m}, model)
<1> DEFINE T == S \cup {m}
           v == m[model]
           V == {c[model] : c \in S} \ {v}
           f == [w \in V |-> Ranked(S, model, w)]
           P == Positives(S)
           N == Negatives(S)
           kp == Count(Tied(P, model, v))
           kn == Count(Tied(N, model, v))
           lp == Count(Lower(P, model, v))
           ln == Count(Lower(N, model, v))
           h == [pq \in T \X T |-> Worth(pq[1], pq[2], model)]
<1>1. /\ Scored(S, model) /\ v \in Int /\ m.n \in Nat /\ IsFiniteSet(P) /\ IsFiniteSet(N)
      /\ Scored(P, model) /\ Scored(N, model)
  <2>1. S \in SUBSET T /\ P \in SUBSET T /\ N \in SUBSET T
    BY DEF Positives, Negatives
  <2> QED BY <2>1, FS_Subset DEF Scored
<1>2. positiveRankSum(S, model) = SumFunctionOnSet(f, V) + Ranked(S, model, v)
  <2>1. \A w \in V : f[w] = Ranked(S, model, w)
    OBVIOUS
  <2> HIDE DEF f
  <2> QED BY <1>1, <2>1, RankSplit
<1>3. positiveRankSum(T, model) = SumFunctionOnSet(f, V) + Ranked(T, model, v)
  <2>1. V = {c[model] : c \in T} \ {v}
    OBVIOUS
  <2>2. ASSUME NEW w \in V
        PROVE  f[w] = Ranked(T, model, w)
    <3>1. w \in Int /\ w # v /\ w <= v
      BY DEF Scored
    <3>2. Lower(T, model, w) = Lower(S, model, w) /\ Tied(T, model, w) = Tied(S, model, w)
      BY <1>1, <3>1 DEF Lower, Tied
    <3> QED BY <3>2 DEF Ranked
  <2>3. Scored(T, model)
    OBVIOUS
  <2> HIDE DEF f, V, T
  <2> QED BY <2>1, <2>2, <2>3, RankSplit
<1>4. SumFunctionOnSet(f, V) \in Int
  <2>1. IsFiniteSet(V)
    <3>1. IsFiniteSet({c[model] : c \in S})
      BY <1>1, FiniteImage DEF Scored
    <3> QED BY <3>1, FS_Subset
  <2>2. \A w \in V : f[w] \in Int
    BY <1>1, RankedType
  <2> HIDE DEF f, V
  <2> QED BY <2>1, <2>2, SumType
<1>5. /\ kp \in Nat /\ kn \in Nat /\ lp \in Nat /\ ln \in Nat
      /\ Count(Tied(S, model, v)) = kp + kn
      /\ Count(Lower(S, model, v)) = lp + ln
      /\ Count(Positives(S)) = lp + kp
      /\ Count(Positives(Tied(S, model, v))) = kp
  BY <1>1, Classes
<1>6. Ranked(S, model, v) = kp * (2 * (1 + (lp + ln)) + (kp + kn) - 1)
  BY <1>5, Zenon DEF Ranked
<1>7. Count(Tied(T, model, v)) = kp + kn + m.n /\ Count(Lower(T, model, v)) = lp + ln
  <2>1. /\ Tied(T, model, v) = Tied(S, model, v) \cup {m} /\ m \notin Tied(S, model, v)
        /\ Lower(T, model, v) = Lower(S, model, v)
    BY <1>1 DEF Tied, Lower
  <2>2. IsFiniteSet(Tied(S, model, v)) /\ \A c \in Tied(S, model, v) \cup {m} : c.n \in Nat
    <3>1. Tied(S, model, v) \in SUBSET S
      BY DEF Tied
    <3> QED BY <1>1, <3>1, FS_Subset DEF Scored
  <2>3. Count(Tied(S, model, v) \cup {m}) = Count(Tied(S, model, v)) + m.n
    BY <2>1, <2>2, CountMore
  <2> HIDE DEF kp, kn, lp, ln, T
  <2> QED BY <1>5, <2>1, <2>3
<1>8. /\ PairsInOrder(S, model) = SumFunctionOnSet(h, P \X N)
      /\ PairsInOrder(T, model) = SumFunctionOnSet(h, Positives(T) \X Negatives(T))
      /\ PairsInOrder(S, model) \in Int
  <2>1. S \in SUBSET T /\ T \in SUBSET T /\ Scored(T, model)
    OBVIOUS
  <2>2. h = [pq \in T \X T |-> Worth(pq[1], pq[2], model)]
    OBVIOUS
  <2> HIDE DEF h, T
  <2> QED BY <2>1, <2>2, PairsWithin
<1>9. \A a, b \in T : h[<<a, b>>] = Worth(a, b, model) /\ h[<<a, b>>] \in Int
  BY WorthType DEF Scored
<1> DEFINE n == m.n
           X == SumFunctionOnSet(f, V)
           old == kp * (2 * (1 + (lp + ln)) + (kp + kn) - 1)
           tied == 2 * (1 + (lp + ln)) + (kp + kn + n) - 1
           p == lp + kp
<1>10. AucPairs(S, model) = (X + old) - p * (p + 1)
  <2>1. positiveRankSum(S, model) = X + old
    BY <1>2, <1>6
  <2>2. Count(Positives(S)) = p
    BY <1>5
  <2> HIDE DEF X, old, p, P
  <2>3. AucPairs(S, model) =
          positiveRankSum(S, model) - Count(Positives(S)) * (Count(Positives(S)) + 1)
    BY DEF AucPairs
  <2> QED BY <2>1, <2>2, <2>3
<1>11. CASE IsPositive(m)
  <2>1. /\ Positives(T) = P \cup {m} /\ Negatives(T) = N /\ m \notin P
        /\ Positives(Tied(T, model, v)) = Tied(P, model, v) \cup {m}
    BY <1>11 DEF Positives, Negatives, Tied
  <2>2. Count(P \cup {m}) = p + n
    <3>1. Count(P \cup {m}) = Count(P) + n
      <4>1. \A c \in P \cup {m} : c.n \in Nat
        BY <1>1 DEF Scored
      <4> HIDE DEF P
      <4> QED BY <1>1, <2>1, <4>1, CountMore
    <3> QED BY <1>5, <3>1
  <2>3. Count(Tied(P, model, v) \cup {m}) = kp + n
    <3>1. IsFiniteSet(Tied(P, model, v)) /\ \A c \in Tied(P, model, v) \cup {m} : c.n \in Nat
      <4>1. Tied(P, model, v) \in SUBSET P
        BY DEF Tied
      <4> QED BY <1>1, <4>1, FS_Subset DEF Scored
    <3>2. m \notin Tied(P, model, v)
      BY <2>1 DEF Tied
    <3> HIDE DEF P
    <3> QED BY <3>1, <3>2, CountMore
  <2>4. Ranked(T, model, v) = (kp + n) * tied
    BY <1>7, <2>1, <2>3, Zenon DEF Ranked
  <2>5. SumFunctionOnSet(h, (P \cup {m}) \X N) =
          SumFunctionOnSet(h, P \X N) + SumFunctionOnSet(h, {m} \X N)
    <3>1. /\ (P \cup {m}) \X N = (P \X N) \cup ({m} \X N)
          /\ (P \X N) \cap ({m} \X N) = {}
      BY <2>1
    <3>2. IsFiniteSet(P \X N) /\ IsFiniteSet({m} \X N)
      BY <1>1, FS_Product, FS_Singleton
    <3>3. \A y \in (P \X N) \cup ({m} \X N) : h[y] \in Int
      <4>1. \A y \in (P \X N) \cup ({m} \X N) : \E a, b \in T : y = <<a, b>>
        BY DEF Positives, Negatives
      <4> HIDE DEF h, T
      <4> QED BY <1>9, <4>1
    <3> HIDE DEF h, P, N
    <3> QED BY <3>1, <3>2, <3>3, SumUnion
  <2>6. SumFunctionOnSet(h, {m} \X N) = n * (2 * ln + kn)
    <3>1. \A q \in N : q[model] <= v /\ h[<<m, q>>] = Worth(m, q, model)
      BY <1>9 DEF Negatives
    <3> HIDE DEF h, N
    <3> QED BY <1>1, <3>1, PairsBelow
  <2>7. AucPairs(T, model) = (X + (kp + n) * tied) - (p + n) * (p + n + 1)
    <3>1. positiveRankSum(T, model) = X + (kp + n) * tied
      BY <1>3, <2>4
    <3>2. Count(Positives(T)) = p + n
      BY <2>1, <2>2
    <3> HIDE DEF X, tied, p, n, kp, T
    <3>3. AucPairs(T, model) =
            positiveRankSum(T, model) - Count(Positives(T)) * (Count(Positives(T)) + 1)
      BY DEF AucPairs
    <3> QED BY <3>1, <3>2, <3>3
  <2>8. (kp + n) * tied - (p + n) * (p + n + 1) = old - p * (p + 1) + n * (2 * ln + kn)
    <3> HIDE DEF kp, kn, lp, ln
    <3> QED BY <1>1, <1>5, RankArithmetic
  <2>9. AucPairs(T, model) = AucPairs(S, model) + n * (2 * ln + kn)
    <3> DEFINE a == (kp + n) * tied
               b == (p + n) * (p + n + 1)
               c == p * (p + 1)
               d == n * (2 * ln + kn)
    <3>1. X \in Int /\ old \in Int /\ a \in Int /\ b \in Int /\ c \in Int /\ d \in Int
      <4> HIDE DEF kp, kn, lp, ln, X
      <4> QED BY <1>1, <1>4, <1>5 DEF X
    <3> HIDE DEF X, old, a, b, c, d
    <3>2. (X + a) - b = ((X + old) - c) + d
      BY <2>8, <3>1 DEF a, b, c, d
    <3> QED BY <1>10, <2>7, <3>2 DEF a, b, c, d
  <2> HIDE DEF h, T, P, N
  <2>10. PairsInOrder(T, model) = PairsInOrder(S, model) + n * (2 * ln + kn)
    BY <1>8, <2>1, <2>5, <2>6
  <2> QED BY <2>9, <2>10 DEF T
<1>12. CASE ~IsPositive(m)
  <2>1. /\ Positives(T) = P /\ Negatives(T) = N \cup {m} /\ m \notin N
        /\ Positives(Tied(T, model, v)) = Tied(P, model, v)
    BY <1>12 DEF Positives, Negatives, Tied
  <2>2. Ranked(T, model, v) = kp * tied
    BY <1>7, <2>1, Zenon DEF Ranked
  <2>3. SumFunctionOnSet(h, P \X (N \cup {m})) =
          SumFunctionOnSet(h, P \X N) + SumFunctionOnSet(h, P \X {m})
    <3>1. /\ P \X (N \cup {m}) = (P \X N) \cup (P \X {m})
          /\ (P \X N) \cap (P \X {m}) = {}
      BY <2>1
    <3>2. IsFiniteSet(P \X N) /\ IsFiniteSet(P \X {m})
      BY <1>1, FS_Product, FS_Singleton
    <3>3. \A y \in (P \X N) \cup (P \X {m}) : h[y] \in Int
      <4>1. \A y \in (P \X N) \cup (P \X {m}) : \E a, b \in T : y = <<a, b>>
        BY DEF Positives, Negatives
      <4> HIDE DEF h, T
      <4> QED BY <1>9, <4>1
    <3> HIDE DEF h, P, N
    <3> QED BY <3>1, <3>2, <3>3, SumUnion
  <2>4. SumFunctionOnSet(h, P \X {m}) = n * kp
    <3>1. \A q \in P : q[model] <= v /\ h[<<q, m>>] = Worth(q, m, model)
      BY <1>9 DEF Positives
    <3> HIDE DEF h, P
    <3> QED BY <1>1, <3>1, PairsTied
  <2>5. AucPairs(T, model) = (X + kp * tied) - p * (p + 1)
    <3>1. positiveRankSum(T, model) = X + kp * tied
      BY <1>3, <2>2
    <3>2. Count(Positives(T)) = p
      BY <1>5, <2>1
    <3> HIDE DEF X, tied, p, n, kp, T
    <3>3. AucPairs(T, model) =
            positiveRankSum(T, model) - Count(Positives(T)) * (Count(Positives(T)) + 1)
      BY DEF AucPairs
    <3> QED BY <3>1, <3>2, <3>3
  <2>6. kp * tied = old + n * kp
    <3> HIDE DEF kp, kn, lp, ln
    <3> QED BY <1>1, <1>5, RankArithmetic
  <2>7. AucPairs(T, model) = AucPairs(S, model) + n * kp
    <3> DEFINE a == kp * tied
               c == p * (p + 1)
               d == n * kp
    <3>1. X \in Int /\ old \in Int /\ a \in Int /\ c \in Int /\ d \in Int
      <4> HIDE DEF kp, kn, lp, ln, X
      <4> QED BY <1>1, <1>4, <1>5 DEF X
    <3> HIDE DEF X, old, a, c, d
    <3>2. (X + a) - c = ((X + old) - c) + d
      BY <2>6, <3>1 DEF a, c, d
    <3> QED BY <1>10, <2>5, <3>2 DEF a, c, d
  <2> HIDE DEF h, T, P, N
  <2>8. PairsInOrder(T, model) = PairsInOrder(S, model) + n * kp
    BY <1>8, <2>1, <2>3, <2>4
  <2> QED BY <2>7, <2>8 DEF T
<1> QED BY <1>11, <1>12

(***************************************************************************)
(* The sum over ranks, in which equal scores share their mean rank, counts *)
(* the pairs that the score puts in order, ties half (computeRocAuc), for  *)
(* any samples.                                                            *)
(***************************************************************************)
THEOREM RanksCountPairs ==
  ASSUME NEW rows, NEW model, Scored(rows, model)
  PROVE  AucPairs(rows, model) = PairsInOrder(rows, model)
<1> DEFINE D == {T \in SUBSET rows : AucPairs(T, model) # PairsInOrder(T, model)}
<1>1. SUFFICES ASSUME D # {} PROVE FALSE
  OBVIOUS
<1>2. PICK T \in D : \A U \in D : U \subseteq T => U = T
  <2>1. IsFiniteSet(rows) /\ D \in SUBSET SUBSET rows
    BY DEF Scored
  <2> HIDE DEF D
  <2> QED BY <1>1, <2>1, MinimalSet
<1>3. AucPairs({}, model) = PairsInOrder({}, model)
  <2>1. positiveRankSum({}, model) = 0
    BY SumEmpty DEF positiveRankSum, SumFunction
  <2>2. Count(Positives({})) = 0
    BY CountOfNone DEF Positives
  <2>3. PairsInOrder({}, model) = 0
    <3>1. Positives({}) \X Negatives({}) = {}
      BY DEF Positives
    <3> QED BY <3>1, SumEmpty DEF PairsInOrder, SumFunction
  <2> QED BY <2>1, <2>2, <2>3 DEF AucPairs
<1>4. Scored(T, model) /\ T # {}
  BY <1>2, <1>3, FS_Subset DEF Scored
<1>5. PICK m \in T : \A c \in T : c[model] <= m[model]
  BY <1>4, HighestScore
<1> DEFINE S == T \ {m}
<1>6. S \cup {m} = T /\ m \notin S /\ S \subseteq T /\ S # T /\ S \in SUBSET rows
  OBVIOUS
<1>7. AucPairs(S, model) = PairsInOrder(S, model)
  BY <1>2, <1>6
<1>8. AucPairs(S \cup {m}, model) = PairsInOrder(S \cup {m}, model)
  <2>1. Scored(S \cup {m}, model)
    BY <1>4, <1>6
  <2>2. \A c \in S : c[model] <= m[model]
    BY <1>5
  <2> HIDE DEF S
  <2> QED BY <1>6, <1>7, <2>1, <2>2, HighestJoins
<1> QED BY <1>2, <1>6, <1>8

\* The samples that the comparison of a cohort rests on.
CohortRows(corpus, t, k) == {c \in Complete(corpus, t) : c.cohort = k}

LEMMA RowsScored ==
  ASSUME NEW corpus \in Corpora, NEW t, NEW k
  PROVE  /\ Scored(CohortRows(corpus, t, k), "shadow")
         /\ Scored(CohortRows(corpus, t, k), "v4")
<1>1. CohortRows(corpus, t, k) \in SUBSET corpus
  BY DEF CohortRows, Complete
<1>2. IsFiniteSet(CohortRows(corpus, t, k))
  BY <1>1, CorporaAssumption, FS_Subset
<1> QED BY <1>1, <1>2, CorporaAssumption DEF Scored

\* What is due stays due.
LEMMA RowsGrow ==
  ASSUME NEW corpus \in Corpora, NEW t \in Int, NEW u \in Int, t <= u, NEW k
  PROVE  CohortRows(corpus, t, k) \subseteq CohortRows(corpus, u, k)
BY CorporaAssumption DEF CohortRows, Complete

ProvisionalAt(t) ==
  compare.provisional = buildComparison(compare.corpus, t, TRUE, compare.attested)
ComparedAt(t) ==
  compare.comparison =
    buildComparison(compare.corpus, t, compare.deterministic, compare.attested)

LEMMA ProvisionalRows ==
  ASSUME NEW t, ProvisionalAt(t), NEW p \in compare.provisional
  PROVE  p.rows = CohortRows(compare.corpus, t, p.cohort)
<1> DEFINE outcome(k) == IF k = Primary
                         THEN status(CohortRows(compare.corpus, t, k), TRUE, compare.attested)
                         ELSE "exploratory"
           row(k) == [cohort |-> k, rows |-> CohortRows(compare.corpus, t, k),
                      promotionStatus |-> outcome(k)]
           cohorts == {c.cohort : c \in Complete(compare.corpus, t)}
<1>1. compare.provisional = {row(k) : k \in cohorts}
  BY DEF ProvisionalAt, buildComparison, CohortRows
<1>2. PICK k \in cohorts : p = row(k)
  <2> HIDE DEF row, cohorts
  <2> QED BY <1>1
<1>3. p.rows = CohortRows(compare.corpus, t, k) /\ p.cohort = k
  <2> HIDE DEF outcome
  <2> QED BY <1>2
<1> QED BY <1>3

LEMMA ComparedRows ==
  ASSUME NEW t, ComparedAt(t), NEW a \in compare.comparison
  PROVE  /\ a.rows = CohortRows(compare.corpus, t, a.cohort)
         /\ a.promotionStatus = "eligible-for-review" =>
              a.cohort = Primary /\ Improves(a.rows) /\ compare.attested
<1> DEFINE reached(k) == status(CohortRows(compare.corpus, t, k), compare.deterministic,
                                compare.attested)
           row(k) == [cohort |-> k, rows |-> CohortRows(compare.corpus, t, k),
                      promotionStatus |-> IF k = Primary THEN reached(k) ELSE "exploratory"]
           cohorts == {c.cohort : c \in Complete(compare.corpus, t)}
<1>1. compare.comparison = {row(k) : k \in cohorts}
  BY DEF ComparedAt, buildComparison, CohortRows
<1>2. PICK k \in cohorts : a = row(k)
  <2> HIDE DEF row, cohorts
  <2> QED BY <1>1
<1> DEFINE outcome == reached(k)
<1>3. /\ a.cohort = k /\ a.rows = CohortRows(compare.corpus, t, k)
      /\ a.promotionStatus = IF k = Primary THEN outcome ELSE "exploratory"
  <2> HIDE DEF reached
  <2> QED BY <1>2
<1>4. ASSUME a.promotionStatus = "eligible-for-review"
      PROVE  a.cohort = Primary /\ Improves(a.rows) /\ compare.attested
  <2>1. k = Primary /\ outcome = "eligible-for-review"
    <3> HIDE DEF outcome
    <3> QED BY <1>3, <1>4
  <2>2. Improves(a.rows) /\ compare.attested
    BY <1>3, <2>1, Zenon DEF status
  <2> QED BY <1>3, <2>1, <2>2
<1> QED BY <1>3, <1>4, Zenon

\* What the command has built so far, and when.
CompareInv ==
  /\ now \in Int
  /\ DOMAIN compare = DOMAIN CompareIdle
  /\ compare.pc \in {"idle", "again", "final", "done"}
  /\ compare.pc = "idle" => compare.provisional = {}
  /\ compare.pc # "done" => compare.comparison = {}
  /\ compare.pc # "idle" =>
       /\ compare.corpus \in Corpora
       /\ \E t \in Int : /\ t <= now /\ ProvisionalAt(t)
                         /\ compare.pc = "done" => \E u \in Int : t <= u /\ ComparedAt(u)

LEMMA CompareStep == CompareInv /\ [Next]_vars => CompareInv'
<1> SUFFICES ASSUME CompareInv, [Next]_vars PROVE CompareInv'
  OBVIOUS
<1>1. CASE UNCHANGED evaluated
  <2>1. now' = now /\ compare' = compare
    BY <1>1 DEF evaluated
  <2> QED BY <2>1 DEF CompareInv, ProvisionalAt, ComparedAt
<1>2. CASE CompareProvisional
  <2>1. PICK corpus \in Corpora, attested \in BOOLEAN :
          compare' = [compare EXCEPT !.pc = "again", !.corpus = corpus, !.attested = attested,
                        !.provisional = buildComparison(corpus, now, TRUE, attested)]
    BY <1>2 DEF CompareProvisional
  <2>2. /\ DOMAIN compare' = DOMAIN CompareIdle /\ compare'.pc = "again"
        /\ compare'.corpus = corpus /\ compare'.attested = attested
        /\ compare'.provisional = buildComparison(corpus, now, TRUE, attested)
        /\ compare'.comparison = compare.comparison
    BY <2>1 DEF CompareInv, CompareIdle
  <2>3. now' = now /\ compare.pc = "idle"
    BY <1>2 DEF CompareProvisional
  <2>4. ProvisionalAt(now)'
    BY <2>2, <2>3, Zenon DEF ProvisionalAt
  <2> QED BY <2>2, <2>3, <2>4 DEF CompareInv
<1>3. CASE CompareAgain
  <2>1. PICK d : compare' = [compare EXCEPT !.pc = "final", !.deterministic = d]
    BY <1>3 DEF CompareAgain
  <2>2. /\ DOMAIN compare' = DOMAIN CompareIdle /\ compare'.pc = "final"
        /\ compare'.corpus = compare.corpus /\ compare'.attested = compare.attested
        /\ compare'.provisional = compare.provisional
        /\ compare'.comparison = compare.comparison
    BY <2>1 DEF CompareInv, CompareIdle
  <2>3. now' = now /\ compare.pc = "again"
    BY <1>3 DEF CompareAgain
  <2>4. \A t : ProvisionalAt(t) => ProvisionalAt(t)'
    BY <2>2, Zenon DEF ProvisionalAt
  <2> QED BY <2>2, <2>3, <2>4 DEF CompareInv
<1>4. CASE CompareFinal
  <2> DEFINE built == buildComparison(compare.corpus, now, compare.deterministic, compare.attested)
  <2>1. compare' = [compare EXCEPT !.pc = "done", !.comparison = built]
    BY <1>4 DEF CompareFinal
  <2>2. /\ DOMAIN compare' = DOMAIN CompareIdle /\ compare'.pc = "done"
        /\ compare'.corpus = compare.corpus /\ compare'.attested = compare.attested
        /\ compare'.provisional = compare.provisional
        /\ compare'.deterministic = compare.deterministic
        /\ compare'.comparison = built
    BY <2>1 DEF CompareInv, CompareIdle
  <2>3. now' = now /\ compare.pc = "final"
    BY <1>4 DEF CompareFinal
  <2>4. \A t : ProvisionalAt(t) => ProvisionalAt(t)'
    BY <2>2, Zenon DEF ProvisionalAt
  <2>5. ComparedAt(now)'
    BY <2>2, <2>3, Zenon DEF ComparedAt
  <2>6. compare.pc # "idle"
    BY <2>3
  <2>7. \E t \in Int : /\ t <= now' /\ ProvisionalAt(t)'
                       /\ \E u \in Int : t <= u /\ ComparedAt(u)'
    BY <2>3, <2>4, <2>5, <2>6 DEF CompareInv
  <2> HIDE DEF built
  <2> QED BY <2>2, <2>3, <2>6, <2>7 DEF CompareInv
<1>5. CASE Tick
  <2>1. compare' = compare /\ now' = now + 1 /\ compare.pc # "done"
    BY <1>5 DEF Tick
  <2>2. \A t : ProvisionalAt(t) => ProvisionalAt(t)'
    BY <2>1 DEF ProvisionalAt
  <2>3. \A t \in Int : t <= now => t <= now'
    BY <2>1 DEF CompareInv
  <2> QED BY <2>1, <2>2, <2>3 DEF CompareInv
<1> QED BY <1>1, <1>2, <1>3, <1>4, <1>5
      DEF Next, vars, Edit, Reconfigure, Scan, Diff, GatePolicy, GateDiagnose, GateQuality,
          GateEvaluate, RewritePolicy,
          Recalibrate, evaluated

(***************************************************************************)
(* A score model is eligible for promotion only if it puts at least 3 %    *)
(* more pairs in order than the current one, over every sample that the    *)
(* provisional comparison saw (buildChecks, compareValidationModels), for  *)
(* any samples, thresholds and times.                                      *)
(***************************************************************************)
THEOREM PromotionEarned == Spec => []PromotionIsEarned
<1>1. Init => CompareInv
  <2>1. Init => now = 0 /\ compare = CompareIdle
    BY DEF Init
  <2>2. CompareIdle.pc = "idle" /\ CompareIdle.provisional = {} /\ CompareIdle.comparison = {}
    BY DEF CompareIdle
  <2>3. CompareIdle.pc # "done"
    BY <2>2
  <2> QED BY <2>1, <2>2, <2>3 DEF CompareInv
<1>2. CompareInv => PromotionIsEarned
  <2> SUFFICES ASSUME CompareInv, NEW a \in compare.comparison
               PROVE  /\ AucPairs(a.rows, "shadow") = PairsInOrder(a.rows, "shadow")
                      /\ \A p \in compare.provisional : p.cohort = a.cohort => p.rows \subseteq a.rows
                      /\ a.promotionStatus = "eligible-for-review" =>
                           LET pairs == Count(Positives(a.rows)) * Count(Negatives(a.rows))
                           IN /\ a.cohort = Primary /\ compare.attested
                              /\ 100 * (PairsInOrder(a.rows, "shadow") - PairsInOrder(a.rows, "v4"))
                                   >= 6 * pairs
    BY DEF PromotionIsEarned
  <2>1. compare.corpus \in Corpora /\ compare.pc = "done"
    BY DEF CompareInv
  <2>2. PICK t \in Int, u \in Int : t <= u /\ ProvisionalAt(t) /\ ComparedAt(u)
    BY <2>1 DEF CompareInv
  <2>3. /\ a.rows = CohortRows(compare.corpus, u, a.cohort)
        /\ a.promotionStatus = "eligible-for-review" =>
             a.cohort = Primary /\ Improves(a.rows) /\ compare.attested
    BY <2>2, ComparedRows, Zenon
  <2>4. /\ AucPairs(a.rows, "shadow") = PairsInOrder(a.rows, "shadow")
        /\ AucPairs(a.rows, "v4") = PairsInOrder(a.rows, "v4")
    BY <2>1, <2>3, RowsScored, RanksCountPairs
  <2>5. ASSUME NEW p \in compare.provisional, p.cohort = a.cohort
        PROVE  p.rows \subseteq a.rows
    <3>1. p.rows = CohortRows(compare.corpus, t, a.cohort)
        <4>1. p.rows = CohortRows(compare.corpus, t, p.cohort)
        BY <2>2, ProvisionalRows
      <4> QED BY <2>5, <4>1
    <3> QED BY <2>1, <2>2, <2>3, <3>1, RowsGrow
  <2>6. ASSUME Improves(a.rows)
        PROVE  100 * (PairsInOrder(a.rows, "shadow") - PairsInOrder(a.rows, "v4"))
                 >= 6 * (Count(Positives(a.rows)) * Count(Negatives(a.rows)))
    <3> DEFINE pairs == Count(Positives(a.rows)) * Count(Negatives(a.rows))
    <3>1. 100 * (AucPairs(a.rows, "shadow") - AucPairs(a.rows, "v4")) >= 3 * 2 * pairs
      BY <2>6, Zenon DEF Improves
    <3> HIDE DEF pairs
    <3>2. 3 * 2 * pairs = 6 * pairs
      OBVIOUS
    <3> QED BY <2>4, <3>1, <3>2 DEF pairs
  <2> QED BY <2>3, <2>4, <2>5, <2>6, Zenon
<1> QED BY <1>1, <1>2, CompareStep, PTL DEF Spec

-----------------------------------------------------------------------------
(* What a search of the import graph reaches.                              *)

Heads(pairs) == {p[2] : p \in pairs}

\* The waves of a search.
Waves(wave, pairs, start, n) ==
  wave = [k \in 0 .. n |-> IF k = 0 THEN start ELSE ReachOnce(pairs, wave[k - 1])]

LEMMA WavesExist ==
  ASSUME NEW pairs, NEW start, NEW n \in Nat
  PROVE  \E wave : Waves(wave, pairs, start, n)
<1> DEFINE Bad == {m \in Nat : ~\E wave : Waves(wave, pairs, start, m)}
<1>1. SUFFICES ASSUME Bad # {} PROVE FALSE
  OBVIOUS
<1>2. PICK m \in Bad : \A l \in Bad : m <= l
  <2>1. Bad \in SUBSET Nat
    OBVIOUS
  <2> HIDE DEF Bad
  <2> QED BY <1>1, <2>1, LeastNatural
<1>3. m # 0
  <2>1. Waves([k \in 0 .. 0 |-> start], pairs, start, 0)
    BY DEF Waves
  <2> QED BY <1>2, <2>1
<1>4. m - 1 \in Nat /\ m - 1 \notin Bad
  BY <1>2, <1>3
<1>5. PICK wave : Waves(wave, pairs, start, m - 1)
  BY <1>4
<1> DEFINE more == [k \in 0 .. m |-> IF k = 0 THEN start ELSE ReachOnce(pairs, wave[k - 1])]
<1>6. 0 .. m - 1 \subseteq 0 .. m /\ \A k \in 0 .. m : k # 0 => k - 1 \in 0 .. m - 1
  BY <1>4
<1>7. \A k \in 0 .. m - 1 : more[k] = wave[k]
  BY <1>5, <1>6 DEF Waves
<1>8. Waves(more, pairs, start, m)
  BY <1>6, <1>7 DEF Waves
<1> QED BY <1>2, <1>8

Closed(pairs, C) == \A p \in pairs : p[1] \in C => p[2] \in C

\* Each wave that is not closed adds a node.
LEMMA WavesGrow ==
  ASSUME NEW pairs, IsFiniteSet(Heads(pairs)), NEW f, NEW n \in Nat,
         NEW wave, Waves(wave, pairs, {f}, n), ~Closed(pairs, wave[n])
  PROVE  \A k \in 0 .. n : /\ f \in wave[k] /\ wave[k] \subseteq {f} \cup Heads(pairs)
                           /\ ~Closed(pairs, wave[k])
                           /\ Cardinality(wave[k] \ {f}) >= k
<1>1. wave[0] = {f} /\ \A k \in 1 .. n : wave[k] = ReachOnce(pairs, wave[k - 1])
  <2>1. 0 \in 0 .. n /\ \A k \in 1 .. n : k \in 0 .. n /\ k # 0
    OBVIOUS
  <2>2. wave[0] = {f}
    BY <2>1 DEF Waves
  <2>3. ASSUME NEW k \in 1 .. n
        PROVE  wave[k] = ReachOnce(pairs, wave[k - 1])
    BY <2>1 DEF Waves
  <2> QED BY <2>2, <2>3
<1>2. ASSUME NEW k \in 1 .. n, Closed(pairs, wave[k - 1])
      PROVE  wave[k] = wave[k - 1]
  <2>1. Successors(pairs, wave[k - 1]) \subseteq wave[k - 1]
    BY <1>2 DEF Successors, Closed
  <2> QED BY <1>1, <2>1 DEF ReachOnce
<1>3. \A k \in 0 .. n : ~Closed(pairs, wave[k])
  <2> DEFINE Bad == {m \in Nat : m <= n /\ Closed(pairs, wave[n - m])}
  <2>1. SUFFICES ASSUME Bad # {} PROVE FALSE
    <3>1. \A k \in 0 .. n : n - k \in Nat /\ n - k <= n /\ n - (n - k) = k
      OBVIOUS
    <3> QED BY <2>1, <3>1
  <2>2. PICK m \in Bad : \A l \in Bad : m <= l
    <3>1. Bad \in SUBSET Nat
      OBVIOUS
    <3> HIDE DEF Bad
    <3> QED BY <2>1, <3>1, LeastNatural
  <2>3. m # 0
    <3>1. n - 0 = n
      OBVIOUS
    <3> QED BY <2>2, <3>1
  <2>4. m - 1 \in Nat /\ m - 1 <= n /\ n - m + 1 \in 1 .. n /\ (n - m + 1) - 1 = n - m
        /\ n - (m - 1) = n - m + 1
    BY <2>2, <2>3
  <2>5. wave[n - (m - 1)] = wave[n - m]
    BY <1>2, <2>2, <2>4
  <2>6. m - 1 \in Bad
    BY <2>2, <2>4, <2>5
  <2> QED BY <2>2, <2>4, <2>6
<1> DEFINE Fine(k) == /\ f \in wave[k] /\ wave[k] \subseteq {f} \cup Heads(pairs)
                      /\ Cardinality(wave[k] \ {f}) >= k
           Bad == {k \in 0 .. n : ~Fine(k)}
<1>4. SUFFICES ASSUME Bad # {} PROVE FALSE
  BY <1>3
<1>5. PICK k \in Bad : \A l \in Bad : k <= l
  <2>1. Bad \in SUBSET Nat
    OBVIOUS
  <2> HIDE DEF Bad
  <2> QED BY <1>4, <2>1, LeastNatural
<1>6. k # 0
  <2>1. wave[0] \ {f} = {} /\ f \in wave[0] /\ wave[0] \subseteq {f} \cup Heads(pairs)
    BY <1>1
  <2>2. Cardinality(wave[0] \ {f}) = 0
    BY <2>1, FS_EmptySet
  <2> QED BY <1>5, <2>1, <2>2
<1>7. k \in 1 .. n /\ k - 1 \in 0 .. n /\ k - 1 \notin Bad
  BY <1>5, <1>6
<1> DEFINE old == wave[k - 1]
<1>8. f \in old /\ old \subseteq {f} \cup Heads(pairs) /\ Cardinality(old \ {f}) >= k - 1
  BY <1>7
<1>9. wave[k] = old \cup Successors(pairs, old)
  BY <1>1, <1>7 DEF ReachOnce
<1>10. PICK p \in pairs : p[1] \in old /\ p[2] \notin old
  BY <1>3, <1>7 DEF Closed
<1>11. /\ f \in wave[k] /\ wave[k] \subseteq {f} \cup Heads(pairs)
       /\ (old \ {f}) \cup {p[2]} \subseteq wave[k] \ {f}
  BY <1>8, <1>9, <1>10 DEF Successors, Heads
<1>12. Cardinality(wave[k] \ {f}) >= k
  <2> HIDE DEF old
  <2>1. wave[k] \ {f} \in SUBSET Heads(pairs) /\ old \ {f} \in SUBSET Heads(pairs)
    BY <1>8, <1>11
  <2>2. IsFiniteSet(wave[k] \ {f}) /\ IsFiniteSet(old \ {f})
    BY <2>1, FS_Subset
  <2>3. Cardinality((old \ {f}) \cup {p[2]}) = Cardinality(old \ {f}) + 1
    BY <1>10, <2>2, FS_AddElement
  <2>4. Cardinality((old \ {f}) \cup {p[2]}) <= Cardinality(wave[k] \ {f})
    BY <1>11, <2>2, FS_Subset
  <2>5. Cardinality(wave[k] \ {f}) \in Nat /\ Cardinality(old \ {f}) \in Nat
    BY <2>2, FS_CardinalityType
  <2> QED BY <1>5, <1>8, <2>3, <2>4, <2>5
<1> QED BY <1>5, <1>11, <1>12

(***************************************************************************)
(* A search from f (transitiveReach, buildTestCoverageIndex) reaches f and *)
(* what the pairs lead to from f: the bound on its waves loses nothing.    *)
(***************************************************************************)
THEOREM SearchReachesBeyond ==
  ASSUME NEW pairs, IsFiniteSet(Heads(pairs)), NEW f
  PROVE  Reach(pairs, {f}) = {f} \cup Beyond(pairs, f)
<1> DEFINE n == Cardinality(Heads(pairs))
           wave == CHOOSE wave : Waves(wave, pairs, {f}, n)
<1>1. n \in Nat
  BY FS_CardinalityType
<1>2. Reach(pairs, {f}) = wave[n]
  BY DEF Reach, Waves, Heads
<1>3. Waves(wave, pairs, {f}, n)
  <2> HIDE DEF n
  <2> QED BY <1>1, WavesExist
<1> HIDE DEF wave, n
<1>4. Closed(pairs, wave[n])
  <2> SUFFICES ASSUME ~Closed(pairs, wave[n]) PROVE FALSE
    OBVIOUS
  <2>1. \A k \in 0 .. n : /\ f \in wave[k] /\ wave[k] \subseteq {f} \cup Heads(pairs)
                          /\ ~Closed(pairs, wave[k])
                          /\ Cardinality(wave[k] \ {f}) >= k
    BY <1>1, <1>3, WavesGrow
  <2>2. /\ f \in wave[n] /\ wave[n] \subseteq {f} \cup Heads(pairs)
        /\ Cardinality(wave[n] \ {f}) >= n
    BY <1>1, <2>1
  <2>3. wave[n] \ {f} \in SUBSET Heads(pairs)
    BY <2>2
  <2>4. IsFiniteSet(wave[n] \ {f}) /\ Cardinality(wave[n] \ {f}) <= n
        /\ (n = Cardinality(wave[n] \ {f}) => Heads(pairs) = wave[n] \ {f})
    BY <2>3, FS_Subset DEF n
  <2>5. Cardinality(wave[n] \ {f}) \in Nat
    BY <2>4, FS_CardinalityType
  <2>6. Heads(pairs) \subseteq wave[n]
    BY <1>1, <2>2, <2>4, <2>5
  <2> QED BY <2>6 DEF Closed, Heads
<1>5. \A k \in 0 .. n : f \in wave[k] /\ wave[k] \subseteq {f} \cup Beyond(pairs, f)
  <2> DEFINE Bad == {k \in 0 .. n : ~(f \in wave[k] /\ wave[k] \subseteq {f} \cup Beyond(pairs, f))}
  <2>1. SUFFICES ASSUME Bad # {} PROVE FALSE
    OBVIOUS
  <2>2. PICK k \in Bad : \A l \in Bad : k <= l
    <3>1. Bad \in SUBSET Nat
      OBVIOUS
    <3> HIDE DEF Bad
    <3> QED BY <2>1, <3>1, LeastNatural
  <2>3. wave[0] = {f}
    BY <1>1, <1>3 DEF Waves
  <2>4. k # 0
    BY <2>2, <2>3
  <2>5. k - 1 \in 0 .. n /\ k - 1 \notin Bad
    BY <1>1, <2>2, <2>4
  <2>6. wave[k] = wave[k - 1] \cup Successors(pairs, wave[k - 1])
    BY <1>3, <2>2, <2>4 DEF Waves, ReachOnce
  <2>7. Successors(pairs, wave[k - 1]) \subseteq Beyond(pairs, f)
    BY <2>5 DEF Successors, Beyond
  <2> QED BY <2>2, <2>5, <2>6, <2>7
<1>6. Beyond(pairs, f) \subseteq wave[n]
  <2> DEFINE C == wave[n] \cap Heads(pairs)
  <2>1. C \in SUBSET {p[2] : p \in pairs} /\ \A p \in pairs : p[1] \in C \cup {f} => p[2] \in C
    BY <1>1, <1>4, <1>5 DEF Closed, Heads
  <2> QED BY <2>1 DEF Beyond
<1>7. wave[n] \subseteq {f} \cup Beyond(pairs, f) /\ f \in wave[n]
  BY <1>1, <1>5
<1> QED BY <1>2, <1>6, <1>7

-----------------------------------------------------------------------------
(* The import graph.                                                       *)

Importing(tree, files) ==
  /\ files \subseteq File
  /\ \A f \in files : tree[f].imports \in Seq(DOMAIN Candidates)

ScriptsImport(s) == Importing(s.tree, Scripts(s))

LEMMA Resolves ==
  ASSUME NEW target \in DOMAIN Candidates, NEW available \in SUBSET File,
         NEW found, found = {i \in DOMAIN Candidates[target] : Candidates[target][i] \in available}
  PROVE  /\ found = {} => resolveRelativeImport(target, available) = target
         /\ found # {} =>
              /\ Min(found) \in found /\ \A i \in found : Min(found) <= i
              /\ resolveRelativeImport(target, available) = Candidates[target][Min(found)]
              /\ resolveRelativeImport(target, available) \in available
<1>1. found \in SUBSET Nat
  BY CandidatesAssumption
<1>2. ASSUME found # {}
      PROVE  Min(found) \in found /\ \A i \in found : Min(found) <= i
  BY <1>1, <1>2, LeastNatural DEF Min
<1> QED BY <1>2 DEF resolveRelativeImport

LEMMA ResolvedNode ==
  ASSUME NEW target \in DOMAIN Candidates, NEW available \in SUBSET File
  PROVE  resolveRelativeImport(target, available) \in available \cup {target}
<1> DEFINE found == {i \in DOMAIN Candidates[target] : Candidates[target][i] \in available}
<1>1. found = {i \in DOMAIN Candidates[target] : Candidates[target][i] \in available}
  OBVIOUS
<1> HIDE DEF found
<1> QED BY <1>1, Resolves

EdgesOf(tree, available, f) ==
  {[from |-> f, nth |-> i, to |-> resolveRelativeImport(tree[f].imports[i], available)] :
     i \in DOMAIN tree[f].imports}

\* Edges lead from files to files or to specifiers that mean none.
LEMMA EdgeOf ==
  ASSUME NEW tree, NEW files, NEW virtual \in SUBSET File, Importing(tree, files),
         NEW e \in buildImportGraph(tree, files, virtual)
  PROVE  /\ e.from \in files /\ e.nth \in DOMAIN tree[e.from].imports
         /\ e.to = resolveRelativeImport(tree[e.from].imports[e.nth], files \cup virtual)
         /\ e.to \in files \cup virtual \cup DOMAIN Candidates
<1>1. PICK f \in files : e \in EdgesOf(tree, files \cup virtual, f)
  BY DEF buildImportGraph, EdgesOf
<1>2. /\ e.from = f /\ e.nth \in DOMAIN tree[f].imports
      /\ e.to = resolveRelativeImport(tree[f].imports[e.nth], files \cup virtual)
  BY <1>1 DEF EdgesOf
<1>3. tree[f].imports[e.nth] \in DOMAIN Candidates /\ files \cup virtual \in SUBSET File
  BY <1>2 DEF Importing
<1>4. e.to \in (files \cup virtual) \cup {tree[f].imports[e.nth]}
  BY <1>2, <1>3, ResolvedNode
<1> QED BY <1>2, <1>3, <1>4

LEMMA EdgeFor ==
  ASSUME NEW tree, NEW files, NEW virtual, NEW f \in files, NEW i \in DOMAIN tree[f].imports
  PROVE  [from |-> f, nth |-> i,
          to |-> resolveRelativeImport(tree[f].imports[i], files \cup virtual)]
           \in buildImportGraph(tree, files, virtual)
BY DEF buildImportGraph

LEMMA EdgesFinite ==
  ASSUME NEW tree, NEW files, NEW virtual, Importing(tree, files)
  PROVE  IsFiniteSet(buildImportGraph(tree, files, virtual))
<1> DEFINE all(G) == UNION {EdgesOf(tree, files \cup virtual, f) : f \in G}
           D == {G \in SUBSET files : ~IsFiniteSet(all(G))}
<1>1. buildImportGraph(tree, files, virtual) = all(files)
  BY DEF buildImportGraph, EdgesOf
<1>2. SUFFICES ASSUME D # {} PROVE FALSE
  BY <1>1
<1>3. PICK G \in D : \A H \in D : H \subseteq G => H = G
  <2>1. IsFiniteSet(files) /\ D \in SUBSET SUBSET files
    BY FileAssumption, FS_Subset DEF Importing
  <2> HIDE DEF D
  <2> QED BY <1>2, <2>1, MinimalSet
<1>4. G # {}
  <2>1. all({}) = {}
    OBVIOUS
  <2> HIDE DEF all
  <2> QED BY <1>3, <2>1, FS_EmptySet
<1>5. PICK f \in G : TRUE
  BY <1>4
<1> DEFINE H == G \ {f}
           E == EdgesOf(tree, files \cup virtual, f)
<1>6. IsFiniteSet(all(H))
  <2>1. H \in SUBSET files /\ H \subseteq G /\ H # G
    BY <1>5
  <2> HIDE DEF all, H
  <2> QED BY <1>3, <2>1
<1>7. IsFiniteSet(E)
  <2> DEFINE n == Len(tree[f].imports)
             edge == [i \in 1 .. n |->
               [from |-> f, nth |-> i,
                to |-> resolveRelativeImport(tree[f].imports[i], files \cup virtual)]]
  <2>1. n \in Nat /\ DOMAIN tree[f].imports = 1 .. n
    BY <1>5 DEF Importing
  <2>2. edge \in Surjection(1 .. n, E)
    BY <2>1 DEF Surjection, EdgesOf
  <2>3. IsFiniteSet(1 .. n)
    BY <2>1, FS_Interval
  <2> HIDE DEF edge, n, E
  <2> QED BY <2>2, <2>3, FS_Surjection
<1>8. all(G) = all(H) \cup E
  BY <1>5
<1>9. IsFiniteSet(all(G))
  <2> HIDE DEF all, H, E
  <2> QED BY <1>6, <1>7, <1>8, FS_Union
<1> QED BY <1>3, <1>9

\* The pairs of a graph have finitely many heads, either way.
LEMMA GraphHeads ==
  ASSUME NEW tree, NEW files, NEW virtual \in SUBSET File, Importing(tree, files),
         NEW edges \in SUBSET buildImportGraph(tree, files, virtual)
  PROVE  /\ IsFiniteSet(Heads({<<e.from, e.to>> : e \in edges}))
         /\ IsFiniteSet(Heads({<<e.to, e.from>> : e \in edges}))
<1>1. IsFiniteSet(File \cup DOMAIN Candidates)
  BY FileAssumption, CandidatesAssumption, FS_Union
<1>2. \A e \in edges : e.from \in File /\ e.to \in File \cup DOMAIN Candidates
  BY EdgeOf DEF Importing
<1>3. /\ Heads({<<e.from, e.to>> : e \in edges}) \in SUBSET (File \cup DOMAIN Candidates)
      /\ Heads({<<e.to, e.from>> : e \in edges}) \in SUBSET (File \cup DOMAIN Candidates)
  BY <1>2 DEF Heads
<1> QED BY <1>1, <1>3, FS_Subset

-----------------------------------------------------------------------------
(* Redaction.                                                              *)

\* A token is not redacted again, and two paths do not share one.
LEMMA RedactTwice ==
  ASSUME NEW R \in SUBSET File, NEW p
  PROVE  redactString(redactString(p, R), R) = redactString(p, R)
<1>1. CASE p \in R
  <2>1. p \in Nat \ {0}
    BY <1>1, FileAssumption
  <2>2. -p \notin Nat
    BY <2>1
  <2>3. -p \notin R
    BY <2>2, FileAssumption
  <2> QED BY <1>1, <2>3 DEF redactString
<1>2. CASE p \notin R
  BY <1>2 DEF redactString
<1> QED BY <1>1, <1>2

LEMMA RedactInjective ==
  ASSUME NEW R \in SUBSET File, NEW p \in File, NEW q \in File,
         redactString(p, R) = redactString(q, R)
  PROVE  p = q
BY FileAssumption DEF redactString

LEMMA RedactAllTwice ==
  ASSUME NEW R \in SUBSET File, NEW S
  PROVE  RedactAll(RedactAll(S, R), R) = RedactAll(S, R)
BY RedactTwice DEF RedactAll

LEMMA RedactIdTwice ==
  ASSUME NEW R \in SUBSET File, NEW id
  PROVE  redactEntityId(redactEntityId(id, R), R) = redactEntityId(id, R)
<1> DEFINE key == IF id[1] = "cycle" THEN RedactAll(id[3], R) ELSE id[3]
           path == redactString(id[2], R)
<1>1. redactEntityId(id, R) = <<id[1], path, key>>
  BY DEF redactEntityId
<1>2. redactString(path, R) = path
  BY RedactTwice
<1>3. (IF id[1] = "cycle" THEN RedactAll(key, R) ELSE key) = key
  BY RedactAllTwice
<1>4. redactEntityId(<<id[1], path, key>>, R) =
        <<id[1], redactString(path, R), IF id[1] = "cycle" THEN RedactAll(key, R) ELSE key>>
  <2> HIDE DEF key, path
  <2> QED BY DEF redactEntityId
<1> HIDE DEF key, path
<1> QED BY <1>1, <1>2, <1>3, <1>4

\* Identities that are already redacted.
RedactedIds(S, R) == \A id \in S : redactEntityId(id, R) = id

LEMMA RedactIdsTwice ==
  ASSUME NEW S, NEW R, RedactedIds(S, R)
  PROVE  RedactIds(S, R) = S
BY DEF RedactedIds, RedactIds

ItemFields == {"id", "signal", "path", "strength", "role", "related"}

LEMMA ItemsHaveFields ==
  ASSUME NEW s, NEW e \in extractEvidenceWithPlugins(s).evidence
  PROVE  DOMAIN e = ItemFields
<1>1. e \in extractDeterministicEvidence(s) \cup extractLargeFileEvidence(s)
  BY DEF extractEvidenceWithPlugins
<1>2. \A edges, signal, f, key, strength :
        DOMAIN Item(s, edges, signal, f, key, strength) = ItemFields
  BY DEF Item, ItemFields
<1>3. \A edges, c : DOMAIN CycleItem(s, edges, c) = ItemFields
  BY <1>2 DEF CycleItem
<1>4. \A edges, signal, value, onset, least :
        \A x \in Numeric(s, edges, signal, value, onset, least) : DOMAIN x = ItemFields
  BY <1>2 DEF Numeric
<1>5. \A edges, signal, files : \A x \in Binary(s, edges, signal, files) : DOMAIN x = ItemFields
  BY <1>2 DEF Binary
<1>6. CASE e \in extractDeterministicEvidence(s)
  BY <1>2, <1>3, <1>4, <1>5, <1>6, Zenon DEF extractDeterministicEvidence
<1>7. CASE e \in extractLargeFileEvidence(s)
  BY <1>7 DEF extractLargeFileEvidence, ItemFields
<1> QED BY <1>1, <1>6, <1>7

RedactedEvidence(items, R) == {redactEvidence(e, R) : e \in items}

LEMMA RedactedItems ==
  ASSUME NEW s, NEW R \in SUBSET File
  PROVE  RedactedIds(Ids(RedactedEvidence(extractEvidenceWithPlugins(s).evidence, R)), R)
<1> DEFINE items == extractEvidenceWithPlugins(s).evidence
<1>1. \A e \in items : redactEvidence(e, R).id = redactEntityId(e.id, R)
  <2> SUFFICES ASSUME NEW e \in items PROVE redactEvidence(e, R).id = redactEntityId(e.id, R)
    OBVIOUS
  <2>1. "id" \in DOMAIN e
    BY ItemsHaveFields DEF ItemFields
  <2> HIDE DEF items
  <2> QED BY <2>1 DEF redactEvidence
<1> HIDE DEF items
<1>2. \A id \in Ids(RedactedEvidence(items, R)) : \E e \in items : id = redactEntityId(e.id, R)
  BY <1>1 DEF Ids, RedactedEvidence
<1> QED BY <1>2, RedactIdTwice DEF RedactedIds, items

\* Every identity that changed is one of either side.
LEMMA ChangesRedacted ==
  ASSUME NEW current, NEW base, NEW R,
         RedactedIds(Ids(current), R), RedactedIds(Ids(base), R)
  PROVE  LET changes == compareSignalChanges(current, base)
         IN [k \in DOMAIN changes |-> RedactIds(changes[k], R)] = changes
<1> DEFINE changes == compareSignalChanges(current, base)
           both == Ids(current) \cap Ids(base)
           new == Ids(current) \ Ids(base)
           worse == {id \in both : Severity(current, id) > Severity(base, id)}
           better == {id \in both : Severity(current, id) < Severity(base, id)}
                       \cup (Ids(base) \ Ids(current))
<1>1. changes = [newSignals |-> new, worsenedSignals |-> worse, improvedSignals |-> better]
  BY DEF compareSignalChanges
<1>2. RedactedIds(new, R) /\ RedactedIds(worse, R) /\ RedactedIds(better, R)
  BY DEF RedactedIds
<1> HIDE DEF changes, new, worse, better
<1>3. RedactIds(new, R) = new /\ RedactIds(worse, R) = worse /\ RedactIds(better, R) = better
  BY <1>2, RedactIdsTwice
<1> QED BY <1>1, <1>3 DEF changes

LEMMA NoChangesRedacted ==
  ASSUME NEW R
  PROVE  [k \in DOMAIN NoChanges |-> RedactIds(NoChanges[k], R)] = NoChanges
<1>1. RedactIds({}, R) = {}
  BY DEF RedactIds
<1> QED BY <1>1 DEF NoChanges

ReportFields == {"refused", "policy", "evidence", "findings", "semantic", "capabilities", "axes",
                 "clusters", "score", "confidence"}

\* A diagnosis that is not refused, still in clear.
Assessed(report, s) ==
  /\ DOMAIN report = ReportFields /\ report.policy = NoPolicy
  /\ report.evidence = extractEvidenceWithPlugins(s).evidence

LEMMA DiagnosisAssessed ==
  ASSUME NEW s, NEW answer, ~runDiagnosis(s, answer).refused
  PROVE  Assessed(runDiagnosis(s, answer), s)
<1> DEFINE extracted == extractEvidenceWithPlugins(s)
           duplicate == \E i, j \in DOMAIN answer.findings :
                          i # j /\ answer.findings[i].fid = answer.findings[j].fid
           d == [evidence |-> extracted.evidence, capabilities |-> extracted.capabilities,
                 semantic |-> answer.status, findings |-> ToSet(answer.findings)]
           eligible == {f \in d.findings : isScoreEligibleSemanticFinding(f)}
           axes == axisScores(s, d)
           clusters == buildMechanismClusters(capabilityApprovedEvidence(d), eligible)
           total == scoreRepository(axes, clusters)
           confidence == computeEvidenceConfidence(s, d)
<1>1. ~(extracted.refused \/ duplicate)
  <2>1. Refused.refused
    BY DEF Refused
  <2>2. (extracted.refused \/ duplicate) => runDiagnosis(s, answer) = Refused
    BY Zenon DEF runDiagnosis
  <2> HIDE DEF extracted, duplicate
  <2> QED BY <2>1, <2>2
<1>2. runDiagnosis(s, answer) = assessRisk(s, extracted, answer)
  BY <1>1, Zenon DEF runDiagnosis
<1>3. assessRisk(s, extracted, answer) =
        [refused |-> FALSE, policy |-> NoPolicy,
         evidence |-> d.evidence, findings |-> d.findings, semantic |-> d.semantic,
         capabilities |-> d.capabilities, axes |-> axes, clusters |-> clusters,
         score |-> total, confidence |-> confidence]
  BY Zenon DEF assessRisk
<1>4. d.evidence = extracted.evidence
  OBVIOUS
<1> HIDE DEF extracted, d, axes, clusters, total, confidence
<1> QED BY <1>2, <1>3, <1>4 DEF Assessed, ReportFields, extracted

LEMMA ReportRedacted ==
  ASSUME NEW report, NEW s, Assessed(report, s), NEW R
  PROVE  LET r == redactReport(report, R)
         IN /\ r.policy = R /\ r.score = report.score
            /\ r.evidence = RedactedEvidence(extractEvidenceWithPlugins(s).evidence, R)
            /\ DOMAIN r = ReportFields
BY DEF Assessed, redactReport, RedactedEvidence, ReportFields

LEMMA RedactedOnce ==
  ASSUME NEW report, report.policy # NoPolicy, NEW R
  PROVE  redactReport(report, R) = report
BY DEF redactReport

\* The entry of a changed file, under its token.
LEMMA RadiusRedacted ==
  ASSUME NEW R \in SUBSET File, NEW radius, DOMAIN radius \in SUBSET File, NEW f \in DOMAIN radius
  PROVE  RedactedRadius(radius, R)[redactString(f, R)] =
           [k \in DOMAIN radius[f] |-> RedactAll(radius[f][k], R)]
<1> DEFINE g == redactString(f, R)
           h == CHOOSE h \in DOMAIN radius : redactString(h, R) = g
<1>1. h \in DOMAIN radius /\ redactString(h, R) = g
  OBVIOUS
<1>2. h = f
  <2> HIDE DEF h
  <2> QED BY <1>1, RedactInjective
<1>3. g \in RedactAll(DOMAIN radius, R)
  BY DEF RedactAll
<1>4. RedactedRadius(radius, R)[g] = [k \in DOMAIN radius[h] |-> RedactAll(radius[h][k], R)]
  <2> HIDE DEF g
  <2> QED BY <1>3 DEF RedactedRadius
<1> HIDE DEF h
<1> QED BY <1>2, <1>4

LEMMA DiffRedacted ==
  ASSUME NEW cur, NEW files, NEW radius, NEW compatible, NEW base, NEW delta, NEW changes, NEW R,
         NEW comparison, comparison = [compatible |-> compatible, base |-> base,
                                       riskDelta |-> delta, changes |-> changes],
         NEW d, d = [refused |-> FALSE, policy |-> NoPolicy, current |-> cur, changedFiles |-> files,
                     blastRadius |-> radius, comparison |-> comparison]
  PROVE  LET r == redactDiffReport(d, R)
         IN /\ r.policy = R /\ r.current = redactReport(cur, R)
            /\ r.blastRadius = RedactedRadius(radius, R)
            /\ r.comparison.compatible = compatible /\ r.comparison.riskDelta = delta
            /\ r.comparison.base = IF base = NoReport THEN base ELSE redactReport(base, R)
            /\ r.comparison.changes = [k \in DOMAIN changes |-> RedactIds(changes[k], R)]
BY DEF redactDiffReport

-----------------------------------------------------------------------------
(* What is shown is the diagnosis of the repository as it stands.          *)

RepositoryInv ==
  /\ history \in Seq([File -> Content]) /\ history # <<>>
  /\ DOMAIN settings = {"skip", "exclude", "redact", "git"}
  /\ settings.redact \in SUBSET Configurable

Stored(answer) ==
  /\ answer \in AnswersTo(saved) /\ ScriptsImport(saved)
  /\ ~runDiagnosis(saved, answer).refused
  /\ saved.redact \in SUBSET Configurable
  /\ baseline = baselineEntry(saved, runDiagnosis(saved, answer))

ShownScan ==
  /\ shown.answer \in AnswersTo(Snapshot)
  /\ shown.report = runDiagnosis(Snapshot, shown.answer)
ShownDiff ==
  /\ shown.base \in DOMAIN history /\ shown.answer \in AnswersTo(Snapshot)
  /\ shown.report = runDiffDiagnosis(Snapshot, shown.answer, baseline, shown.base,
                                     ChangedSince(shown.base))

ShownInv ==
  /\ RepositoryInv
  /\ baseline # NoBaseline => \E answer : Stored(answer)
  /\ shown.kind \in {"none", "scan", "diff"}
  /\ shown.kind # "none" => shown.snapshot = Snapshot
  /\ shown.kind = "scan" => ShownScan
  /\ shown.kind = "diff" => ShownDiff

LEMMA RepositoryStep ==
  RepositoryInv /\ [Next]_vars => RepositoryInv'
<1> SUFFICES ASSUME RepositoryInv, [Next]_vars PROVE RepositoryInv'
  OBVIOUS
<1>1. CASE UNCHANGED <<history, settings>>
  BY <1>1 DEF RepositoryInv
<1>2. CASE Edit
  <2>1. PICK f \in File : \E c \in Contents[f] :
          history' = Append(history, [Last(history) EXCEPT ![f] = c])
    BY <1>2 DEF Edit
  <2> PICK c \in Contents[f] : history' = Append(history, [Last(history) EXCEPT ![f] = c])
    BY <2>1
  <2>2. Last(history) \in [File -> Content]
    BY DEF RepositoryInv, Last
  <2>3. c \in Content
    BY DEF Content
  <2>4. [Last(history) EXCEPT ![f] = c] \in [File -> Content]
    BY <2>2, <2>3
  <2>5. history' \in Seq([File -> Content]) /\ history' # <<>>
    <3> DEFINE tree == [Last(history) EXCEPT ![f] = c]
    <3> HIDE DEF tree
    <3> QED BY <2>4 DEF RepositoryInv, tree
  <2>6. settings' = settings
    BY <1>2 DEF Edit
  <2> QED BY <2>5, <2>6 DEF RepositoryInv
<1>3. CASE Reconfigure
  <2>1. PICK k \in {"skip", "exclude", "redact"}, f \in Configurable :
          settings' = [settings EXCEPT ![k] = IF f \in @ THEN @ \ {f} ELSE @ \cup {f}]
    BY <1>3 DEF Reconfigure
  <2>2. history' = history
    BY <1>3 DEF Reconfigure
  <2>3. DOMAIN settings' = DOMAIN settings
    BY <2>1
  <2>4. settings'.redact \in SUBSET Configurable
    <3>1. CASE k = "redact"
      BY <2>1, <3>1 DEF RepositoryInv
    <3>2. CASE k # "redact"
      BY <2>1, <3>2 DEF RepositoryInv
    <3> QED BY <3>1, <3>2
  <2> QED BY <2>2, <2>3, <2>4 DEF RepositoryInv
<1> QED BY <1>1, <1>2, <1>3
      DEF Next, vars, repository, Scan, Diff, GatePolicy, GateDiagnose, GateQuality,
          GateEvaluate, RewritePolicy, Recalibrate,
          CompareProvisional, CompareAgain, CompareFinal, Tick

SnapshotImports == Importing(Snapshot.tree, Present(Snapshot))

LEMMA SnapshotIsImporting == RepositoryInv => SnapshotImports
<1> SUFFICES ASSUME RepositoryInv PROVE SnapshotImports
  OBVIOUS
<1>1. Last(history) \in [File -> Content]
  BY DEF RepositoryInv, Last
<1>2. \A f \in File : Snapshot.tree[f] = IF f \in settings.exclude THEN NoFile ELSE Last(history)[f]
  BY DEF Snapshot
<1>3. \A f \in Present(Snapshot) : Snapshot.tree[f] \in Content \ {NoFile}
  BY <1>1, <1>2 DEF Present
<1>4. Present(Snapshot) \subseteq File
  BY DEF Present
<1> QED BY <1>3, <1>4, TreesAssumption DEF SnapshotImports, Importing

LEMMA SnapshotScriptsImport == RepositoryInv => ScriptsImport(Snapshot)
BY SnapshotIsImporting DEF SnapshotImports, Importing, ScriptsImport, Scripts

LEMMA ShownStep ==
  ShownInv /\ [Next]_vars => ShownInv'
<1> SUFFICES ASSUME ShownInv, [Next]_vars PROVE ShownInv'
  OBVIOUS
<1>1. RepositoryInv'
  BY RepositoryStep DEF ShownInv
<1>2. CASE UNCHANGED <<history, settings, baseline, saved, shown>>
  <2>1. /\ history' = history /\ settings' = settings /\ baseline' = baseline /\ saved' = saved
        /\ shown' = shown
    BY <1>2
  <2>2. Snapshot' = Snapshot
    BY <2>1 DEF Snapshot
  <2>3. \A b : ChangedSince(b)' = ChangedSince(b)
    BY <2>1 DEF ChangedSince
  <2>4. \A answer : Stored(answer) => Stored(answer)'
    BY <2>1 DEF Stored
  <2>5. ShownScan => ShownScan'
    BY <2>1, <2>2 DEF ShownScan
  <2>6. ShownDiff => ShownDiff'
    BY <2>1, <2>2, <2>3 DEF ShownDiff
  <2> QED BY <1>1, <2>1, <2>2, <2>4, <2>5, <2>6 DEF ShownInv
<1>3. CASE Edit \/ Reconfigure
  <2>1. baseline' = baseline /\ saved' = saved /\ shown' = Nothing
    BY <1>3 DEF Edit, Reconfigure
  <2>2. shown'.kind = "none"
    BY <2>1 DEF Nothing
  <2>3. \A answer : Stored(answer) => Stored(answer)'
    BY <2>1 DEF Stored
  <2> QED BY <1>1, <2>1, <2>2, <2>3 DEF ShownInv
<1>4. CASE Scan
  <2>1. PICK answer \in AnswersTo(Snapshot) :
          /\ shown' = [kind |-> "scan", snapshot |-> Snapshot, answer |-> answer,
                       report |-> runDiagnosis(Snapshot, answer)]
          /\ IF runDiagnosis(Snapshot, answer).refused \/ ~settings.git
             THEN UNCHANGED <<baseline, saved>>
             ELSE /\ baseline' = baselineEntry(Snapshot, runDiagnosis(Snapshot, answer))
                  /\ saved' = Snapshot
    BY <1>4, Zenon DEF Scan
  <2>2. history' = history /\ settings' = settings
    BY <1>4 DEF Scan, repository
  <2>3. Snapshot' = Snapshot
    BY <2>2 DEF Snapshot
  <2>4. /\ shown'.kind = "scan" /\ shown'.snapshot = Snapshot /\ shown'.answer = answer
        /\ shown'.report = runDiagnosis(Snapshot, answer)
    <3> DEFINE report == runDiagnosis(Snapshot, answer)
    <3>1. shown' = [kind |-> "scan", snapshot |-> Snapshot, answer |-> answer, report |-> report]
      BY <2>1
    <3> HIDE DEF report
    <3> QED BY <3>1 DEF report
  <2>5. ShownScan'
    BY <2>1, <2>3, <2>4 DEF ShownScan
  <2>6. ASSUME baseline' # NoBaseline
        PROVE  \E a : Stored(a)'
    <3>1. CASE runDiagnosis(Snapshot, answer).refused \/ ~settings.git
      <4>1. baseline' = baseline /\ saved' = saved
        BY <2>1, <3>1
      <4>2. \A a : Stored(a) => Stored(a)'
        BY <4>1 DEF Stored
      <4> QED BY <2>6, <4>1, <4>2 DEF ShownInv
    <3>2. CASE ~(runDiagnosis(Snapshot, answer).refused \/ ~settings.git)
      <4>1. /\ ~runDiagnosis(Snapshot, answer).refused /\ saved' = Snapshot
            /\ baseline' = baselineEntry(Snapshot, runDiagnosis(Snapshot, answer))
        BY <2>1, <3>2
      <4>2. Snapshot.redact \in SUBSET Configurable
        BY DEF Snapshot, ShownInv, RepositoryInv
      <4>3. ScriptsImport(Snapshot)
        BY SnapshotScriptsImport DEF ShownInv
      <4>4. Stored(answer)'
        BY <2>1, <4>1, <4>2, <4>3 DEF Stored
      <4> QED BY <4>4
    <3> QED BY <3>1, <3>2
  <2> QED BY <1>1, <2>3, <2>4, <2>5, <2>6 DEF ShownInv
<1>5. CASE Diff
  <2>1. PICK answer \in AnswersTo(Snapshot), base \in DOMAIN history :
          shown' = [kind |-> "diff", snapshot |-> Snapshot, answer |-> answer, base |-> base,
                    report |-> runDiffDiagnosis(Snapshot, answer, baseline, base,
                                                ChangedSince(base))]
    BY <1>5 DEF Diff
  <2>2. history' = history /\ settings' = settings /\ baseline' = baseline /\ saved' = saved
    BY <1>5 DEF Diff, repository
  <2>3. Snapshot' = Snapshot
    BY <2>2 DEF Snapshot
  <2>4. \A b : ChangedSince(b)' = ChangedSince(b)
    BY <2>2 DEF ChangedSince
  <2>5. \A a : Stored(a) => Stored(a)'
    BY <2>2 DEF Stored
  <2>6. /\ shown'.kind = "diff" /\ shown'.snapshot = Snapshot /\ shown'.answer = answer
        /\ shown'.base = base
        /\ shown'.report =
             runDiffDiagnosis(Snapshot, answer, baseline, base, ChangedSince(base))
    <3> DEFINE report == runDiffDiagnosis(Snapshot, answer, baseline, base, ChangedSince(base))
    <3>1. shown' = [kind |-> "diff", snapshot |-> Snapshot, answer |-> answer, base |-> base,
                    report |-> report]
      BY <2>1
    <3> HIDE DEF report
    <3> QED BY <3>1 DEF report
  <2>7. ShownDiff'
    BY <2>2, <2>3, <2>4, <2>6 DEF ShownDiff
  <2> QED BY <1>1, <2>2, <2>3, <2>5, <2>6, <2>7 DEF ShownInv
<1> QED BY <1>2, <1>3, <1>4, <1>5
      DEF Next, vars, repository, diagnosed, GatePolicy, GateDiagnose, GateQuality,
          GateEvaluate, RewritePolicy, Recalibrate,
          CompareProvisional, CompareAgain, CompareFinal, Tick

LEMMA ShownHolds == Spec => []ShownInv
<1>1. Init => ShownInv
  <2> SUFFICES ASSUME Init PROVE ShownInv
    OBVIOUS
  <2>1. baseline = NoBaseline /\ shown = Nothing
    BY DEF Init
  <2>2. shown.kind = "none"
    BY <2>1 DEF Nothing
  <2>3. PICK t \in Trees : history = <<t>>
    BY DEF Init
  <2>4. t \in [File -> Content]
    BY TreesAssumption
  <2>5. history \in Seq([File -> Content]) /\ history # <<>>
    BY <2>3, <2>4
  <2>6. DOMAIN settings = {"skip", "exclude", "redact", "git"}
        /\ settings.redact \in SUBSET Configurable
    BY DEF Init
  <2> QED BY <2>1, <2>2, <2>5, <2>6 DEF ShownInv, RepositoryInv
<1> QED BY <1>1, ShownStep, PTL DEF Spec

-----------------------------------------------------------------------------
(* The diff.                                                               *)

IsComparison(s, current, comparison) ==
  LET redacted == redactReport(current, s.redact)
  IN comparison = [compatible |-> TRUE, base |-> baseline.report,
                   riskDelta |-> redacted.score - baseline.report.score,
                   changes |-> compareSignalChanges(redacted.evidence, baseline.report.evidence)]

LEMMA Compared ==
  ASSUME NEW s, NEW current, NEW sha, compareDiagnosis(s, current, baseline, sha) # incompatible
  PROVE  /\ baseline # NoBaseline /\ baseline.policy = s.redact
         /\ baseline.context = diagnosisContextFingerprint(s, current)
         /\ IsComparison(s, current, compareDiagnosis(s, current, baseline, sha))
<1>1. ~(\/ baseline = NoBaseline
        \/ baseline.sourceCommitSha # sha
        \/ baseline.policy # s.redact
        \/ baseline.context # diagnosisContextFingerprint(s, current))
  BY Zenon DEF compareDiagnosis
<1> QED BY <1>1, Zenon DEF compareDiagnosis, IsComparison

LEMMA StoredReport ==
  ASSUME NEW answer, Stored(answer)
  PROVE  /\ baseline.report.policy = baseline.policy /\ baseline.policy # NoPolicy
         /\ baseline.policy \in SUBSET Configurable
         /\ RedactedIds(Ids(baseline.report.evidence), baseline.policy)
<1> DEFINE report == runDiagnosis(saved, answer)
           R == saved.redact
<1>1. R \in SUBSET Configurable /\ R # NoPolicy /\ R \in SUBSET File
  BY PolicyAssumption DEF Stored
<1>2. Assessed(report, saved)
  BY DiagnosisAssessed DEF Stored
<1>3. baseline.policy = R /\ baseline.report = redactReport(report, R)
  <2>1. baseline = baselineEntry(saved, report)
    BY DEF Stored
  <2> HIDE DEF report
  <2> QED BY <2>1 DEF baselineEntry
<1> HIDE DEF report
<1>4. /\ redactReport(report, R).policy = R
      /\ redactReport(report, R).evidence =
           RedactedEvidence(extractEvidenceWithPlugins(saved).evidence, R)
  BY <1>2, ReportRedacted
<1>5. RedactedIds(Ids(RedactedEvidence(extractEvidenceWithPlugins(saved).evidence, R)), R)
  BY <1>1, RedactedItems
<1> QED BY <1>1, <1>3, <1>4, <1>5

\* A comparison with the stored baseline, or none, passes the schema when redacted.
LEMMA RedactedDiffPasses ==
  ASSUME NEW s, s.redact \in SUBSET Configurable, NEW current, Assessed(current, s),
         NEW comparison,
         \/ comparison = incompatible
         \/ /\ IsComparison(s, current, comparison) /\ baseline.policy = s.redact
            /\ \E answer : Stored(answer),
         NEW files, NEW radius, NEW d,
         d = [refused |-> FALSE, policy |-> NoPolicy, current |-> current, changedFiles |-> files,
              blastRadius |-> radius, comparison |-> comparison]
  PROVE  /\ diffReportSchema(redactDiffReport(d, s.redact))
         /\ redactDiffReport(d, s.redact).blastRadius = RedactedRadius(radius, s.redact)
<1> DEFINE R == s.redact
           r == redactDiffReport(d, R)
<1>1. R \in SUBSET File /\ R # NoPolicy
  BY PolicyAssumption
<1>2. /\ redactReport(current, R).policy = R /\ redactReport(current, R).score = current.score
      /\ redactReport(current, R).evidence =
           RedactedEvidence(extractEvidenceWithPlugins(s).evidence, R)
  BY ReportRedacted
<1>3. CASE comparison = incompatible
  <2>1. comparison = [compatible |-> FALSE, base |-> NoReport, riskDelta |-> 0,
                      changes |-> NoChanges]
    BY <1>3 DEF incompatible
  <2>2. /\ r.policy = R /\ r.current = redactReport(current, R)
        /\ r.blastRadius = RedactedRadius(radius, R)
        /\ r.comparison.compatible = FALSE /\ r.comparison.base = NoReport
        /\ r.comparison.changes = [k \in DOMAIN NoChanges |-> RedactIds(NoChanges[k], R)]
    <3> HIDE DEF R
    <3> QED BY <2>1, DiffRedacted
  <2>3. r.comparison.changes = NoChanges
    BY <2>2, NoChangesRedacted
  <2> HIDE DEF r, R
  <2>4. diffReportSchema(r)
    BY <1>2, <2>2, <2>3 DEF diffReportSchema
  <2> QED BY <2>2, <2>4 DEF r, R
<1>4. CASE /\ IsComparison(s, current, comparison) /\ baseline.policy = R
           /\ \E answer : Stored(answer)
  <2> DEFINE base == baseline.report
             delta == current.score - base.score
             changes == compareSignalChanges(redactReport(current, R).evidence, base.evidence)
  <2>1. base.policy = R /\ RedactedIds(Ids(base.evidence), R)
    BY <1>4, StoredReport
  <2>2. RedactedIds(Ids(redactReport(current, R).evidence), R)
    BY <1>1, <1>2, RedactedItems
  <2>3. comparison = [compatible |-> TRUE, base |-> base, riskDelta |-> delta, changes |-> changes]
    BY <1>2, <1>4 DEF IsComparison
  <2>4. [k \in DOMAIN changes |-> RedactIds(changes[k], R)] = changes
    BY <2>1, <2>2, ChangesRedacted
  <2>5. redactReport(base, R) = base
    BY <1>1, <2>1, RedactedOnce
  <2> HIDE DEF base, delta, changes, R
  <2>6. /\ r.policy = R /\ r.current = redactReport(current, R)
        /\ r.blastRadius = RedactedRadius(radius, R)
        /\ r.comparison.compatible = TRUE /\ r.comparison.riskDelta = delta
        /\ r.comparison.base = IF base = NoReport THEN base ELSE redactReport(base, R)
        /\ r.comparison.changes = [k \in DOMAIN changes |-> RedactIds(changes[k], R)]
    BY <2>3, DiffRedacted
  <2>7. r.comparison.base = base /\ r.comparison.changes = changes
    BY <2>4, <2>5, <2>6
  <2>8. r.current.score = current.score /\ r.current.policy = R
        /\ r.current.evidence = redactReport(current, R).evidence
    BY <1>2, <2>6
  <2> HIDE DEF r
  <2>9. diffReportSchema(r)
    BY <2>1, <2>6, <2>7, <2>8 DEF diffReportSchema, delta, changes
  <2> QED BY <2>6, <2>9 DEF r, R
<1> QED BY <1>3, <1>4

LEMMA RadiusOf ==
  ASSUME NEW s, Importing(s.tree, Present(s)), NEW changed \in SUBSET File, NEW f \in changed
  PROVE  LET edges == buildImportGraph(s.tree, Present(s), changed)
             entry == computeBlastRadius(s, changed)[f]
         IN /\ DOMAIN computeBlastRadius(s, changed) = changed
            /\ DOMAIN entry = {"directDependents", "directDependencies", "transitiveDependents",
                               "transitiveDependencies"}
            /\ \A e \in edges : e.to = f => e.from \in entry.directDependents
            /\ entry.transitiveDependents = Beyond({<<e.to, e.from>> : e \in edges}, f) \ {f}
            /\ entry.transitiveDependencies = Beyond({<<e.from, e.to>> : e \in edges}, f) \ {f}
<1> DEFINE edges == buildImportGraph(s.tree, Present(s), changed)
           down == {<<e.from, e.to>> : e \in edges}
           up == {<<e.to, e.from>> : e \in edges}
           dependents == {p[2] : p \in {q \in up : q[1] = f}}
           dependencies == {p[2] : p \in {q \in down : q[1] = f}}
<1>1. IsFiniteSet(Heads(down)) /\ IsFiniteSet(Heads(up))
  BY GraphHeads
<1>2. /\ transitiveReach(f, up) = Beyond(up, f) \ {f}
      /\ transitiveReach(f, down) = Beyond(down, f) \ {f}
  <2> HIDE DEF up, down
  <2>1. /\ Reach(up, {f}) = {f} \cup Beyond(up, f)
        /\ Reach(down, {f}) = {f} \cup Beyond(down, f)
    BY <1>1, SearchReachesBeyond
  <2> QED BY <2>1 DEF transitiveReach
<1>3. /\ DOMAIN computeBlastRadius(s, changed) = changed
      /\ computeBlastRadius(s, changed)[f] =
           [directDependents |-> dependents, directDependencies |-> dependencies,
            transitiveDependents |-> transitiveReach(f, up),
            transitiveDependencies |-> transitiveReach(f, down)]
  BY DEF computeBlastRadius
<1>4. ASSUME NEW e \in edges, e.to = f PROVE e.from \in dependents
  <2> DEFINE p == <<e.to, e.from>>
  <2>1. p \in up /\ p[1] = f /\ p[2] = e.from
    BY <1>4
  <2> HIDE DEF p, up
  <2> QED BY <2>1
<1> HIDE DEF dependents, dependencies, up, down
<1> QED BY <1>2, <1>3, <1>4 DEF up, down

\* A file that imported a deleted one is still its dependent, unless the import
\* now means a file that is new.
LEMMA DeletionShows ==
  ASSUME RepositoryInv, NEW base \in DOMAIN history,
         NEW before, before = history[base],
         NEW existed, existed = {f \in File : before[f] # NoFile},
         NEW changed, changed = ChangedSince(base),
         NEW graph, graph = buildImportGraph(Snapshot.tree, Present(Snapshot), changed),
         NEW f \in changed,
         NEW g \in Present(Snapshot) \ changed,
         NEW x \in buildImportGraph(before, existed, {}), x.to = f, x.from = g
  PROVE  (\E e \in graph : e.from = g /\ e.to = f) \/ Targets(graph, g) \cap (File \ existed) # {}
<1>1. before \in [File -> Content] /\ changed \in SUBSET File
  BY DEF RepositoryInv, ChangedSince
<1>2. Importing(before, existed)
  BY <1>1, TreesAssumption DEF Importing
<1>3. Importing(Snapshot.tree, Present(Snapshot)) /\ Present(Snapshot) \in SUBSET File
  BY SnapshotIsImporting DEF SnapshotImports, Importing
<1>4. Snapshot.tree[g] = before[g]
  <2>1. Last(history)[g] = before[g] /\ g \in File
    BY DEF ChangedSince, Present
  <2>2. Snapshot.tree[g] = IF g \in settings.exclude THEN NoFile ELSE Last(history)[g]
    BY <2>1 DEF Snapshot
  <2>3. Snapshot.tree[g] # NoFile
    BY DEF Present
  <2> QED BY <2>1, <2>2, <2>3
<1> DEFINE i == x.nth
           target == before[g].imports[i]
           available == Present(Snapshot) \cup changed
           then == {k \in DOMAIN Candidates[target] : Candidates[target][k] \in existed \cup {}}
           today == {k \in DOMAIN Candidates[target] : Candidates[target][k] \in available}
           edge == [from |-> g, nth |-> i, to |-> resolveRelativeImport(target, available)]
<1>5. /\ g \in existed /\ i \in DOMAIN before[g].imports
      /\ f = resolveRelativeImport(target, existed \cup {})
  <2>1. {} \in SUBSET File
    OBVIOUS
  <2> QED BY <1>2, <2>1, EdgeOf
<1>6. target \in DOMAIN Candidates /\ available \in SUBSET File /\ existed \cup {} \in SUBSET File
  BY <1>1, <1>2, <1>3, <1>5 DEF Importing
<1>7. edge \in graph /\ edge.from = g /\ edge.to = resolveRelativeImport(target, available)
  <2>1. g \in Present(Snapshot) /\ i \in DOMAIN Snapshot.tree[g].imports
        /\ target = Snapshot.tree[g].imports[i]
    BY <1>4, <1>5
  <2> HIDE DEF target, i
  <2> QED BY <2>1, EdgeFor
<1>8. edge.to \in Targets(graph, g)
  <2> HIDE DEF edge
  <2> QED BY <1>7 DEF Targets
<1> HIDE DEF target, available, edge, i
<1>9. /\ then = {} => f = target
      /\ then # {} => /\ Min(then) \in then /\ \A k \in then : Min(then) <= k
                      /\ f = Candidates[target][Min(then)]
  <2>1. then = {k \in DOMAIN Candidates[target] : Candidates[target][k] \in existed \cup {}}
    OBVIOUS
  <2> HIDE DEF then
  <2> QED BY <1>5, <1>6, <2>1, Resolves
<1>10. then # {}
  BY <1>1, <1>6, <1>9, CandidatesAssumption
<1>11. Min(then) \in today
  BY <1>9, <1>10 DEF available
<1>12. /\ Min(today) \in today /\ \A k \in today : Min(today) <= k
       /\ edge.to = Candidates[target][Min(today)]
  <2>1. today = {k \in DOMAIN Candidates[target] : Candidates[target][k] \in available}
        /\ today # {}
    BY <1>11
  <2> HIDE DEF today
  <2> QED BY <1>6, <1>7, <2>1, Resolves
<1>13. CASE Min(today) = Min(then)
  BY <1>7, <1>9, <1>10, <1>12, <1>13
<1>14. CASE Min(today) # Min(then)
  <2>1. Min(today) \notin then
    <3>1. DOMAIN Candidates[target] \subseteq Nat
      BY <1>6, CandidatesAssumption
    <3>2. Min(today) \in DOMAIN Candidates[target] /\ Min(then) \in DOMAIN Candidates[target]
      BY <1>9, <1>10, <1>12
    <3> HIDE DEF then, today
    <3>3. SUFFICES ASSUME Min(today) \in then PROVE FALSE
      OBVIOUS
    <3>4. Min(then) <= Min(today) /\ Min(today) <= Min(then)
      BY <1>9, <1>10, <1>11, <1>12, <3>3
    <3> QED BY <1>14, <3>1, <3>2, <3>4
  <2>2. edge.to \in File \ existed
    BY <1>6, <1>12, <2>1
  <2> QED BY <1>8, <2>2
<1> QED BY <1>13, <1>14

\* The diff before its redaction.
DiffOf(current, files, reach, comparison) ==
  [refused |-> FALSE, policy |-> NoPolicy, current |-> current, changedFiles |-> files,
   blastRadius |-> reach, comparison |-> comparison]

\* What the diff is made of.
LEMMA DiffMade ==
  ASSUME ShownInv, NEW r \in Diffs
  PROVE  LET s == Snapshot
             changed == ChangedSince(r.base)
             current == runDiagnosis(s, r.answer)
             compared == compareDiagnosis(s, current, baseline, r.base)
             radius == computeBlastRadius(s, changed)
         IN /\ r.snapshot = s /\ r.base \in DOMAIN history /\ r.answer \in AnswersTo(s)
            /\ s.redact \in SUBSET Configurable
            /\ ~current.refused /\ Assessed(current, s)
            /\ r.report = IF s.git
                          THEN redactDiffReport(DiffOf(current, changed, radius, compared), s.redact)
                          ELSE redactDiffReport(DiffOf(current, {}, <<>>, incompatible), s.redact)
<1> DEFINE s == Snapshot
           changed == ChangedSince(r.base)
           current == runDiagnosis(s, r.answer)
           compared == compareDiagnosis(s, current, baseline, r.base)
           radius == computeBlastRadius(s, changed)
           full == redactDiffReport(DiffOf(current, changed, radius, compared), s.redact)
           bare == redactDiffReport(DiffOf(current, {}, <<>>, incompatible), s.redact)
<1>1. r = shown /\ shown.kind = "diff" /\ ~shown.report.refused
  BY DEF Diffs
<1>2. /\ r.snapshot = s /\ r.base \in DOMAIN history /\ r.answer \in AnswersTo(s)
      /\ r.report = runDiffDiagnosis(s, r.answer, baseline, r.base, changed)
  BY <1>1 DEF ShownInv, ShownDiff
<1>3. r.report = IF current.refused THEN current ELSE IF s.git THEN full ELSE bare
  BY <1>2, Zenon DEF runDiffDiagnosis, DiffOf
<1>4. s.redact \in SUBSET Configurable
  <2>1. s.redact = settings.redact
    BY DEF Snapshot
  <2> QED BY <2>1 DEF ShownInv, RepositoryInv
<1> HIDE DEF full, bare, current
<1>5. ~current.refused /\ r.report = IF s.git THEN full ELSE bare
  BY <1>1, <1>3
<1>6. Assessed(current, s)
  BY <1>5, DiagnosisAssessed DEF current
<1> QED BY <1>2, <1>4, <1>5, <1>6, Zenon DEF full, bare, current

LEMMA DiffShown ==
  ASSUME ShownInv, NEW r \in Diffs
  PROVE  /\ r.snapshot = Snapshot /\ r.base \in DOMAIN history
         /\ diffReportSchema(r.report)
         /\ Snapshot.git =>
              r.report.blastRadius =
                RedactedRadius(computeBlastRadius(Snapshot, ChangedSince(r.base)), Snapshot.redact)
<1> DEFINE s == Snapshot
           changed == ChangedSince(r.base)
           current == runDiagnosis(s, r.answer)
           compared == compareDiagnosis(s, current, baseline, r.base)
           radius == computeBlastRadius(s, changed)
           full == DiffOf(current, changed, radius, compared)
           bare == DiffOf(current, {}, <<>>, incompatible)
<1>1. /\ r.snapshot = s /\ r.base \in DOMAIN history
      /\ s.redact \in SUBSET Configurable /\ Assessed(current, s)
      /\ r.report = IF s.git THEN redactDiffReport(full, s.redact)
                    ELSE redactDiffReport(bare, s.redact)
  BY DiffMade, Zenon
<1>2. \/ compared = incompatible
      \/ /\ IsComparison(s, current, compared) /\ baseline.policy = s.redact
         /\ \E answer : Stored(answer)
  BY Compared DEF ShownInv
<1> HIDE DEF s, current, compared, radius, changed
<1>3. /\ diffReportSchema(redactDiffReport(full, s.redact))
      /\ redactDiffReport(full, s.redact).blastRadius = RedactedRadius(radius, s.redact)
  BY <1>1, <1>2, RedactedDiffPasses DEF DiffOf
<1>4. diffReportSchema(redactDiffReport(bare, s.redact))
  BY <1>1, RedactedDiffPasses DEF DiffOf
<1> HIDE DEF full, bare
<1> QED BY <1>1, <1>3, <1>4 DEF s, radius, changed

\* The radius of one file, as it is shown.
LEMMA RadiusShown ==
  ASSUME RepositoryInv, NEW base \in DOMAIN history,
         NEW changed, changed = ChangedSince(base),
         NEW graph, graph = buildImportGraph(Snapshot.tree, Present(Snapshot), changed),
         NEW existed, existed = {f \in File : history[base][f] # NoFile},
         NEW f \in changed, NEW entry,
         entry = RedactedRadius(computeBlastRadius(Snapshot, changed), Snapshot.redact)
                   [redactString(f, Snapshot.redact)]
  PROVE  /\ entry.transitiveDependents =
              RedactAll(Beyond({<<e.to, e.from>> : e \in graph}, f) \ {f}, Snapshot.redact)
         /\ entry.transitiveDependencies =
              RedactAll(Beyond({<<e.from, e.to>> : e \in graph}, f) \ {f}, Snapshot.redact)
         /\ \A g \in Present(Snapshot) \ changed :
              \A x \in buildImportGraph(history[base], existed, {}) :
                x.to = f /\ x.from = g =>
                  \/ redactString(g, Snapshot.redact) \in entry.directDependents
                  \/ Targets(graph, g) \cap (File \ existed) # {}
<1> DEFINE s == Snapshot
           R == s.redact
           radius == computeBlastRadius(s, changed)
<1>1. changed \in SUBSET File /\ R \in SUBSET File /\ Importing(s.tree, Present(s))
  <2>1. R = settings.redact
    BY DEF Snapshot
  <2> QED BY <2>1, PolicyAssumption, SnapshotIsImporting
        DEF ChangedSince, SnapshotImports, RepositoryInv
<1>2. /\ DOMAIN radius = changed
      /\ DOMAIN radius[f] = {"directDependents", "directDependencies", "transitiveDependents",
                             "transitiveDependencies"}
      /\ \A e \in graph : e.to = f => e.from \in radius[f].directDependents
      /\ radius[f].transitiveDependents = Beyond({<<e.to, e.from>> : e \in graph}, f) \ {f}
      /\ radius[f].transitiveDependencies = Beyond({<<e.from, e.to>> : e \in graph}, f) \ {f}
  <2>1. graph = buildImportGraph(s.tree, Present(s), changed)
    OBVIOUS
  <2> HIDE DEF s
  <2> QED BY <1>1, <2>1, RadiusOf
<1> HIDE DEF radius
<1>3. entry = [k \in DOMAIN radius[f] |-> RedactAll(radius[f][k], R)]
  <2>1. entry = RedactedRadius(radius, R)[redactString(f, R)]
    BY DEF radius
  <2>2. DOMAIN radius \in SUBSET File /\ f \in DOMAIN radius
    BY <1>1, <1>2
  <2> HIDE DEF R
  <2>3. RedactedRadius(radius, R)[redactString(f, R)]
          = [k \in DOMAIN radius[f] |-> RedactAll(radius[f][k], R)]
    BY <1>1, <2>2, RadiusRedacted
  <2> QED BY <2>1, <2>3
<1>4. /\ entry.directDependents = RedactAll(radius[f].directDependents, R)
      /\ entry.transitiveDependents = RedactAll(radius[f].transitiveDependents, R)
      /\ entry.transitiveDependencies = RedactAll(radius[f].transitiveDependencies, R)
  <2> HIDE DEF R
  <2> QED BY <1>2, <1>3
<1>5. ASSUME NEW g \in Present(s) \ changed,
             NEW x \in buildImportGraph(history[base], existed, {}), x.to = f, x.from = g
      PROVE  \/ redactString(g, R) \in entry.directDependents
             \/ Targets(graph, g) \cap (File \ existed) # {}
  <2>1. \/ \E e \in graph : e.from = g /\ e.to = f
        \/ Targets(graph, g) \cap (File \ existed) # {}
    BY <1>5, DeletionShows
  <2>2. ASSUME NEW e \in graph, e.from = g, e.to = f
        PROVE  redactString(g, R) \in entry.directDependents
    BY <1>2, <1>4, <2>2 DEF RedactAll
  <2> QED BY <2>1, <2>2
<1> QED BY <1>2, <1>4, <1>5

\* A diff passes its own schema, whatever is redacted; its blast radius is what the
\* imports reach; and a deletion does not hide what it breaks (compare.ts,
\* redaction.ts, diff.ts).
THEOREM DiffExact == Spec => []DiffIsExact
<1>1. ShownInv => DiffIsExact
  <2> SUFFICES ASSUME ShownInv, NEW r \in Diffs
               PROVE  LET s == r.snapshot
                          changed == ChangedSince(r.base)
                          graph == buildImportGraph(s.tree, Present(s), changed)
                          imports == {<<e.from, e.to>> : e \in graph}
                          importedBy == {<<e.to, e.from>> : e \in graph}
                          before == history[r.base]
                          existed == {f \in File : before[f] # NoFile}
                      IN /\ diffReportSchema(r.report)
                         /\ s.git => \A f \in changed :
                              LET entry == r.report.blastRadius[redactString(f, s.redact)]
                                  importers == {e.from : e \in
                                    {x \in buildImportGraph(before, existed, {}) : x.to = f}}
                              IN /\ Last(history)[f] = NoFile =>
                                      \A g \in (importers \cap Present(s)) \ changed :
                                        \/ redactString(g, s.redact) \in entry.directDependents
                                        \/ Targets(graph, g) \cap (File \ existed) # {}
                                 /\ entry.transitiveDependents =
                                      RedactAll(Beyond(importedBy, f) \ {f}, s.redact)
                                 /\ entry.transitiveDependencies =
                                      RedactAll(Beyond(imports, f) \ {f}, s.redact)
    BY Zenon DEF DiffIsExact
  <2> DEFINE s == Snapshot
             changed == ChangedSince(r.base)
             graph == buildImportGraph(s.tree, Present(s), changed)
             existed == {f \in File : history[r.base][f] # NoFile}
             older == buildImportGraph(history[r.base], existed, {})
             shownAs(f) == r.report.blastRadius[redactString(f, s.redact)]
             importers(f) == {e.from : e \in {x \in older : x.to = f}}
  <2>1. /\ r.snapshot = s /\ r.base \in DOMAIN history
        /\ diffReportSchema(r.report)
        /\ s.git => r.report.blastRadius = RedactedRadius(computeBlastRadius(s, changed), s.redact)
    BY DiffShown
  <2>2. RepositoryInv
    BY DEF ShownInv
  <2>3. ASSUME s.git, NEW f \in changed
        PROVE  /\ shownAs(f).transitiveDependents =
                    RedactAll(Beyond({<<e.to, e.from>> : e \in graph}, f) \ {f}, s.redact)
               /\ shownAs(f).transitiveDependencies =
                    RedactAll(Beyond({<<e.from, e.to>> : e \in graph}, f) \ {f}, s.redact)
               /\ \A g \in Present(s) \ changed : \A x \in older : x.to = f /\ x.from = g =>
                    \/ redactString(g, s.redact) \in shownAs(f).directDependents
                    \/ Targets(graph, g) \cap (File \ existed) # {}
    <3>1. shownAs(f) = RedactedRadius(computeBlastRadius(s, changed), s.redact)
                         [redactString(f, s.redact)]
      BY <2>1, <2>3
    <3> DEFINE entry == shownAs(f)
    <3>2. changed = ChangedSince(r.base)
          /\ graph = buildImportGraph(Snapshot.tree, Present(Snapshot), changed)
          /\ existed = {x \in File : history[r.base][x] # NoFile}
      OBVIOUS
    <3>3. entry = RedactedRadius(computeBlastRadius(Snapshot, changed), Snapshot.redact)
                    [redactString(f, Snapshot.redact)]
      BY <3>1
    <3> HIDE DEF changed, graph, existed, shownAs, entry
    <3>4. /\ entry.transitiveDependents =
               RedactAll(Beyond({<<e.to, e.from>> : e \in graph}, f) \ {f}, Snapshot.redact)
          /\ entry.transitiveDependencies =
               RedactAll(Beyond({<<e.from, e.to>> : e \in graph}, f) \ {f}, Snapshot.redact)
          /\ \A g \in Present(Snapshot) \ changed :
               \A x \in buildImportGraph(history[r.base], existed, {}) :
                 x.to = f /\ x.from = g =>
                   \/ redactString(g, Snapshot.redact) \in entry.directDependents
                   \/ Targets(graph, g) \cap (File \ existed) # {}
      BY <2>1, <2>2, <2>3, <3>2, <3>3, RadiusShown
    <3> QED BY <3>4, Zenon DEF entry
  <2> HIDE DEF s, changed, graph, existed, older, shownAs
  <2>4. ASSUME s.git, NEW f \in changed,
               NEW g \in (importers(f) \cap Present(s)) \ changed
        PROVE  \/ redactString(g, s.redact) \in shownAs(f).directDependents
               \/ Targets(graph, g) \cap (File \ existed) # {}
    BY <2>3, <2>4
  <2> HIDE DEF importers
  <2>5. /\ diffReportSchema(r.report)
        /\ s.git => \A f \in changed :
             /\ Last(history)[f] = NoFile =>
                  \A g \in (importers(f) \cap Present(s)) \ changed :
                    \/ redactString(g, s.redact) \in shownAs(f).directDependents
                    \/ Targets(graph, g) \cap (File \ existed) # {}
             /\ shownAs(f).transitiveDependents =
                  RedactAll(Beyond({<<e.to, e.from>> : e \in graph}, f) \ {f}, s.redact)
             /\ shownAs(f).transitiveDependencies =
                  RedactAll(Beyond({<<e.from, e.to>> : e \in graph}, f) \ {f}, s.redact)
    BY <2>1, <2>3, <2>4
  <2>6. r.snapshot = s
    BY <2>1
  <2> QED BY <2>5, <2>6, Zenon DEF changed, graph, existed, older, shownAs, importers
<1> QED BY <1>1, ShownHolds, PTL

-----------------------------------------------------------------------------
(* The walks that findImportCycles follows.                                *)

Froms(edges) == {e.from : e \in edges}
Nodes(edges) == Froms(edges) \cup {e.to : e \in edges}

\* A walk along the imports that does not meet itself.
IsWalk(edges, w) ==
  /\ w \in Seq(Nodes(edges)) /\ w # <<>> /\ w[1] \in Froms(edges)
  /\ \A i \in 1 .. Len(w) - 1 : w[i + 1] \in Targets(edges, w[i])
  /\ \A i, j \in 1 .. Len(w) : w[i] = w[j] => i = j

LEMMA TargetsAreNodes ==
  ASSUME NEW edges, NEW f
  PROVE  Targets(edges, f) \subseteq Nodes(edges)
BY DEF Targets, Nodes

LEMMA WalkFacts ==
  ASSUME NEW edges, NEW w, IsWalk(edges, w)
  PROVE  /\ Len(w) \in Nat \ {0} /\ DOMAIN w = 1 .. Len(w) /\ Last(w) = w[Len(w)]
         /\ ToSet(w) = {w[i] : i \in 1 .. Len(w)}
         /\ \A i \in 1 .. Len(w) : w[i] \in Nodes(edges)
BY EmptySeq, LenProperties DEF IsWalk, Last, ToSet

LEMMA SingleWalk ==
  ASSUME NEW edges, NEW f \in Froms(edges)
  PROVE  IsWalk(edges, <<f>>) /\ Len(<<f>>) = 1 /\ Last(<<f>>) = f
<1>1. f \in Nodes(edges)
  BY DEF Nodes
<1>2. <<f>> \in Seq(Nodes(edges)) /\ Len(<<f>>) = 1 /\ <<f>>[1] = f
  BY <1>1
<1> DEFINE w == <<f>>
<1> HIDE DEF w
<1>3. w # <<>>
  BY <1>2 DEF w
<1> QED BY <1>2, <1>3 DEF IsWalk, Last, w

LEMMA WalkGoesOn ==
  ASSUME NEW edges, NEW w, IsWalk(edges, w),
         NEW f \in Targets(edges, Last(w)), f \notin ToSet(w)
  PROVE  /\ IsWalk(edges, Append(w, f)) /\ Last(Append(w, f)) = f
         /\ Len(Append(w, f)) = Len(w) + 1 /\ Append(w, f)[1] = w[1]
<1>1. /\ Len(w) \in Nat \ {0} /\ w \in Seq(Nodes(edges)) /\ f \in Nodes(edges)
      /\ Last(w) = w[Len(w)] /\ \A i \in 1 .. Len(w) : w[i] # f
  BY WalkFacts, TargetsAreNodes DEF IsWalk
<1> DEFINE v == Append(w, f)
<1>2. /\ v \in Seq(Nodes(edges)) /\ Len(v) = Len(w) + 1 /\ v[Len(w) + 1] = f
      /\ \A i \in 1 .. Len(w) : v[i] = w[i]
  BY <1>1
<1> HIDE DEF v
<1>3. v # <<>>
  BY <1>1, <1>2
<1>4. v[1] \in Froms(edges) /\ v[1] = w[1]
  BY <1>1, <1>2 DEF IsWalk
<1>5. ASSUME NEW i \in 1 .. Len(v) - 1 PROVE v[i + 1] \in Targets(edges, v[i])
  <2>1. CASE i = Len(w)
    BY <1>1, <1>2, <2>1
  <2>2. CASE i \in 1 .. Len(w) - 1
    <3>1. w[i + 1] \in Targets(edges, w[i])
      BY <2>2 DEF IsWalk
    <3>2. v[i] = w[i] /\ v[i + 1] = w[i + 1]
      BY <1>1, <1>2, <2>2
    <3> QED BY <3>1, <3>2
  <2> QED BY <1>1, <1>2, <2>1, <2>2
<1>6. ASSUME NEW i \in 1 .. Len(v), NEW j \in 1 .. Len(v), v[i] = v[j] PROVE i = j
  <2>1. \A k, l \in 1 .. Len(w) : w[k] = w[l] => k = l
    BY DEF IsWalk
  <2> QED BY <1>1, <1>2, <1>6, <2>1
<1> QED BY <1>2, <1>3, <1>4, <1>5, <1>6 DEF IsWalk, Last, v

LEMMA WalkStopsEarly ==
  ASSUME NEW edges, NEW w, IsWalk(edges, w), NEW k \in 1 .. Len(w)
  PROVE  LET v == SubSeq(w, 1, k)
         IN /\ IsWalk(edges, v) /\ Len(v) = k /\ Last(v) = w[k]
            /\ \A i \in 1 .. k : v[i] = w[i]
<1> DEFINE v == SubSeq(w, 1, k)
<1>1. Len(w) \in Nat \ {0} /\ \A i \in 1 .. Len(w) : w[i] \in Nodes(edges)
  BY WalkFacts
<1>2. /\ v \in Seq(Nodes(edges)) /\ Len(v) = k
      /\ \A i \in 1 .. k : v[i] = w[i]
  <2>1. 1 <= k /\ k \in Int /\ k - 1 + 1 = k /\ \A i \in 1 .. k : w[i] \in Nodes(edges)
    BY <1>1
  <2>2. \A i \in 1 .. k : 1 + i - 1 = i
    OBVIOUS
  <2> QED BY <2>1, <2>2, SubSeqProperties
<1> HIDE DEF v
<1>3. v # <<>> /\ v[1] = w[1] /\ v[1] \in Froms(edges)
  BY <1>1, <1>2 DEF IsWalk
<1>4. \A i \in 1 .. k - 1 : i \in 1 .. Len(w) - 1 /\ i \in 1 .. k /\ i + 1 \in 1 .. k
  BY <1>1
<1>5. \A i \in 1 .. Len(v) - 1 : v[i + 1] \in Targets(edges, v[i])
  BY <1>2, <1>4 DEF IsWalk
<1>6. \A i, j \in 1 .. Len(v) : v[i] = v[j] => i = j
  <2>1. \A i \in 1 .. k : i \in 1 .. Len(w)
    BY <1>1
  <2> QED BY <1>2, <2>1 DEF IsWalk
<1> QED BY <1>2, <1>3, <1>5, <1>6 DEF IsWalk, Last, v

\* The walks after each round.
Rounds(walk, edges, n) ==
  walk = [k \in 0 .. n |-> IF k = 0 THEN {<<f>> : f \in Froms(edges)}
                           ELSE Longer(edges, walk[k - 1])]

LEMMA RoundsExist ==
  ASSUME NEW edges, NEW n \in Nat
  PROVE  \E walk : Rounds(walk, edges, n)
<1> DEFINE start == {<<f>> : f \in Froms(edges)}
           Bad == {m \in Nat : ~\E walk : Rounds(walk, edges, m)}
<1>1. SUFFICES ASSUME Bad # {} PROVE FALSE
  OBVIOUS
<1>2. PICK m \in Bad : \A l \in Bad : m <= l
  <2>1. Bad \in SUBSET Nat
    OBVIOUS
  <2> HIDE DEF Bad
  <2> QED BY <1>1, <2>1, LeastNatural
<1>3. m # 0
  <2>1. Rounds([k \in 0 .. 0 |-> start], edges, 0)
    BY DEF Rounds
  <2> QED BY <1>2, <2>1
<1>4. m - 1 \in Nat /\ m - 1 \notin Bad
  BY <1>2, <1>3
<1>5. PICK walk : Rounds(walk, edges, m - 1)
  BY <1>4
<1> DEFINE more == [k \in 0 .. m |-> IF k = 0 THEN start ELSE Longer(edges, walk[k - 1])]
<1>6. 0 .. m - 1 \subseteq 0 .. m /\ \A k \in 0 .. m : k # 0 => k - 1 \in 0 .. m - 1
  BY <1>4
<1>7. \A k \in 0 .. m - 1 : more[k] = walk[k]
  BY <1>5, <1>6 DEF Rounds
<1>8. Rounds(more, edges, m)
  BY <1>6, <1>7 DEF Rounds
<1> QED BY <1>2, <1>8

\* After k rounds there are just the walks of at most k + 1 files.
LEMMA RoundsWalk ==
  ASSUME NEW edges, NEW n \in Nat, NEW walk, Rounds(walk, edges, n), NEW r \in 0 .. n
  PROVE  \A w : w \in walk[r] <=> IsWalk(edges, w) /\ Len(w) <= r + 1
<1> DEFINE Walked(k) == \A w : w \in walk[k] <=> IsWalk(edges, w) /\ Len(w) <= k + 1
           Bad == {k \in 0 .. n : ~Walked(k)}
<1>1. SUFFICES ASSUME Bad # {} PROVE FALSE
  OBVIOUS
<1>2. PICK k \in Bad : \A l \in Bad : k <= l
  <2>1. Bad \in SUBSET Nat
    OBVIOUS
  <2> HIDE DEF Bad
  <2> QED BY <1>1, <2>1, LeastNatural
<1>3. walk[0] = {<<f>> : f \in Froms(edges)} /\ (k # 0 => walk[k] = Longer(edges, walk[k - 1]))
  <2>1. 0 \in 0 .. n /\ k \in 0 .. n
    BY <1>2
  <2> QED BY <2>1 DEF Rounds
<1>4. ASSUME k = 0 PROVE FALSE
  <2>1. ASSUME NEW w \in walk[0] PROVE IsWalk(edges, w) /\ Len(w) <= 1
    <3>1. PICK f \in Froms(edges) : w = <<f>>
      BY <1>3
    <3> QED BY <3>1, SingleWalk
  <2>2. ASSUME NEW w, IsWalk(edges, w), Len(w) <= 1 PROVE w \in walk[0]
    <3>1. Len(w) = 1 /\ w \in Seq(Nodes(edges)) /\ w[1] \in Froms(edges)
      <4>1. Len(w) \in Nat \ {0}
        BY <2>2, WalkFacts
      <4>2. Len(w) = 1
        BY <2>2, <4>1
      <4> QED BY <2>2, <4>2 DEF IsWalk
    <3>2. w = <<w[1]>>
      BY <3>1
    <3> QED BY <1>3, <3>1, <3>2
  <2>3. Walked(0)
    <3>1. 0 + 1 = 1
      OBVIOUS
    <3> QED BY <2>1, <2>2, <3>1
  <2> HIDE DEF Walked
  <2> QED BY <1>2, <1>4, <2>3
<1>5. ASSUME k # 0 PROVE FALSE
  <2>1. k - 1 \in 0 .. n /\ k \in Nat /\ k - 1 + 1 = k
    BY <1>2, <1>5
  <2>2. k - 1 \notin Bad
    BY <1>2, <2>1
  <2>3. \A w : w \in walk[k - 1] <=> IsWalk(edges, w) /\ Len(w) <= k
    BY <2>1, <2>2
  <2> DEFINE old == walk[k - 1]
  <2>4. walk[k] = old \cup UNION {{Append(w, f) : f \in Targets(edges, Last(w)) \ ToSet(w)} :
                                    w \in old}
    BY <1>3, <1>5 DEF Longer
  <2> HIDE DEF old
  <2>5. ASSUME NEW w \in walk[k] PROVE IsWalk(edges, w) /\ Len(w) <= k + 1
    <3>1. CASE w \in old
      <4>1. Len(w) \in Nat
        BY <2>3, <3>1, WalkFacts DEF old
      <4> QED BY <2>1, <2>3, <3>1, <4>1 DEF old
    <3>2. CASE w \notin old
      <4>1. PICK v \in old : \E f \in Targets(edges, Last(v)) \ ToSet(v) : w = Append(v, f)
        BY <2>4, <3>2
      <4>2. PICK f \in Targets(edges, Last(v)) \ ToSet(v) : w = Append(v, f)
        BY <4>1
      <4>3. IsWalk(edges, v) /\ Len(v) <= k
        BY <2>3 DEF old
      <4>4. IsWalk(edges, w) /\ Len(w) = Len(v) + 1
        BY <4>2, <4>3, WalkGoesOn
      <4>5. Len(v) \in Nat
        BY <4>3, WalkFacts
      <4> QED BY <2>1, <4>3, <4>4, <4>5
    <3> QED BY <3>1, <3>2
  <2>6. ASSUME NEW w, IsWalk(edges, w), Len(w) <= k + 1 PROVE w \in walk[k]
    <3>1. Len(w) \in Nat \ {0}
      BY <2>6, WalkFacts
    <3>2. CASE Len(w) <= k
      BY <2>3, <2>4, <2>6, <3>2 DEF old
    <3>3. CASE Len(w) = k + 1
      <4> DEFINE v == SubSeq(w, 1, k)
                 f == w[k + 1]
      <4>1. k \in 1 .. Len(w) /\ k + 1 \in 1 .. Len(w) /\ k \in 1 .. Len(w) - 1
        BY <1>5, <2>1, <3>3
      <4>2. IsWalk(edges, v) /\ Len(v) = k /\ Last(v) = w[k] /\ \A i \in 1 .. k : v[i] = w[i]
        BY <2>6, <4>1, WalkStopsEarly
      <4>3. v \in old
        <5> HIDE DEF v
        <5>1. Len(v) <= k
          BY <2>1, <4>2
        <5> QED BY <2>3, <4>2, <5>1 DEF old
      <4>4. f \in Targets(edges, Last(v))
        BY <2>6, <4>1, <4>2 DEF IsWalk
      <4>5. f \notin ToSet(v)
        <5>1. \A i \in 1 .. k : v[i] # f
          <6>1. \A i \in 1 .. k : i \in 1 .. Len(w) /\ i # k + 1
            BY <2>1, <3>3
          <6> QED BY <2>6, <4>1, <4>2, <6>1 DEF IsWalk
        <5>2. ToSet(v) = {v[i] : i \in 1 .. k}
          BY <4>2, WalkFacts
        <5> QED BY <5>1, <5>2
      <4>6. w = Append(v, f)
        <5>1. w \in Seq(Nodes(edges)) /\ v \in Seq(Nodes(edges)) /\ f \in Nodes(edges)
          BY <2>6, <4>1, <4>2, WalkFacts DEF IsWalk
        <5> HIDE DEF v, f
        <5>2. /\ Append(v, f) \in Seq(Nodes(edges)) /\ Len(Append(v, f)) = k + 1
              /\ Append(v, f)[k + 1] = f /\ \A i \in 1 .. k : Append(v, f)[i] = v[i]
          BY <4>2, <5>1
        <5>3. \A i \in 1 .. Len(w) : Append(v, f)[i] = w[i]
          <6>1. \A i \in 1 .. Len(w) : i \in 1 .. k \/ i = k + 1
            BY <2>1, <3>3
          <6> QED BY <4>2, <5>2, <6>1 DEF f
        <5> QED BY <3>3, <5>1, <5>2, <5>3, SeqEqual
      <4> HIDE DEF v, f
      <4> QED BY <2>4, <4>3, <4>4, <4>5, <4>6
    <3> QED BY <2>1, <2>6, <3>1, <3>2, <3>3
  <2>7. Walked(k)
    BY <2>5, <2>6
  <2> HIDE DEF Walked
  <2> QED BY <1>2, <2>7
<1> QED BY <1>4, <1>5

\* All files of a walk but the last import something, so that no walk is longer
\* than the search.
LEMMA WalksAreFound ==
  ASSUME NEW edges, IsFiniteSet(edges), NEW w
  PROVE  /\ w \in Walks(edges) => IsWalk(edges, w)
         /\ IsWalk(edges, w) /\ Last(w) \in Froms(edges) => w \in Walks(edges)
<1> DEFINE n == Cardinality(Froms(edges))
           walk == CHOOSE walk : Rounds(walk, edges, n)
<1>1. IsFiniteSet(Froms(edges))
  <2> DEFINE from == [e \in edges |-> e.from]
  <2>1. from \in Surjection(edges, Froms(edges))
    BY DEF Surjection, Froms
  <2> HIDE DEF from
  <2> QED BY <2>1, FS_Surjection
<1>2. n \in Nat
  BY <1>1, FS_CardinalityType
<1>3. Walks(edges) = walk[n]
  BY DEF Walks, Rounds, Froms
<1>4. Rounds(walk, edges, n)
  <2> HIDE DEF n
  <2> QED BY <1>2, RoundsExist
<1> HIDE DEF walk
<1>5. \A v : v \in walk[n] <=> IsWalk(edges, v) /\ Len(v) <= n + 1
  <2> HIDE DEF n
  <2>1. n \in 0 .. n
    BY <1>2
  <2> QED BY <1>2, <1>4, <2>1, RoundsWalk
<1>6. ASSUME IsWalk(edges, w), Last(w) \in Froms(edges) PROVE Len(w) <= n + 1
  <2> DEFINE file == [i \in 1 .. Len(w) |-> w[i]]
  <2>1. Len(w) \in Nat \ {0} /\ Last(w) = w[Len(w)]
    BY <1>6, WalkFacts
  <2>2. ASSUME NEW i \in 1 .. Len(w) PROVE w[i] \in Froms(edges)
    <3>1. CASE i = Len(w)
      BY <1>6, <2>1, <3>1
    <3>2. CASE i # Len(w)
      <4>1. i \in 1 .. Len(w) - 1
        BY <2>1, <3>2
      <4>2. w[i + 1] \in Targets(edges, w[i])
        BY <1>6, <4>1 DEF IsWalk
      <4> QED BY <4>2 DEF Targets, Froms
    <3> QED BY <3>1, <3>2
  <2>3. file \in Injection(1 .. Len(w), Froms(edges))
    <3>1. \A i, j \in 1 .. Len(w) : file[i] = file[j] => i = j
      BY <1>6 DEF IsWalk
    <3>2. file \in [1 .. Len(w) -> Froms(edges)]
      BY <2>2
    <3>3. DOMAIN file = 1 .. Len(w)
      OBVIOUS
    <3> HIDE DEF file
    <3> QED BY <3>1, <3>2, <3>3 DEF Injection, IsInjective
  <2> HIDE DEF file
  <2>4. Cardinality(1 .. Len(w)) <= n
    BY <1>1, <2>3, FS_Injection
  <2>5. Cardinality(1 .. Len(w)) = Len(w)
    BY <2>1, FS_Interval
  <2> HIDE DEF n
  <2> QED BY <1>2, <2>1, <2>4, <2>5
<1> HIDE DEF n
<1> QED BY <1>3, <1>5, <1>6

ImportPairs(edges) == {<<e.from, e.to>> : e \in edges}

LEMMA PairOf ==
  ASSUME NEW edges, NEW f
  PROVE  \A g : <<f, g>> \in ImportPairs(edges) <=> g \in Targets(edges, f)
BY DEF ImportPairs, Targets

LEMMA PairShape ==
  ASSUME NEW edges, NEW p \in ImportPairs(edges)
  PROVE  p = <<p[1], p[2]>>
BY DEF ImportPairs

\* A closed set holds what a walk leads to from it.
LEMMA WalkStaysIn ==
  ASSUME NEW edges, NEW w, IsWalk(edges, w), NEW C, NEW i \in 1 .. Len(w), w[i] \in C,
         \A a \in C : Targets(edges, a) \subseteq C
  PROVE  \A k \in i .. Len(w) : w[k] \in C
<1> DEFINE Bad == {k \in i .. Len(w) : w[k] \notin C}
<1>1. Len(w) \in Nat \ {0}
  BY WalkFacts
<1>2. SUFFICES ASSUME Bad # {} PROVE FALSE
  OBVIOUS
<1>3. PICK k \in Bad : \A l \in Bad : k <= l
  <2>1. Bad \in SUBSET Nat
    BY <1>1
  <2> HIDE DEF Bad
  <2> QED BY <1>2, <2>1, LeastNatural
<1>4. k # i
  BY <1>3
<1>5. k - 1 \in i .. Len(w) /\ k - 1 \in 1 .. Len(w) - 1 /\ k - 1 + 1 = k
  BY <1>1, <1>3, <1>4
<1>6. k - 1 \notin Bad
  BY <1>1, <1>3, <1>5
<1>7. w[k - 1] \in C /\ w[k] \in Targets(edges, w[k - 1])
  BY <1>5, <1>6 DEF IsWalk
<1> QED BY <1>3, <1>7

(***************************************************************************)
(* findImportCycles finds a cycle through a file exactly when the file     *)
(* imports itself over some imports: the walks that it cuts where they     *)
(* meet themselves miss no such file.                                      *)
(***************************************************************************)
THEOREM CyclesAreFound ==
  ASSUME NEW edges, IsFiniteSet(edges), NEW f
  PROVE  (\E c \in findImportCycles(edges) : f \in c) <=> f \in Beyond(ImportPairs(edges), f)
<1> DEFINE pairs == ImportPairs(edges)
<1>1. ASSUME NEW c \in findImportCycles(edges), f \in c PROVE f \in Beyond(pairs, f)
  <2>1. PICK w \in Walks(edges) : \E i \in DOMAIN w :
          w[i] \in Targets(edges, Last(w)) /\ c = ToSet(SubSeq(w, i, Len(w)))
    BY <1>1, Zenon DEF findImportCycles
  <2>2. PICK i \in DOMAIN w :
          w[i] \in Targets(edges, Last(w)) /\ c = ToSet(SubSeq(w, i, Len(w)))
    BY <2>1
  <2>3. IsWalk(edges, w)
    BY WalksAreFound
  <2>4. Len(w) \in Nat \ {0} /\ i \in 1 .. Len(w) /\ Last(w) = w[Len(w)]
        /\ \A k \in 1 .. Len(w) : w[k] \in Nodes(edges)
    BY <2>3, WalkFacts
  <2>5. PICK j \in i .. Len(w) : f = w[j]
    <3> DEFINE v == SubSeq(w, i, Len(w))
    <3>1. /\ v \in Seq(Nodes(edges)) /\ Len(v) = Len(w) - i + 1
          /\ \A k \in 1 .. Len(w) - i + 1 : v[k] = w[i + k - 1]
      <4>1. i \in Int /\ Len(w) \in Int /\ i <= Len(w)
            /\ \A k \in i .. Len(w) : w[k] \in Nodes(edges)
        BY <2>4
      <4> QED BY <4>1, SubSeqProperties
    <3> HIDE DEF v
    <3>2. PICK k \in DOMAIN v : f = v[k]
      BY <1>1, <2>2 DEF v, ToSet
    <3>3. k \in 1 .. Len(w) - i + 1
      BY <3>1, <3>2
    <3>4. i + k - 1 \in i .. Len(w)
      BY <2>4, <3>3
    <3> QED BY <3>1, <3>2, <3>3, <3>4
  <2>6. f \in Heads(pairs)
    <3>1. CASE j = 1
      <4>1. i = 1
        BY <2>4, <2>5, <3>1
      <4>2. <<Last(w), f>> \in pairs
        BY <2>2, <2>5, <3>1, <4>1, PairOf
      <4> QED BY <4>2 DEF Heads
    <3>2. CASE j # 1
      <4>1. j - 1 \in 1 .. Len(w) - 1 /\ j - 1 + 1 = j
        BY <2>4, <2>5, <3>2
      <4>2. f \in Targets(edges, w[j - 1])
        BY <2>3, <2>5, <4>1 DEF IsWalk
      <4>3. <<w[j - 1], f>> \in pairs
        BY <4>2, PairOf
      <4> QED BY <4>3 DEF Heads
    <3> QED BY <3>1, <3>2
  <2>7. ASSUME NEW C \in SUBSET Heads(pairs), \A p \in pairs : p[1] \in C \cup {f} => p[2] \in C
        PROVE  f \in C
    <3>1. \A a \in C \cup {f} : Targets(edges, a) \subseteq C
      <4> SUFFICES ASSUME NEW a \in C \cup {f}, NEW b \in Targets(edges, a) PROVE b \in C
        OBVIOUS
      <4> DEFINE p == <<a, b>>
      <4>1. p \in pairs /\ p[1] = a /\ p[2] = b
        BY PairOf
      <4> HIDE DEF p, pairs
      <4> QED BY <2>7, <4>1
    <3>2. j \in 1 .. Len(w) /\ Len(w) \in j .. Len(w) /\ j \in i .. Len(w)
      BY <2>4, <2>5
    <3>3. \A k \in j .. Len(w) : w[k] \in C \cup {f}
      <4> DEFINE D == C \cup {f}
      <4>1. w[j] \in D /\ \A a \in D : Targets(edges, a) \subseteq D
        BY <2>5, <3>1
      <4> HIDE DEF D
      <4>2. \A k \in j .. Len(w) : w[k] \in D
        BY <2>3, <3>2, <4>1, WalkStaysIn
      <4> QED BY <4>2 DEF D
    <3>4. w[i] \in C
      <4>1. Last(w) \in C \cup {f}
        BY <2>4, <3>2, <3>3
      <4> QED BY <2>2, <3>1, <4>1
    <3>5. \A k \in i .. Len(w) : w[k] \in C
      <4>1. \A a \in C : Targets(edges, a) \subseteq C
        BY <3>1
      <4> QED BY <2>3, <2>4, <3>4, <4>1, WalkStaysIn
    <3> QED BY <2>5, <3>2, <3>5
  <2> HIDE DEF pairs
  <2> QED BY <2>6, <2>7 DEF Beyond, Heads
<1>2. ASSUME f \in Beyond(pairs, f) PROVE \E c \in findImportCycles(edges) : f \in c
  <2> DEFINE Comes(y) == \E w : IsWalk(edges, w) /\ w[1] = f /\ y \in Targets(edges, Last(w))
             C == {y \in Heads(pairs) : Comes(y)}
  <2>1. ASSUME NEW p \in pairs, p[1] \in C \cup {f} PROVE p[2] \in C
    <3> DEFINE x == p[1]
               y == p[2]
    <3>1. y \in Targets(edges, x) /\ y \in Heads(pairs)
      <4>1. p = <<x, y>>
        BY PairShape
      <4>2. <<x, y>> \in pairs
        BY <4>1
      <4> QED BY <4>2, PairOf DEF Heads
    <3>2. Comes(y)
      <4> HIDE DEF x, y, pairs
      <4>1. CASE x = f
        <5>1. f \in Froms(edges)
          BY <3>1, <4>1 DEF Targets, Froms
        <5>2. IsWalk(edges, <<f>>) /\ Last(<<f>>) = f /\ <<f>>[1] = f
          BY <5>1, SingleWalk
        <5> DEFINE w == <<f>>
        <5> HIDE DEF w
        <5>3. IsWalk(edges, w) /\ Last(w) = f /\ w[1] = f
          BY <5>2 DEF w
        <5> QED BY <3>1, <4>1, <5>3
      <4>2. CASE x # f
        <5>1. Comes(x)
          BY <2>1, <4>2 DEF x
        <5>2. PICK w : IsWalk(edges, w) /\ w[1] = f /\ x \in Targets(edges, Last(w))
          BY <5>1
        <5>3. CASE x \in ToSet(w)
          <6>1. PICK k \in 1 .. Len(w) : x = w[k]
            BY <5>2, <5>3, WalkFacts
          <6>2. Len(w) \in Nat \ {0}
            BY <5>2, WalkFacts
          <6> DEFINE v == SubSeq(w, 1, k)
          <6>3. IsWalk(edges, v) /\ Last(v) = x /\ \A i \in 1 .. k : v[i] = w[i]
            BY <5>2, <6>1, WalkStopsEarly
          <6>4. v[1] = f
            <7>1. 1 \in 1 .. k
              BY <6>2
            <7> QED BY <5>2, <6>3, <7>1
          <6> HIDE DEF v
          <6> QED BY <3>1, <6>3, <6>4
        <5>4. CASE x \notin ToSet(w)
          <6> DEFINE v == Append(w, x)
          <6>1. IsWalk(edges, v) /\ Last(v) = x /\ v[1] = f
            BY <5>2, <5>4, WalkGoesOn
          <6> HIDE DEF v
          <6> QED BY <3>1, <6>1
        <5> QED BY <5>3, <5>4
      <4> QED BY <4>1, <4>2
    <3> HIDE DEF Comes
    <3> QED BY <3>1, <3>2
  <2>2. f \in C
    <3>1. C \in SUBSET Heads(pairs)
      OBVIOUS
    <3> HIDE DEF C, pairs
    <3> QED BY <1>2, <2>1, <3>1 DEF Beyond, Heads
  <2>3. PICK w : IsWalk(edges, w) /\ w[1] = f /\ f \in Targets(edges, Last(w))
    BY <2>2
  <2>4. Last(w) \in Froms(edges)
    BY <2>3 DEF Targets, Froms
  <2>5. w \in Walks(edges)
    BY <2>3, <2>4, WalksAreFound
  <2>6. Len(w) \in Nat \ {0} /\ DOMAIN w = 1 .. Len(w) /\ 1 \in DOMAIN w /\ w \in Seq(Nodes(edges))
    BY <2>3, WalkFacts DEF IsWalk
  <2>7. SubSeq(w, 1, Len(w)) = w
    BY <2>6, SubSeqFull
  <2>8. f \in ToSet(SubSeq(w, 1, Len(w)))
    BY <2>3, <2>6, <2>7 DEF ToSet
  <2>9. ToSet(SubSeq(w, 1, Len(w))) \in findImportCycles(edges)
    <3> DEFINE meets == {k \in DOMAIN w : w[k] \in Targets(edges, Last(w))}
               cycle(i) == ToSet(SubSeq(w, i, Len(w)))
    <3>1. 1 \in meets
      BY <2>3, <2>6
    <3>2. cycle(1) \in {cycle(i) : i \in meets}
      BY <3>1
    <3>3. {cycle(i) : i \in meets} \subseteq findImportCycles(edges)
      BY <2>5, Zenon DEF findImportCycles
    <3> QED BY <3>2, <3>3
  <2> QED BY <2>8, <2>9
<1> QED BY <1>1, <1>2

-----------------------------------------------------------------------------
(* The evidence of a scan.                                                 *)

\* A search that is cut off where a path ends it finds what is beyond the pairs of
\* the paths that do not.
LEMMA CutOff ==
  ASSUME NEW pairs, NEW through, NEW t \in through, NEW f \in through,
         \A p \in pairs : p[1] \in through
  PROVE  f \in Beyond(pairs, t) <=>
           f \in Beyond({p \in pairs : p[1] \in through /\ p[2] \in through}, t)
<1> DEFINE inner == {p \in pairs : p[1] \in through /\ p[2] \in through}
<1>1. ASSUME f \in Beyond(inner, t) PROVE f \in Beyond(pairs, t)
  <2>1. f \in Heads(inner) /\ Heads(inner) \subseteq Heads(pairs)
    BY <1>1 DEF Beyond, Heads
  <2>2. ASSUME NEW C \in SUBSET Heads(pairs), \A p \in pairs : p[1] \in C \cup {t} => p[2] \in C
        PROVE  f \in C
    <3> DEFINE D == C \cap Heads(inner)
    <3>1. D \in SUBSET Heads(inner) /\ \A p \in inner : p[1] \in D \cup {t} => p[2] \in D
      BY <2>2 DEF Heads
    <3> HIDE DEF D, inner
    <3>2. f \in D
      BY <1>1, <3>1 DEF Beyond, Heads
    <3> QED BY <3>2 DEF D
  <2> HIDE DEF inner
  <2> QED BY <2>1, <2>2 DEF Beyond, Heads
<1>2. ASSUME f \in Beyond(pairs, t) PROVE f \in Beyond(inner, t)
  <2>1. ASSUME NEW C \in SUBSET Heads(inner), \A p \in inner : p[1] \in C \cup {t} => p[2] \in C
        PROVE  f \in C
    <3> DEFINE D == C \cup (Heads(pairs) \ through)
    <3>1. D \in SUBSET Heads(pairs)
      BY DEF Heads
    <3>2. ASSUME NEW p \in pairs, p[1] \in D \cup {t} PROVE p[2] \in D
      <4>1. p[1] \in C \cup {t}
        BY <3>2
      <4>2. p[2] \in through => p \in inner
        OBVIOUS
      <4>3. p[2] \in Heads(pairs)
        BY DEF Heads
      <4> HIDE DEF inner
      <4> QED BY <2>1, <4>1, <4>2, <4>3
    <3> HIDE DEF D, inner
    <3>3. f \in D
      BY <1>2, <3>1, <3>2 DEF Beyond, Heads
    <3> QED BY <3>3 DEF D
  <2>2. f \in Heads(inner)
    <3>1. Heads(inner) \in SUBSET Heads(inner)
          /\ \A p \in inner : p[1] \in Heads(inner) \cup {t} => p[2] \in Heads(inner)
      BY DEF Heads
    <3> HIDE DEF inner
    <3> QED BY <2>1, <3>1
  <2> HIDE DEF inner
  <2> QED BY <2>1, <2>2 DEF Beyond, Heads
<1> QED BY <1>1, <1>2

\* The paths that a search from a test passes through.
Passable(s) == {f \in Scripts(s) : f \in TestFile \/ ~isNonProductPath(s, f)}

LEMMA PassedPairs ==
  ASSUME NEW s, ScriptsImport(s)
  PROVE  Passed(s, Graph(s)) =
           {p \in ImportPairs(Graph(s)) : p[1] \in Passable(s) /\ p[2] \in Scripts(s)}
<1> DEFINE edges == Graph(s)
<1>1. \A e \in edges : e.from \in Scripts(s)
  <2>1. {} \in SUBSET File
    OBVIOUS
  <2> QED BY <2>1, EdgeOf DEF Graph, ScriptsImport
<1>2. Scripts(s) \subseteq File
  BY DEF Scripts, Present
<1>3. \A f \in Scripts(s) : f \in {g \in File : g \in TestFile \/ ~isNonProductPath(s, g)}
                              <=> f \in Passable(s)
  BY <1>2 DEF Passable
<1> HIDE DEF edges
<1>4. ASSUME NEW p \in Passed(s, edges)
      PROVE  p \in ImportPairs(edges) /\ p[1] \in Passable(s) /\ p[2] \in Scripts(s)
  <2>1. PICK e \in edges : /\ e.from \in {g \in File : g \in TestFile \/ ~isNonProductPath(s, g)}
                           /\ e.to \in Scripts(s) /\ p = <<e.from, e.to>>
    BY <1>4 DEF Passed
  <2> QED BY <1>1, <1>3, <2>1 DEF ImportPairs
<1>5. ASSUME NEW p \in ImportPairs(edges), p[1] \in Passable(s), p[2] \in Scripts(s)
      PROVE  p \in Passed(s, edges)
  <2>1. PICK e \in edges : p = <<e.from, e.to>>
    BY DEF ImportPairs
  <2>2. e.from \in {g \in File : g \in TestFile \/ ~isNonProductPath(s, g)} /\ e.to \in Scripts(s)
    BY <1>1, <1>3, <1>5, <2>1
  <2> QED BY <2>1, <2>2 DEF Passed
<1> QED BY <1>4, <1>5 DEF edges

LEMMA TestsReach ==
  ASSUME NEW s, ScriptsImport(s), NEW f \in Passable(s) \ TestFile
  PROVE  TestPaths(s, Graph(s), f) # {} <=>
           \E t \in TestFile \cap Passable(s) :
             f \in Beyond({p \in ImportPairs(Graph(s)) :
                             p[1] \in Passable(s) /\ p[2] \in Passable(s)}, t)
<1> DEFINE edges == Graph(s)
           passed == Passed(s, edges)
           through == Passable(s)
<1>1. passed = {p \in ImportPairs(edges) : p[1] \in through /\ p[2] \in Scripts(s)}
  BY PassedPairs
<1>2. through \subseteq Scripts(s) /\ TestFile \cap Scripts(s) = TestFile \cap through
  BY DEF Passable
<1>3. IsFiniteSet(Heads(passed))
  <2>1. IsFiniteSet(Heads({<<e.from, e.to>> : e \in edges}))
    <3>1. {} \in SUBSET File
      OBVIOUS
    <3>2. edges \in SUBSET buildImportGraph(s.tree, Scripts(s), {})
      BY DEF Graph
    <3> HIDE DEF edges
    <3> QED BY <3>1, <3>2, GraphHeads DEF ScriptsImport
  <2>2. Heads(passed) \in SUBSET Heads({<<e.from, e.to>> : e \in edges})
    BY <1>1 DEF Heads, ImportPairs
  <2> QED BY <2>1, <2>2, FS_Subset
<1>4. {p \in passed : p[1] \in through /\ p[2] \in through} =
        {p \in ImportPairs(edges) : p[1] \in through /\ p[2] \in through}
  BY <1>1, <1>2
<1>5. \A p \in passed : p[1] \in through
  BY <1>1
<1> HIDE DEF passed, through
<1>6. ASSUME NEW t \in TestFile \cap Scripts(s)
      PROVE  f \in CoveredBy(s, edges, t) <=>
               f \in Beyond({p \in ImportPairs(edges) : p[1] \in through /\ p[2] \in through}, t)
  <2>1. f \in CoveredBy(s, edges, t) <=> f \in Reach(passed, {t})
    BY DEF CoveredBy, passed, Passable
  <2>2. Reach(passed, {t}) = {t} \cup Beyond(passed, t)
    BY <1>3, SearchReachesBeyond
  <2>3. f # t
    OBVIOUS
  <2>4. t \in through /\ f \in through
    BY <1>2 DEF through
  <2>5. f \in Beyond(passed, t) <=>
          f \in Beyond({p \in passed : p[1] \in through /\ p[2] \in through}, t)
    BY <1>5, <2>4, CutOff
  <2> QED BY <1>4, <2>1, <2>2, <2>3, <2>5
<1>7. TestPaths(s, edges, f) # {} <=> \E t \in TestFile \cap Scripts(s) : f \in CoveredBy(s, edges, t)
  BY DEF TestPaths
<1> QED BY <1>2, <1>6, <1>7 DEF through

-----------------------------------------------------------------------------
(* The items of each signal.                                               *)

Diagnosed(s) == {f \in Scripts(s) : ~isNonProductPath(s, f)}
CycleItems(s) ==
  {CycleItem(s, Graph(s), c) : c \in {d \in findImportCycles(Graph(s)) : d \cap Diagnosed(s) # {}}}
UntestedItems(s) ==
  Binary(s, Graph(s), "untested",
         {f \in Diagnosed(s) \ TestFile : ~isTested(s, Graph(s), f)})
UnresolvedItems(s) ==
  {Item(s, Graph(s), "unresolved", e.from, {e.to}, BinaryStrength.unresolved) :
     e \in Unresolved(s, Graph(s))}
Items(s) == extractDeterministicEvidence(s) \cup extractLargeFileEvidence(s)

LEMMA ItemSignal ==
  ASSUME NEW s, NEW edges, NEW signal, NEW f, NEW key, NEW strength
  PROVE  LET e == Item(s, edges, signal, f, key, strength)
         IN e.signal = signal /\ e.path = f /\ e.id = <<signal, f, key>>
BY DEF Item

LEMMA CycleSignal ==
  ASSUME NEW s, NEW edges, NEW c
  PROVE  CycleItem(s, edges, c).signal = "cycle" /\ CycleItem(s, edges, c).related = c
BY DEF CycleItem, Item

LEMMA ItemsBySignal ==
  ASSUME NEW s
  PROVE  /\ {e \in Items(s) : e.signal = "cycle"} = CycleItems(s)
         /\ {e \in Items(s) : e.signal = "untested"} = UntestedItems(s)
         /\ {e \in Items(s) : e.signal = "unresolved"} = UnresolvedItems(s)
<1> DEFINE edges == Graph(s)
           untestable == Diagnosed(s) \ TestFile
           counted(signal, value, onset, least) == Numeric(s, edges, signal, value, onset, least)
           others == counted("fanOut", [f \in Scripts(s) |-> FanOut(edges, f)], FanThreshold, FanThreshold)
             \cup counted("fanIn", [f \in Scripts(s) |-> FanIn(edges, f)], FanThreshold, FanThreshold)
             \cup counted("large", [f \in Diagnosed(s) |-> s.tree[f].lines],
                          MaxFileLines, MaxFileLines + 1)
             \cup Binary(s, edges, "barrel", {f \in untestable : s.tree[f].barrel})
             \cup counted("deep", [f \in untestable |-> s.tree[f].depth], NestingOnset, NestingOnset)
             \cup counted("churn", [f \in IF s.git THEN Scripts(s) ELSE {} |-> s.tree[f].churn],
                          ChurnOnset, ChurnOnset)
<1>1. \A signal, value, onset, least :
        \A e \in Numeric(s, edges, signal, value, onset, least) : e.signal = signal
  BY ItemSignal DEF Numeric
<1>2. \A signal, files : \A e \in Binary(s, edges, signal, files) : e.signal = signal
  BY ItemSignal DEF Binary
<1>3. \A e \in extractLargeFileEvidence(s) : e.signal = "large"
  BY DEF extractLargeFileEvidence
<1>4. \A e \in others : e.signal \in {"fanOut", "fanIn", "large", "barrel", "deep", "churn"}
  <2> SUFFICES ASSUME NEW e \in others
               PROVE  e.signal \in {"fanOut", "fanIn", "large", "barrel", "deep", "churn"}
    OBVIOUS
  <2> QED BY <1>1, <1>2, Zenon
<1>5. extractDeterministicEvidence(s) =
        others \cup CycleItems(s) \cup UntestedItems(s) \cup UnresolvedItems(s)
  <2> DEFINE all == extractDeterministicEvidence(s)
  <2> QED BY Zenon DEF extractDeterministicEvidence, CycleItems, UntestedItems, UnresolvedItems,
                       Diagnosed
<1>6. \A e \in CycleItems(s) : e.signal = "cycle"
  BY CycleSignal DEF CycleItems
<1>7. \A e \in UntestedItems(s) : e.signal = "untested"
  BY <1>2 DEF UntestedItems
<1>8. ASSUME NEW e \in UnresolvedItems(s) PROVE e.signal = "unresolved"
  <2>1. PICK x \in Unresolved(s, edges) :
          e = Item(s, edges, "unresolved", x.from, {x.to}, BinaryStrength.unresolved)
    BY DEF UnresolvedItems
  <2> HIDE DEF edges
  <2> QED BY <2>1, ItemSignal
<1> HIDE DEF others
<1>9. Items(s) = others \cup CycleItems(s) \cup UntestedItems(s) \cup UnresolvedItems(s)
                   \cup extractLargeFileEvidence(s)
  BY <1>5 DEF Items
<1> QED BY <1>3, <1>4, <1>6, <1>7, <1>8, <1>9

LEMMA ExtractedItems ==
  ASSUME NEW s
  PROVE  LET extracted == extractEvidenceWithPlugins(s)
         IN /\ extracted.refused <=>
                 Cardinality({e \in Items(s) : e.signal = "unresolved"})
                   < Cardinality(Unresolved(s, Graph(s)))
            /\ ~extracted.refused => extracted.evidence = Items(s)
<1> DEFINE found == Cardinality({e \in Items(s) : e.signal = "unresolved"})
           duplicate == found < Cardinality(Unresolved(s, Graph(s)))
           kept == IF duplicate THEN {} ELSE Items(s)
           capable == negotiateCapabilities(s)
           extracted == extractEvidenceWithPlugins(s)
<1>1. extracted = [refused |-> duplicate, evidence |-> kept, capabilities |-> capable]
  BY Zenon DEF extractEvidenceWithPlugins, Items, Quantify
<1> HIDE DEF kept, capable, extracted
<1>2. extracted.evidence = kept
  BY <1>1
<1>3. extracted.refused = duplicate
  <2> HIDE DEF duplicate
  <2> QED BY <1>1
<1> QED BY <1>2, <1>3 DEF extracted, kept

\* Two imports have one item exactly when they are of one file and one target.
LEMMA RefusedForTwins ==
  ASSUME NEW s, ScriptsImport(s)
  PROVE  extractEvidenceWithPlugins(s).refused <=> ImportedTwiceInVain(s)
<1> DEFINE edges == Graph(s)
           vain == Unresolved(s, edges)
           item(e) == Item(s, edges, "unresolved", e.from, {e.to}, BinaryStrength.unresolved)
           image == {item(e) : e \in vain}
           itemOf == [e \in vain |-> item(e)]
<1>1. extractEvidenceWithPlugins(s).refused <=> Cardinality(image) < Cardinality(vain)
  <2>1. {e \in Items(s) : e.signal = "unresolved"} = image
    BY ItemsBySignal DEF UnresolvedItems
  <2>2. extractEvidenceWithPlugins(s).refused <=>
          Cardinality({e \in Items(s) : e.signal = "unresolved"}) < Cardinality(vain)
    BY ExtractedItems
  <2> QED BY <2>1, <2>2
<1>2. IsFiniteSet(vain)
  <2>1. IsFiniteSet(edges)
    BY EdgesFinite DEF Graph, ScriptsImport
  <2>2. vain \in SUBSET edges
    BY DEF Unresolved
  <2> HIDE DEF vain, edges
  <2> QED BY <2>1, <2>2, FS_Subset
<1>3. itemOf \in Surjection(vain, image)
  <2> HIDE DEF vain, item
  <2> QED BY DEF Surjection
<1>4. itemOf \in Injection(vain, image) <=>
        \A e1, e2 \in vain : item(e1) = item(e2) => e1 = e2
  <2> HIDE DEF vain, item
  <2>1. itemOf \in [vain -> image] /\ DOMAIN itemOf = vain
    OBVIOUS
  <2>2. \A e \in vain : itemOf[e] = item(e)
    OBVIOUS
  <2> HIDE DEF itemOf
  <2> QED BY <2>1, <2>2 DEF Injection, IsInjective
<1>5. ASSUME NEW e1 \in vain, NEW e2 \in vain
      PROVE  item(e1) = item(e2) <=> e1.from = e2.from /\ e1.to = e2.to
  <2>1. ASSUME item(e1) = item(e2) PROVE e1.from = e2.from /\ e1.to = e2.to
    <3>1. item(e1).id = <<"unresolved", e1.from, {e1.to}>>
          /\ item(e2).id = <<"unresolved", e2.from, {e2.to}>>
      <4> HIDE DEF edges
      <4> QED BY ItemSignal
    <3>2. <<"unresolved", e1.from, {e1.to}>> = <<"unresolved", e2.from, {e2.to}>>
      BY <2>1, <3>1
    <3> QED BY <3>2
  <2>2. ASSUME e1.from = e2.from, e1.to = e2.to PROVE item(e1) = item(e2)
    BY <2>2
  <2> QED BY <2>1, <2>2
<1>6. ImportedTwiceInVain(s) <=> ~\A e1, e2 \in vain : item(e1) = item(e2) => e1 = e2
  <2>1. ImportedTwiceInVain(s) <=>
          \E e1, e2 \in vain : e1 # e2 /\ e1.from = e2.from /\ e1.to = e2.to
    BY DEF ImportedTwiceInVain
  <2> HIDE DEF vain, item
  <2> QED BY <1>5, <2>1
<1> HIDE DEF vain, item, image, itemOf
<1>7. /\ Cardinality(image) <= Cardinality(vain)
      /\ Cardinality(image) = Cardinality(vain) <=> itemOf \in Injection(vain, image)
      /\ Cardinality(vain) \in Nat /\ Cardinality(image) \in Nat
  <2>1. IsFiniteSet(image)
    BY <1>2, <1>3, FS_Surjection
  <2> QED BY <1>2, <1>3, <2>1, FS_Surjection, FS_CardinalityType
<1>8. Cardinality(image) < Cardinality(vain) <=> Cardinality(image) # Cardinality(vain)
  BY <1>7
<1> QED BY <1>1, <1>4, <1>6, <1>7, <1>8

LEMMA CyclesShown ==
  ASSUME NEW s, ScriptsImport(s), NEW f \in Passable(s) \ TestFile
  PROVE  (\E e \in Items(s) : e.signal = "cycle" /\ f \in e.related)
           <=> f \in Beyond(ImportPairs(Graph(s)), f)
<1>1. f \in Diagnosed(s)
  BY DEF Passable, Diagnosed
<1>2. (\E e \in Items(s) : e.signal = "cycle" /\ f \in e.related) <=>
        \E e \in CycleItems(s) : f \in e.related
  BY ItemsBySignal
<1>3. (\E e \in CycleItems(s) : f \in e.related) <=> \E c \in findImportCycles(Graph(s)) : f \in c
  <2>1. ASSUME NEW e \in CycleItems(s), f \in e.related
        PROVE  \E c \in findImportCycles(Graph(s)) : f \in c
    <3>1. PICK c \in findImportCycles(Graph(s)) : e = CycleItem(s, Graph(s), c)
      BY DEF CycleItems
    <3> QED BY <2>1, <3>1, CycleSignal
  <2>2. ASSUME NEW c \in findImportCycles(Graph(s)), f \in c
        PROVE  \E e \in CycleItems(s) : f \in e.related
    <3>1. CycleItem(s, Graph(s), c) \in CycleItems(s)
      BY <1>1, <2>2 DEF CycleItems
    <3> QED BY <2>2, <3>1, CycleSignal
  <2> QED BY <2>1, <2>2
<1>4. IsFiniteSet(Graph(s))
  BY EdgesFinite DEF Graph, ScriptsImport
<1> QED BY <1>2, <1>3, <1>4, CyclesAreFound

LEMMA UntestedShown ==
  ASSUME NEW s, ScriptsImport(s), NEW f \in Passable(s) \ TestFile,
         NEW inner, inner = {p \in ImportPairs(Graph(s)) :
                               p[1] \in Passable(s) /\ p[2] \in Passable(s)}
  PROVE  (\E e \in Items(s) : e.signal = "untested" /\ e.path = f) <=>
           /\ expectedTestPath[f] \notin Scripts(s) \cup {NoFile}
           /\ \A t \in TestFile \cap Passable(s) : f \notin Beyond(inner, t)
<1>1. f \in Diagnosed(s) \ TestFile
  BY DEF Passable, Diagnosed
<1>2. (\E e \in Items(s) : e.signal = "untested" /\ e.path = f) <=>
        \E e \in UntestedItems(s) : e.path = f
  BY ItemsBySignal
<1>3. (\E e \in UntestedItems(s) : e.path = f) <=> ~isTested(s, Graph(s), f)
  <2> DEFINE files == {g \in Diagnosed(s) \ TestFile : ~isTested(s, Graph(s), g)}
             item(g) == Item(s, Graph(s), "untested", g, {}, BinaryStrength["untested"])
  <2>1. UntestedItems(s) = {item(g) : g \in files}
    BY DEF UntestedItems, Binary
  <2>2. \A g : item(g).path = g
    BY ItemSignal
  <2>3. f \in files <=> ~isTested(s, Graph(s), f)
    BY <1>1
  <2> HIDE DEF files, item
  <2> QED BY <2>1, <2>2, <2>3
<1>4. isTested(s, Graph(s), f) <=>
        \/ expectedTestPath[f] \in Scripts(s) \cup {NoFile}
        \/ TestPaths(s, Graph(s), f) # {}
  BY DEF isTested
<1>5. TestPaths(s, Graph(s), f) # {} <=> \E t \in TestFile \cap Passable(s) : f \in Beyond(inner, t)
  BY TestsReach
<1> QED BY <1>2, <1>3, <1>4, <1>5

(***************************************************************************)
(* What a scan reports of the import graph is true of it                   *)
(* (deterministic.ts: findImportCycles, buildTestCoverageIndex).           *)
(***************************************************************************)
THEOREM EvidenceMatches == Spec => []EvidenceMatchesGraph
<1>1. ShownInv => EvidenceMatchesGraph
  <2> SUFFICES ASSUME ShownInv PROVE EvidenceMatchesGraph
    OBVIOUS
  <2> DEFINE refusedRightly(r) ==
               r.report.refused <=> DuplicateFindings(r.answer) \/ ImportedTwiceInVain(r.snapshot)
  <2>1. ScriptsImport(Snapshot)
    BY SnapshotScriptsImport DEF ShownInv
  <2>2. ASSUME shown.kind = "scan" PROVE refusedRightly(shown)
    <3> DEFINE s == Snapshot
               refused == extractEvidenceWithPlugins(s).refused
               answer == shown.answer
    <3>1. shown.snapshot = s /\ shown.report = runDiagnosis(s, answer)
      BY <2>2 DEF ShownInv, ShownScan
    <3>2. refused <=> ImportedTwiceInVain(s)
      <4> HIDE DEF s
      <4> QED BY <2>1, RefusedForTwins DEF s
    <3>3. runDiagnosis(s, answer) =
            IF refused \/ DuplicateFindings(answer) THEN Refused
            ELSE assessRisk(s, extractEvidenceWithPlugins(s), answer)
      BY Zenon DEF runDiagnosis, DuplicateFindings
    <3>4. Refused.refused
      BY DEF Refused
    <3>5. ~assessRisk(s, extractEvidenceWithPlugins(s), answer).refused
      BY Zenon DEF assessRisk
    <3> HIDE DEF s, refused, answer
    <3> QED BY <3>1, <3>2, <3>3, <3>4, <3>5 DEF answer
  <2>3. ASSUME NEW r \in Reports
        PROVE  LET s == r.snapshot
                   items == r.report.evidence
                   pairs == {<<e.from, e.to>> : e \in Graph(s)}
                   passable == {f \in Scripts(s) : f \in TestFile \/ ~isNonProductPath(s, f)}
                   reached == UNION {Beyond({p \in pairs : {p[1], p[2]} \subseteq passable}, t) :
                                       t \in TestFile \cap passable}
               IN \A f \in passable \ TestFile :
                    /\ f \in Beyond(pairs, f) <=> \E e \in items : e.signal = "cycle" /\ f \in e.related
                    /\ (\E e \in items : e.signal = "untested" /\ e.path = f)
                         <=> /\ expectedTestPath[f] \notin Scripts(s) \cup {NoFile}
                             /\ f \notin reached
    <3> DEFINE s == r.snapshot
               items == r.report.evidence
               pairs == ImportPairs(Graph(s))
               inner == {p \in pairs : p[1] \in Passable(s) /\ p[2] \in Passable(s)}
    <3>1. r = shown /\ shown.kind = "scan" /\ ~shown.report.refused
      BY DEF Reports
    <3>2. s = Snapshot /\ r.report = runDiagnosis(s, r.answer)
      BY <3>1 DEF ShownInv, ShownScan
    <3>3. items = Items(s)
      <4>1. ~runDiagnosis(s, r.answer).refused
        BY <3>1, <3>2
      <4>2. items = extractEvidenceWithPlugins(s).evidence
        BY <3>2, <4>1, DiagnosisAssessed DEF Assessed
      <4>3. ~extractEvidenceWithPlugins(s).refused
        <5>1. Refused.refused
          BY DEF Refused
        <5>2. extractEvidenceWithPlugins(s).refused => runDiagnosis(s, r.answer) = Refused
          BY Zenon DEF runDiagnosis
        <5> QED BY <4>1, <5>1, <5>2
      <4> QED BY <4>2, <4>3, ExtractedItems
    <3> HIDE DEF s
    <3>4. ASSUME NEW f \in Passable(s) \ TestFile
          PROVE  /\ f \in Beyond(pairs, f) <=>
                      \E e \in Items(s) : e.signal = "cycle" /\ f \in e.related
                 /\ (\E e \in Items(s) : e.signal = "untested" /\ e.path = f) <=>
                      /\ expectedTestPath[f] \notin Scripts(s) \cup {NoFile}
                      /\ \A t \in TestFile \cap Passable(s) : f \notin Beyond(inner, t)
      <4>1. ScriptsImport(s)
        BY <2>1, <3>2
      <4>2. (\E e \in Items(s) : e.signal = "cycle" /\ f \in e.related) <=> f \in Beyond(pairs, f)
        BY <4>1, CyclesShown
      <4>3. (\E e \in Items(s) : e.signal = "untested" /\ e.path = f) <=>
              /\ expectedTestPath[f] \notin Scripts(s) \cup {NoFile}
              /\ \A t \in TestFile \cap Passable(s) : f \notin Beyond(inner, t)
        <5>1. inner = {p \in ImportPairs(Graph(s)) : p[1] \in Passable(s) /\ p[2] \in Passable(s)}
          OBVIOUS
        <5> HIDE DEF inner
        <5> QED BY <4>1, <5>1, UntestedShown
      <4> QED BY <4>2, <4>3
    <3> DEFINE through == {f \in Scripts(s) : f \in TestFile \/ ~isNonProductPath(s, f)}
               all == {<<e.from, e.to>> : e \in Graph(s)}
               reached == UNION {Beyond({p \in all : {p[1], p[2]} \subseteq through}, t) :
                                   t \in TestFile \cap through}
    <3>5. through = Passable(s) /\ all = pairs
      BY DEF Passable, ImportPairs
    <3>6. {p \in all : {p[1], p[2]} \subseteq through} = inner
      <4> HIDE DEF through, all, pairs
      <4> QED BY <3>5
    <3> HIDE DEF inner, through, all, pairs
    <3>7. \A f : f \in reached <=> \E t \in TestFile \cap Passable(s) : f \in Beyond(inner, t)
      BY <3>5, <3>6
    <3> HIDE DEF reached
    <3>8. ASSUME NEW f \in through \ TestFile
          PROVE  /\ f \in Beyond(all, f) <=>
                      \E e \in items : e.signal = "cycle" /\ f \in e.related
                 /\ (\E e \in items : e.signal = "untested" /\ e.path = f) <=>
                      /\ expectedTestPath[f] \notin Scripts(s) \cup {NoFile}
                      /\ f \notin reached
      BY <3>3, <3>4, <3>5, <3>7
    <3> HIDE DEF items
    <3> QED BY <3>8, Zenon DEF s, items, through, all, reached
  <2> QED BY <2>2, <2>3, Zenon DEF EvidenceMatchesGraph
<1> QED BY <1>1, ShownHolds, PTL

-----------------------------------------------------------------------------
(* Scores: sums of what counts most, rounded.                              *)

\* Rounding keeps the order of fractions.
LEMMA RoundedMonotonic ==
  ASSUME NEW x \in Nat, NEW y \in Nat \ {0}, NEW u \in Nat, NEW v \in Nat \ {0}, x * v <= u * y
  PROVE  Rounded(x, y) <= Rounded(u, v) /\ Rounded(x, y) \in Nat
<1> DEFINE a == 2 * x + y
           b == 2 * y
           c == 2 * u + v
           d == 2 * v
           p == a \div b
           q == c \div d
<1>1. a \in Nat /\ b \in Nat \ {0} /\ c \in Nat /\ d \in Nat \ {0}
  OBVIOUS
<1>2. a * d <= c * b
  <2>1. a * d = 4 * (x * v) + 2 * (y * v) /\ c * b = 4 * (u * y) + 2 * (y * v)
    OBVIOUS
  <2>2. x * v \in Nat /\ u * y \in Nat /\ y * v \in Nat
    OBVIOUS
  <2> HIDE DEF a, b, c, d
  <2> QED BY <2>1, <2>2
<1>3. Rounded(x, y) = p /\ Rounded(u, v) = q
  BY DEF Rounded
<1> HIDE DEF a, b, c, d
<1>4. /\ p \in Nat /\ q \in Nat
      /\ p * b <= a /\ c < (q + 1) * d
  BY <1>1
<1> HIDE DEF p, q
<1>5. SUFFICES ASSUME q + 1 <= p PROVE FALSE
  BY <1>3, <1>4
<1>6. (q + 1) * (d * b) <= p * (d * b)
  <2>1. d * b \in Nat
    BY <1>1
  <2> QED BY <1>4, <1>5, <2>1
<1>7. p * (d * b) = (p * b) * d /\ (q + 1) * (d * b) = ((q + 1) * d) * b
  BY <1>1, <1>4
<1>8. (p * b) * d <= a * d
  BY <1>1, <1>4
<1>9. c * b < ((q + 1) * d) * b
  BY <1>1, <1>4
<1>10. a * d \in Nat /\ c * b \in Nat /\ (p * b) * d \in Nat /\ ((q + 1) * d) * b \in Nat
  BY <1>1, <1>4
<1> QED BY <1>2, <1>6, <1>7, <1>8, <1>9, <1>10

\* A finite set of numbers has a greatest one.
From(S, n) == {m \in S : n <= m}

LEMMA LeastFrom ==
  ASSUME NEW S, IsFiniteSet(S), S # {}
  PROVE  \E n \in S : \A m \in S : From(S, m) \subseteq From(S, n) => From(S, m) = From(S, n)
<1> DEFINE D == {From(S, n) : n \in S}
<1>1. D # {} /\ D \in SUBSET SUBSET S
  BY DEF From
<1>2. PICK T \in D : \A U \in D : U \subseteq T => U = T
  <2> HIDE DEF D
  <2> QED BY <1>1, MinimalSet
<1> QED BY <1>2

LEMMA GreatestOf ==
  ASSUME NEW S \in SUBSET Nat, IsFiniteSet(S)
  PROVE  /\ Greatest(S) \in Nat
         /\ \A n \in S : n <= Greatest(S)
         /\ S # {} => Greatest(S) \in S
<1>1. CASE S = {}
  BY <1>1 DEF Greatest
<1>2. CASE S # {}
  <2>1. PICK n \in S : \A m \in S : From(S, m) \subseteq From(S, n) => From(S, m) = From(S, n)
    BY <1>2, LeastFrom, Zenon
  <2>2. ASSUME NEW m \in S, n < m PROVE FALSE
    <3>1. m \in Nat /\ n \in Nat
      OBVIOUS
    <3>2. n \notin From(S, m) /\ n \in From(S, n)
      BY <2>2, <3>1 DEF From
    <3>3. ASSUME NEW k \in From(S, m) PROVE k \in From(S, n)
      <4>1. k \in S /\ k \in Nat /\ m <= k
        BY DEF From
      <4>2. n <= k
        BY <2>2, <3>1, <4>1
      <4> QED BY <4>1, <4>2 DEF From
    <3> QED BY <2>1, <3>2, <3>3
  <2>3. \A y \in S : n >= y
    BY <2>2
  <2>4. Max(S) \in S /\ \A y \in S : Max(S) >= y
    BY <2>3 DEF Max
  <2> QED BY <1>2, <2>4 DEF Greatest
<1> QED BY <1>1, <1>2

LEMMA GreatestMonotonic ==
  ASSUME NEW S \in SUBSET Nat, IsFiniteSet(S), NEW T \in SUBSET Nat, IsFiniteSet(T),
         \A n \in S : \E m \in T : n <= m
  PROVE  Greatest(S) <= Greatest(T)
<1>1. CASE S = {}
  BY <1>1, GreatestOf DEF Greatest
<1>2. CASE S # {}
  <2>1. Greatest(S) \in S
    BY <1>2, GreatestOf
  <2>2. PICK m \in T : Greatest(S) <= m
    BY <2>1
  <2> QED BY <2>1, <2>2, GreatestOf
<1> QED BY <1>1, <1>2

\* Pairs of an identity and a strength.
Strengths(S) == IsFiniteSet(S) /\ \A x \in S : x[2] \in Nat

AtLeast(S, n) == {z \in S : z[2] >= n}
Kth(S, k) == {x[2] : x \in {y \in S : Cardinality(AtLeast(S, y[2])) >= k}}

LEMMA KthFinite ==
  ASSUME NEW S, Strengths(S), NEW k
  PROVE  Kth(S, k) \in SUBSET Nat /\ IsFiniteSet(Kth(S, k)) /\ NthStrength(S, k) = Greatest(Kth(S, k))
<1> DEFINE T == {y \in S : Cardinality(AtLeast(S, y[2])) >= k}
<1>1. IsFiniteSet(T)
  BY FS_Subset DEF Strengths
<1>2. IsFiniteSet({x[2] : x \in T})
  <2> HIDE DEF T
  <2> QED BY <1>1, FiniteImage
<1>3. NthStrength(S, k) = Greatest(Kth(S, k))
  BY DEF NthStrength, Kth, AtLeast, Quantify
<1> QED BY <1>2, <1>3 DEF Kth, Strengths

\* Each strength of A has one of its own in B, at least as great: key tells which.
Outweighs(B, A, key) ==
  /\ \A a \in A : \E b \in B : key[b] = key[a] /\ a[2] <= b[2]
  /\ \A a, c \in A : key[a] = key[c] => a = c

LEMMA NthMonotonic ==
  ASSUME NEW A, NEW B, Strengths(A), Strengths(B), NEW key, Outweighs(B, A, key), NEW k \in Nat
  PROVE  NthStrength(A, k) <= NthStrength(B, k) /\ NthStrength(A, k) \in Nat
<1> DEFINE h == [a \in A |-> CHOOSE b \in B : key[b] = key[a] /\ a[2] <= b[2]]
<1>1. \A a \in A : h[a] \in B /\ key[h[a]] = key[a] /\ a[2] <= h[a][2]
  BY DEF Outweighs
<1>2. \A a, c \in A : h[a] = h[c] => a = c
  BY <1>1 DEF Outweighs
<1> HIDE DEF h
<1>3. ASSUME NEW a \in A, Cardinality(AtLeast(A, a[2])) >= k
      PROVE  \E b \in B : a[2] <= b[2] /\ Cardinality(AtLeast(B, b[2])) >= k
  <2> DEFINE C == AtLeast(A, a[2])
             H == {h[c] : c \in C}
  <2>1. C \subseteq A /\ a \in C /\ \A c \in C : a[2] <= c[2]
    BY DEF AtLeast, Strengths
  <2> HIDE DEF C
  <2>2. H \subseteq B /\ H # {} /\ \A b \in H : a[2] <= b[2]
    BY <1>1, <2>1 DEF Strengths
  <2>3. {b[2] : b \in H} \in SUBSET Nat /\ {b[2] : b \in H} # {}
    BY <2>2 DEF Strengths
  <2>4. PICK n \in {b[2] : b \in H} : \A m \in {b[2] : b \in H} : n <= m
    BY <2>3, LeastNatural
  <2>5. PICK b \in H : n = b[2]
    OBVIOUS
  <2>6. H \in SUBSET AtLeast(B, b[2])
    BY <2>2, <2>4, <2>5 DEF AtLeast, Strengths
  <2>7. IsFiniteSet(C) /\ IsFiniteSet(AtLeast(B, b[2])) /\ IsFiniteSet(H)
    BY <2>1, <2>2, FS_Subset DEF Strengths, AtLeast
  <2>8. Cardinality(C) <= Cardinality(H)
    <3> DEFINE g == [c \in C |-> h[c]]
    <3>1. g \in Injection(C, H)
      BY <1>2, <2>1 DEF Injection, IsInjective
    <3> HIDE DEF g, H
    <3> QED BY <2>7, <3>1, FS_Injection
  <2>9. Cardinality(H) <= Cardinality(AtLeast(B, b[2]))
    <3> HIDE DEF H
    <3> QED BY <2>6, <2>7, FS_Subset
  <2>10. /\ Cardinality(C) \in Nat /\ Cardinality(H) \in Nat
         /\ Cardinality(AtLeast(B, b[2])) \in Nat /\ Cardinality(C) >= k
    BY <1>3, <2>7, FS_CardinalityType DEF C
  <2>11. Cardinality(AtLeast(B, b[2])) >= k
    <3> HIDE DEF H
    <3> QED BY <2>8, <2>9, <2>10
  <2> QED BY <2>2, <2>5, <2>11
<1>4. \A n \in Kth(A, k) : \E m \in Kth(B, k) : n <= m
  BY <1>3 DEF Kth
<1> QED BY <1>4, KthFinite, GreatestMonotonic, GreatestOf

LEMMA TimesMonotonic ==
  \A k, a, b \in Nat : a <= b => k * a <= k * b /\ a * k <= b * k /\ k * a \in Nat
OBVIOUS

LEMMA PeakMonotonic ==
  ASSUME NEW A, NEW B, Strengths(A), Strengths(B), NEW key, Outweighs(B, A, key),
         NEW weights \in Seq(Nat)
  PROVE  weightedPeak(A, weights) <= weightedPeak(B, weights) /\ weightedPeak(A, weights) \in Nat
<1> DEFINE K == DOMAIN weights
           f == [k \in K |-> weights[k] * NthStrength(A, k)]
           g == [k \in K |-> weights[k] * NthStrength(B, k)]
<1>1. IsFiniteSet(K) /\ K \subseteq Nat
  BY FS_Interval
<1>2. ASSUME NEW k \in K
      PROVE  f[k] \in Nat /\ g[k] \in Nat /\ f[k] <= g[k]
  <2>1. weights[k] \in Nat /\ k \in Nat
    BY <1>1
  <2>2. NthStrength(A, k) \in Nat /\ NthStrength(B, k) \in Nat
        /\ NthStrength(A, k) <= NthStrength(B, k)
    BY <2>1, NthMonotonic, KthFinite, GreatestOf
  <2>3. f[k] = weights[k] * NthStrength(A, k) /\ g[k] = weights[k] * NthStrength(B, k)
    OBVIOUS
  <2> HIDE DEF f, g
  <2> QED BY <2>1, <2>2, <2>3, TimesMonotonic
<1>3. /\ weightedPeak(A, weights) = SumFunctionOnSet(f, K)
      /\ weightedPeak(B, weights) = SumFunctionOnSet(g, K)
  BY DEF weightedPeak, SumFunction
<1> HIDE DEF f, g, K
<1>4. IsFiniteSet(K) /\ \A k \in K : f[k] \in Nat
  BY <1>1, <1>2
<1>5. \A k \in K : f[k] \in Int /\ g[k] \in Int /\ f[k] <= g[k]
  BY <1>2
<1>6. SumFunctionOnSet(f, K) <= SumFunctionOnSet(g, K)
  BY <1>4, <1>5, SumMonotonic
<1>7. SumFunctionOnSet(f, K) \in Nat
  BY <1>4, SumType
<1> QED BY <1>3, <1>6, <1>7

\* What breadth keeps of a share: more paths of no more product.
LEMMA BreadthMonotonic ==
  ASSUME NEW n0 \in Nat, NEW n \in Nat, n <= n0, NEW a0 \in Nat, NEW a \in Nat, a0 <= a
  PROVE  /\ Min({100 * n0, 200 * a0}) \in Nat /\ Min({100 * n, 200 * a}) \in Nat
         /\ Min({100 * n0, 200 * a0}) * n <= Min({100 * n, 200 * a}) * n0
<1> DEFINE b0 == Min({100 * n0, 200 * a0})
           b == Min({100 * n, 200 * a})
<1>1. \A x, y \in Nat : Min({x, y}) \in {x, y} /\ Min({x, y}) <= x /\ Min({x, y}) <= y
  <2> SUFFICES ASSUME NEW x \in Nat, NEW y \in Nat
               PROVE  Min({x, y}) \in {x, y} /\ Min({x, y}) <= x /\ Min({x, y}) <= y
    OBVIOUS
  <2>1. \E z \in {x, y} : \A w \in {x, y} : z <= w
    <3>1. CASE x <= y
      BY <3>1
    <3>2. CASE y <= x
      BY <3>2
    <3> QED BY <3>1, <3>2
  <2> QED BY <2>1 DEF Min
<1>2. /\ b0 \in Nat /\ b0 <= 100 * n0 /\ b0 <= 200 * a0
      /\ b \in Nat /\ b \in {100 * n, 200 * a}
  BY <1>1
<1> HIDE DEF b0, b
<1>3. CASE b = 100 * n
  <2>1. b0 * n <= (100 * n0) * n
    BY <1>2
  <2> QED BY <1>2, <1>3, <2>1 DEF b0, b
<1>4. CASE b = 200 * a
  <2>1. b0 * n <= b0 * n0
    BY <1>2
  <2>2. b0 <= b
    BY <1>2, <1>4
  <2>3. b0 * n0 <= b * n0
    BY <1>2, <2>2
  <2>4. b0 * n \in Nat /\ b0 * n0 \in Nat /\ b * n0 \in Nat
    BY <1>2
  <2>5. b0 * n <= b * n0
    BY <2>1, <2>3, <2>4
  <2> QED BY <1>2, <2>5 DEF b0, b
<1> QED BY <1>2, <1>3, <1>4

AxisScore(peak, breadth, diversity, n, m) ==
  Rounded(65 * peak * n * m + 250 * breadth * m + 10000 * diversity * n, 1000 * n * m)

LEMMA AxisMonotonic ==
  ASSUME NEW p0 \in Nat, NEW p \in Nat, p0 <= p,
         NEW n0 \in Nat \ {0}, NEW n \in Nat \ {0},
         NEW b0 \in Nat, NEW b \in Nat, b0 * n <= b * n0,
         NEW d0 \in Nat, NEW d \in Nat, d0 <= d, NEW m \in Nat \ {0}
  PROVE  AxisScore(p0, b0, d0, n0, m) <= AxisScore(p, b, d, n, m)
         /\ AxisScore(p0, b0, d0, n0, m) \in Nat
<1> DEFINE x == 65 * p0 * n0 * m + 250 * b0 * m + 10000 * d0 * n0
           y == 1000 * n0 * m
           u == 65 * p * n * m + 250 * b * m + 10000 * d * n
           v == 1000 * n * m
<1>1. x \in Nat /\ y \in Nat \ {0} /\ u \in Nat /\ v \in Nat \ {0}
  <2>1. n0 * m \in Nat \ {0} /\ n * m \in Nat \ {0}
    OBVIOUS
  <2>2. p0 * n0 * m \in Nat /\ b0 * m \in Nat /\ d0 * n0 \in Nat
        /\ p * n * m \in Nat /\ b * m \in Nat /\ d * n \in Nat
    OBVIOUS
  <2> QED BY <2>1, <2>2
<1>2. x * n <= u * n0
  <2> DEFINE w == (n0 * n) * m
             t == n0 * n
  <2>1. w \in Nat /\ t \in Nat
    OBVIOUS
  <2>2. x * n = 65 * (p0 * w) + 250 * ((b0 * n) * m) + 10000 * (d0 * t)
    OBVIOUS
  <2>3. u * n0 = 65 * (p * w) + 250 * ((b * n0) * m) + 10000 * (d * t)
    OBVIOUS
  <2> DEFINE s0 == b0 * n
             s == b * n0
  <2>4. s0 \in Nat /\ s \in Nat /\ s0 <= s
    OBVIOUS
  <2> HIDE DEF w, t, x, u, s0, s
  <2>5. p0 * w <= p * w /\ d0 * t <= d * t /\ s0 * m <= s * m
    BY <2>1, <2>4, TimesMonotonic
  <2>6. /\ p0 * w \in Nat /\ p * w \in Nat /\ d0 * t \in Nat /\ d * t \in Nat
        /\ s0 * m \in Nat /\ s * m \in Nat
    BY <2>1, <2>4
  <2> DEFINE i0 == p0 * w
             i == p * w
             j0 == d0 * t
             j == d * t
             k0 == s0 * m
             k == s * m
  <2>7. x * n = 65 * i0 + 250 * k0 + 10000 * j0 /\ u * n0 = 65 * i + 250 * k + 10000 * j
    BY <2>2, <2>3 DEF s0, s
  <2>8. i0 <= i /\ j0 <= j /\ k0 <= k /\ {i0, i, j0, j, k0, k} \subseteq Nat
    BY <2>5, <2>6
  <2> HIDE DEF i0, i, j0, j, k0, k
  <2> QED BY <2>7, <2>8
<1>3. x * v = (x * n) * (1000 * m) /\ u * y = (u * n0) * (1000 * m)
  <2> HIDE DEF x, u
  <2> QED BY <1>1
<1>4. x * v <= u * y
  <2> DEFINE r == 1000 * m
             q0 == x * n
             q == u * n0
  <2>1. r \in Nat /\ q0 \in Nat /\ q \in Nat /\ q0 <= q
    <3> HIDE DEF x, u
    <3> QED BY <1>1, <1>2
  <2>2. x * v = q0 * r /\ u * y = q * r
    BY <1>3
  <2> HIDE DEF r, q0, q, x, u, v, y
  <2> QED BY <2>1, <2>2, TimesMonotonic
<1>5. AxisScore(p0, b0, d0, n0, m) = Rounded(x, y) /\ AxisScore(p, b, d, n, m) = Rounded(u, v)
  BY DEF AxisScore
<1> HIDE DEF x, y, u, v
<1> QED BY <1>1, <1>4, <1>5, RoundedMonotonic

LEMMA RepositoryMonotonic ==
  ASSUME NEW sum0 \in Nat, NEW sum \in Nat, sum0 <= sum,
         NEW worst0 \in Nat, NEW worst \in Nat, worst0 <= worst, NEW k \in Nat \ {0}
  PROVE  LET total0 == Rounded(10 * sum0 + 3 * Greatest({0, k * worst0 - sum0}), 10 * k)
             total == Rounded(10 * sum + 3 * Greatest({0, k * worst - sum}), 10 * k)
         IN total0 \in Nat /\ total \in Nat /\ total0 <= total
<1> DEFINE e0 == k * worst0
           e == k * worst
<1>1. e0 \in Nat /\ e \in Nat /\ e0 <= e
  BY TimesMonotonic
<1> HIDE DEF e0, e
<1>2. \A z \in Int : Greatest({0, z}) = IF z <= 0 THEN 0 ELSE z
  <2> SUFFICES ASSUME NEW z \in Int PROVE Greatest({0, z}) = IF z <= 0 THEN 0 ELSE z
    OBVIOUS
  <2>1. CASE z <= 0
    <3>1. \E x \in {0, z} : \A y \in {0, z} : x >= y
      BY <2>1
    <3>2. Max({0, z}) \in {0, z} /\ Max({0, z}) >= 0 /\ Max({0, z}) >= z
      BY <3>1 DEF Max
    <3> QED BY <2>1, <3>2 DEF Greatest
  <2>2. CASE z > 0
    <3>1. \E x \in {0, z} : \A y \in {0, z} : x >= y
      BY <2>2
    <3>2. Max({0, z}) \in {0, z} /\ Max({0, z}) >= 0 /\ Max({0, z}) >= z
      BY <3>1 DEF Max
    <3> QED BY <2>2, <3>2 DEF Greatest
  <2> QED BY <2>1, <2>2
<1> DEFINE g0 == Greatest({0, e0 - sum0})
           g == Greatest({0, e - sum})
           x == 10 * sum0 + 3 * g0
           u == 10 * sum + 3 * g
<1>3. /\ g0 = IF e0 - sum0 <= 0 THEN 0 ELSE e0 - sum0
      /\ g = IF e - sum <= 0 THEN 0 ELSE e - sum
  BY <1>1, <1>2
<1> HIDE DEF g0, g
<1>4. x \in Nat /\ u \in Nat /\ x <= u
  BY <1>1, <1>3
<1> HIDE DEF x, u
<1>5. x * (10 * k) <= u * (10 * k) /\ u * (10 * k) <= u * (10 * k)
  BY <1>4, TimesMonotonic
<1>6. 10 * k \in Nat \ {0}
  OBVIOUS
<1>7. /\ Rounded(x, 10 * k) \in Nat /\ Rounded(u, 10 * k) \in Nat
      /\ Rounded(x, 10 * k) <= Rounded(u, 10 * k)
  BY <1>4, <1>5, <1>6, RoundedMonotonic
<1> QED BY <1>7 DEF x, u, g0, g, e0, e

-----------------------------------------------------------------------------
(* Evidence that was kept.                                                 *)

\* What an item can be called.
Name == (DOMAIN SignalAxis) \X File \X (SUBSET (File \cup DOMAIN Candidates))
Identity == {id \in Name : id[1] = "cycle" => id[3] \subseteq File}

\* Items as the extraction makes them: the identity tells the signal and the path,
\* and these two the strength and the role.
Shaped(items) ==
  /\ \A e \in items : /\ e.id \in Identity /\ e.signal = e.id[1] /\ e.path = e.id[2]
                      /\ e.strength \in Nat /\ e.related \subseteq File
  /\ \A e, x \in items : e.signal = x.signal /\ e.path = x.path =>
                           e.strength = x.strength /\ e.role = x.role

\* Every old item is still there, at least as strong and as much related.
Kept(old, items) ==
  \A e \in old : \E x \in items :
    /\ x.id = e.id /\ x.strength >= e.strength
    /\ e.related \subseteq x.related /\ x.role = e.role

Pairs(items) == {<<e.id, e.strength>> : e \in items}

LEMMA SignalsFinite == IsFiniteSet(DOMAIN SignalAxis)
<1> DEFINE S == {"cycle", "large", "barrel", "deep", "unresolved"}
           T == {"fanOut", "fanIn", "untested", "churn"}
<1>1. DOMAIN SignalAxis = S \cup T
  BY DEF SignalAxis
<1>2. \A a, b, c, d, e : IsFiniteSet({a, b, c, d, e})
  <2> SUFFICES ASSUME NEW a, NEW b, NEW c, NEW d, NEW e PROVE IsFiniteSet({a, b, c, d, e})
    OBVIOUS
  <2>1. IsFiniteSet({}) /\ IsFiniteSet({a})
    BY FS_EmptySet, FS_Singleton
  <2>2. IsFiniteSet({a} \cup {b})
    BY <2>1, FS_AddElement
  <2>3. IsFiniteSet({a} \cup {b} \cup {c})
    BY <2>2, FS_AddElement
  <2>4. IsFiniteSet({a} \cup {b} \cup {c} \cup {d})
    BY <2>3, FS_AddElement
  <2>5. IsFiniteSet({a} \cup {b} \cup {c} \cup {d} \cup {e})
    BY <2>4, FS_AddElement
  <2>6. {a} \cup {b} \cup {c} \cup {d} \cup {e} = {a, b, c, d, e}
    OBVIOUS
  <2> QED BY <2>5, <2>6
<1>3. IsFiniteSet(T)
  <2>1. T = {"fanOut", "fanIn", "untested", "churn", "churn"}
    OBVIOUS
  <2>2. IsFiniteSet({"fanOut", "fanIn", "untested", "churn", "churn"})
    BY <1>2, Zenon
  <2> QED BY <2>1, <2>2
<1>4. IsFiniteSet(S)
  BY <1>2, Zenon
<1> HIDE DEF S, T
<1> QED BY <1>1, <1>3, <1>4, FS_Union

LEMMA IdentitiesFinite == IsFiniteSet(Identity)
<1> DEFINE A == DOMAIN SignalAxis
           K == SUBSET (File \cup DOMAIN Candidates)
           T == (A \X File) \X K
           f == [t \in T |-> <<t[1][1], t[1][2], t[2]>>]
           I == A \X File \X K
<1>1. IsFiniteSet(A) /\ IsFiniteSet(File) /\ IsFiniteSet(K)
  BY SignalsFinite, FileAssumption, CandidatesAssumption, FS_Union, FS_SUBSET
<1>2. IsFiniteSet(A \X File)
  BY <1>1, FS_Product
<1>3. IsFiniteSet(T)
  <2> HIDE DEF A, K
  <2> QED BY <1>1, <1>2, FS_Product
<1>4. f \in Surjection(T, I)
  <2> HIDE DEF A, K
  <2>1. \A t \in T : f[t] \in I
    OBVIOUS
  <2>2. ASSUME NEW i \in I PROVE \E t \in T : f[t] = i
    <3>1. <<<<i[1], i[2]>>, i[3]>> \in T
      OBVIOUS
    <3>2. f[<<<<i[1], i[2]>>, i[3]>>] = <<i[1], i[2], i[3]>>
      BY <3>1
    <3> QED BY <3>1, <3>2
  <2> HIDE DEF T, I
  <2>3. f \in [T -> I]
    BY <2>1
  <2> HIDE DEF f
  <2> QED BY <2>2, <2>3 DEF Surjection
<1>5. IsFiniteSet(I)
  <2> HIDE DEF T, f, I
  <2> QED BY <1>3, <1>4, FS_Surjection
<1>6. I = Name
  BY DEF Name
<1> HIDE DEF I
<1>7. Identity \in SUBSET Name
  BY DEF Identity
<1> QED BY <1>5, <1>6, <1>7, FS_Subset

LEMMA ShapedPart ==
  ASSUME NEW items, Shaped(items), NEW part \in SUBSET items
  PROVE  Shaped(part)
BY DEF Shaped

LEMMA PairsFinite ==
  ASSUME NEW items, Shaped(items)
  PROVE  Strengths(Pairs(items)) /\ \A a, c \in Pairs(items) : a[1] = c[1] => a = c
<1> DEFINE ids == {e.id : e \in items}
           item(id) == CHOOSE e \in items : e.id = id
           f == [id \in ids |-> <<id, item(id).strength>>]
<1>1. IsFiniteSet(ids)
  <2>1. ids \in SUBSET Identity
    BY DEF Shaped
  <2> HIDE DEF ids
  <2> QED BY <2>1, IdentitiesFinite, FS_Subset
<1>2. \A e \in items : e.id \in ids /\ item(e.id) \in items /\ item(e.id).id = e.id
  OBVIOUS
<1>3. \A e \in items : item(e.id).strength = e.strength
  <2> HIDE DEF ids, item
  <2> QED BY <1>2 DEF Shaped
<1>4. \A id \in ids : \E e \in items : id = e.id
  OBVIOUS
<1> HIDE DEF ids, item
<1>5. \A e \in items : f[e.id] = <<e.id, e.strength>>
  BY <1>2, <1>3
<1>6. f \in Surjection(ids, Pairs(items))
  <2>1. f \in [ids -> Pairs(items)]
    <3>1. \A id \in ids : f[id] \in Pairs(items)
      <4> HIDE DEF f
      <4> QED BY <1>4, <1>5 DEF Pairs
    <3> QED BY <3>1
  <2>2. \A p \in Pairs(items) : \E id \in ids : f[id] = p
    BY <1>2, <1>5 DEF Pairs
  <2> HIDE DEF f
  <2> QED BY <2>1, <2>2 DEF Surjection
<1> HIDE DEF f
<1>7. IsFiniteSet(Pairs(items))
  BY <1>1, <1>6, FS_Surjection
<1>8. \A p \in Pairs(items) : \E e \in items : p = <<e.id, e.strength>>
  BY DEF Pairs
<1> QED BY <1>7, <1>8 DEF Strengths, Shaped

\* The strongest item of a signal and a path stands for the others.
LEMMA Deduped ==
  ASSUME NEW items, Shaped(items)
  PROVE  /\ dedupeEvidence(items) \subseteq items
         /\ \A e \in items : \E x \in dedupeEvidence(items) : x.signal = e.signal /\ x.path = e.path
         /\ \A e, x \in dedupeEvidence(items) : e.signal = x.signal /\ e.path = x.path => e = x
<1> DEFINE groups == {<<x.signal, x.path>> : x \in items}
           of(g) == {x \in items : x.signal = g[1] /\ x.path = g[2]}
           first(g) == CHOOSE e \in of(g) : \A x \in items :
                         x.signal = g[1] /\ x.path = g[2] => x.strength <= e.strength
<1>1. dedupeEvidence(items) = {first(g) : g \in groups}
  BY DEF dedupeEvidence
<1>2. ASSUME NEW g \in groups
      PROVE  first(g) \in of(g)
  <2>1. PICK e \in items : g = <<e.signal, e.path>>
    OBVIOUS
  <2>2. e \in of(g) /\ \A x \in items : x.signal = g[1] /\ x.path = g[2] => x.strength <= e.strength
    BY <2>1 DEF Shaped
  <2> QED BY <2>2
<1> HIDE DEF first
<1>3. \A g \in groups : first(g) \in items /\ first(g).signal = g[1] /\ first(g).path = g[2]
                        /\ g = <<g[1], g[2]>>
  BY <1>2
<1>4. \A e \in items : <<e.signal, e.path>> \in groups
  OBVIOUS
<1> HIDE DEF groups
<1>5. ASSUME NEW e \in dedupeEvidence(items), NEW x \in dedupeEvidence(items),
             e.signal = x.signal, e.path = x.path
      PROVE  e = x
  <2>1. PICK g \in groups, h \in groups : e = first(g) /\ x = first(h)
    BY <1>1
  <2>2. g = h
    BY <1>3, <1>5, <2>1
  <2> QED BY <2>1, <2>2
<1>6. dedupeEvidence(items) \subseteq items
  BY <1>1, <1>3
<1>7. ASSUME NEW e \in items
      PROVE  \E x \in dedupeEvidence(items) : x.signal = e.signal /\ x.path = e.path
  <2> DEFINE g == <<e.signal, e.path>>
  <2>1. g \in groups /\ g[1] = e.signal /\ g[2] = e.path
    BY <1>4
  <2> HIDE DEF g
  <2> QED BY <1>1, <1>3, <2>1
<1> QED BY <1>5, <1>6, <1>7

-----------------------------------------------------------------------------
(* What an axis counts.                                                    *)

Counted(items) == productEvidence(dedupeEvidence(items))

LEMMA CountedItems ==
  ASSUME NEW items, Shaped(items)
  PROVE  /\ Counted(items) \in SUBSET items /\ Shaped(Counted(items))
         /\ \A e, x \in Counted(items) : e.signal = x.signal /\ e.path = x.path => e = x
         /\ \A e \in items : e.role = "product" =>
              \E x \in Counted(items) :
                x.signal = e.signal /\ x.path = e.path /\ x.strength = e.strength
<1>1. /\ dedupeEvidence(items) \subseteq items
      /\ \A e \in items : \E x \in dedupeEvidence(items) : x.signal = e.signal /\ x.path = e.path
      /\ \A e, x \in dedupeEvidence(items) : e.signal = x.signal /\ e.path = x.path => e = x
  BY Deduped
<1>2. \A e : e \in Counted(items) <=> e \in dedupeEvidence(items) /\ e.role = "product"
  BY DEF Counted, productEvidence
<1>3. Counted(items) \in SUBSET items
  BY <1>1, <1>2
<1>4. ASSUME NEW e \in items, e.role = "product"
      PROVE  \E x \in Counted(items) :
               x.signal = e.signal /\ x.path = e.path /\ x.strength = e.strength
  <2>1. PICK x \in dedupeEvidence(items) : x.signal = e.signal /\ x.path = e.path
    BY <1>1
  <2>2. x.strength = e.strength /\ x.role = e.role
    BY <1>1, <2>1 DEF Shaped
  <2> QED BY <1>2, <1>4, <2>1, <2>2
<1> QED BY <1>1, <1>2, <1>3, <1>4, ShapedPart

\* A kept item counts again.
LEMMA CountedKept ==
  ASSUME NEW old, NEW items, Shaped(old), Shaped(items), Kept(old, items), NEW e \in Counted(old)
  PROVE  \E x \in Counted(items) :
           x.signal = e.signal /\ x.path = e.path /\ x.strength >= e.strength
<1>1. e \in old /\ e.role = "product"
  BY CountedItems DEF Counted, productEvidence
<1>2. PICK x \in items : x.id = e.id /\ x.strength >= e.strength /\ x.role = e.role
  BY <1>1 DEF Kept
<1>3. x.signal = e.signal /\ x.path = e.path
  BY <1>1, <1>2 DEF Shaped
<1>4. PICK y \in Counted(items) : y.signal = x.signal /\ y.path = x.path /\ y.strength = x.strength
  BY <1>1, <1>2, CountedItems
<1> QED BY <1>2, <1>3, <1>4

\* Findings that may count.
Rated(findings) ==
  /\ IsFiniteSet(findings)
  /\ \A f \in findings : f.path \in File /\ semanticRiskStrength[f.scope] \in Nat

FindingPair(f) == <<<<"finding", f.fid, {}>>, semanticRiskStrength[f.scope]>>
FindingPairs(findings) == {FindingPair(f) : f \in findings}
Bearers(items, findings) == Pairs(Counted(items)) \cup FindingPairs(findings)

LEMMA FindingPairsFinite ==
  ASSUME NEW findings, Rated(findings)
  PROVE  Strengths(FindingPairs(findings))
<1> DEFINE f == [x \in findings |-> FindingPair(x)]
<1>1. f \in Surjection(findings, FindingPairs(findings))
  BY DEF Surjection, FindingPairs
<1> HIDE DEF f
<1>2. IsFiniteSet(FindingPairs(findings))
  BY <1>1, FS_Surjection DEF Rated
<1>3. \A p \in FindingPairs(findings) : p[2] \in Nat
  BY DEF FindingPairs, FindingPair, Rated
<1> QED BY <1>2, <1>3 DEF Strengths

LEMMA BearersFinite ==
  ASSUME NEW items, Shaped(items), NEW findings, Rated(findings)
  PROVE  Strengths(Bearers(items, findings))
<1>1. Strengths(Pairs(Counted(items))) /\ Strengths(FindingPairs(findings))
  BY CountedItems, PairsFinite, FindingPairsFinite
<1> QED BY <1>1, FS_Union DEF Strengths, Bearers

\* What tells the bearers of an axis apart.
KeyOf(p) == IF p[1][1] = "finding" THEN <<"finding", p[1][2], p[2]>> ELSE <<p[1][1], p[1][2], 0>>

LEMMA ItemKey ==
  ASSUME NEW items, Shaped(items), NEW e \in items
  PROVE  KeyOf(<<e.id, e.strength>>) = <<e.signal, e.path, 0>> /\ e.signal # "finding"
<1>1. e.id \in Name /\ e.signal = e.id[1] /\ e.path = e.id[2]
  BY DEF Shaped, Identity
<1>2. e.id[1] \in DOMAIN SignalAxis
  BY <1>1 DEF Name
<1>3. "finding" \notin DOMAIN SignalAxis
  BY DEF SignalAxis
<1> QED BY <1>1, <1>2, <1>3 DEF KeyOf

LEMMA FindingKey ==
  ASSUME NEW f
  PROVE  KeyOf(FindingPair(f)) = <<"finding", f.fid, semanticRiskStrength[f.scope]>>
BY DEF KeyOf, FindingPair

LEMMA BearersOutweigh ==
  ASSUME NEW old, NEW items, Shaped(old), Shaped(items), Kept(old, items),
         NEW findings, Rated(findings)
  PROVE  \E key : Outweighs(Bearers(items, findings), Bearers(old, findings), key)
<1> DEFINE A == Bearers(old, findings)
           B == Bearers(items, findings)
           key == [p \in A \cup B |-> KeyOf(p)]
<1>1. \A p \in A \cup B : key[p] = KeyOf(p)
  OBVIOUS
<1>2. \A p : p \in A <=> \/ \E e \in Counted(old) : p = <<e.id, e.strength>>
                         \/ \E f \in findings : p = FindingPair(f)
  BY DEF Bearers, Pairs, FindingPairs
<1>3. \A p : p \in B <=> \/ \E e \in Counted(items) : p = <<e.id, e.strength>>
                         \/ \E f \in findings : p = FindingPair(f)
  BY DEF Bearers, Pairs, FindingPairs
<1>4. Counted(old) \in SUBSET old /\ Counted(items) \in SUBSET items
  BY CountedItems
<1>5. \A e \in Counted(old) : /\ KeyOf(<<e.id, e.strength>>) = <<e.signal, e.path, 0>>
                              /\ e.signal # "finding"
  BY <1>4, ItemKey
<1>6. \A e \in Counted(items) : /\ KeyOf(<<e.id, e.strength>>) = <<e.signal, e.path, 0>>
                                /\ e.signal # "finding"
  BY <1>4, ItemKey
<1> HIDE DEF A, B, key
<1>7. ASSUME NEW p \in A PROVE \E q \in B : key[q] = key[p] /\ p[2] <= q[2]
  <2>1. CASE \E e \in Counted(old) : p = <<e.id, e.strength>>
    <3>1. PICK e \in Counted(old) : p = <<e.id, e.strength>>
      BY <2>1
    <3>2. PICK x \in Counted(items) :
            x.signal = e.signal /\ x.path = e.path /\ x.strength >= e.strength
      BY CountedKept
    <3>3. <<x.id, x.strength>> \in B
      BY <1>3
    <3>4. KeyOf(<<x.id, x.strength>>) = KeyOf(p)
      BY <1>5, <1>6, <3>1, <3>2
    <3>5. e.strength \in Nat /\ x.strength \in Nat
      BY <1>4 DEF Shaped
    <3>6. p[2] <= <<x.id, x.strength>>[2]
      BY <3>1, <3>2, <3>5
    <3> QED BY <1>1, <3>3, <3>4, <3>6
  <2>2. CASE \E f \in findings : p = FindingPair(f)
    <3>1. p \in B
      BY <1>3, <2>2
    <3>2. p[2] \in Nat
      BY BearersFinite DEF A, Strengths
    <3> QED BY <3>1, <3>2
  <2> QED BY <1>2, <2>1, <2>2
<1>8. ASSUME NEW p \in A, NEW q \in A, key[p] = key[q] PROVE p = q
  <2>1. KeyOf(p) = KeyOf(q)
    BY <1>1, <1>8
  <2>2. CASE (\E e \in Counted(old) : p = <<e.id, e.strength>>)
             /\ \E e \in Counted(old) : q = <<e.id, e.strength>>
    <3>1. PICK e \in Counted(old), x \in Counted(old) :
            p = <<e.id, e.strength>> /\ q = <<x.id, x.strength>>
      BY <2>2
    <3>2. <<e.signal, e.path, 0>> = <<x.signal, x.path, 0>>
      BY <1>5, <2>1, <3>1
    <3>3. e.signal = x.signal /\ e.path = x.path
      BY <3>2
    <3>4. e = x
      BY <3>3, CountedItems
    <3> QED BY <3>1, <3>4
  <2>3. CASE (\E f \in findings : p = FindingPair(f)) /\ \E f \in findings : q = FindingPair(f)
    <3>1. PICK f \in findings, g \in findings : p = FindingPair(f) /\ q = FindingPair(g)
      BY <2>3
    <3>2. <<"finding", f.fid, semanticRiskStrength[f.scope]>>
            = <<"finding", g.fid, semanticRiskStrength[g.scope]>>
      BY <2>1, <3>1, FindingKey
    <3>3. f.fid = g.fid /\ semanticRiskStrength[f.scope] = semanticRiskStrength[g.scope]
      BY <3>2
    <3> QED BY <3>1, <3>3 DEF FindingPair
  <2>4. ASSUME NEW e \in Counted(old), NEW f \in findings
        PROVE  KeyOf(<<e.id, e.strength>>) # KeyOf(FindingPair(f))
    <3>1. KeyOf(<<e.id, e.strength>>)[1] = e.signal /\ KeyOf(FindingPair(f))[1] = "finding"
      BY <1>5, FindingKey
    <3> QED BY <1>5, <3>1
  <2> QED BY <1>2, <2>1, <2>2, <2>3, <2>4
<1> QED BY <1>7, <1>8 DEF Outweighs, A, B

Touched(items, findings) == {e.path : e \in Counted(items)} \cup {f.path : f \in findings}
Observed(items, findings) ==
  {Mechanism(e.signal) : e \in Counted(items)} \cup (IF findings = {} THEN {} ELSE {"semantic"})

Peak(items, findings) == weightedPeak(Bearers(items, findings), AxisPeakWeights)
Breadth(items, findings, n) == Min({100 * n, 200 * Cardinality(Touched(items, findings))})
Diversity(items, findings, evaluable) == Cardinality(Observed(items, findings) \cap evaluable)

LEMMA AxisScoreOf ==
  ASSUME NEW axis, NEW items, NEW findings, NEW n \in Nat \ {0}, NEW evaluable
  PROVE  scoreAxis(axis, items, findings, n, evaluable) =
           AxisScore(Peak(items, findings), Breadth(items, findings, n),
                     Diversity(items, findings, evaluable), n,
                     IF evaluable = {} THEN 1 ELSE Cardinality(evaluable))
<1> DEFINE k == IF n = 0 THEN 1 ELSE n
           m == IF evaluable = {} THEN 1 ELSE Cardinality(evaluable)
           breadth == IF n = 0 THEN 0
                      ELSE Min({100 * k, 200 * Cardinality(Touched(items, findings))})
<1>1. scoreAxis(axis, items, findings, n, evaluable) =
        AxisScore(Peak(items, findings), breadth, Diversity(items, findings, evaluable), k, m)
  BY Zenon DEF scoreAxis, computeBreadth, AxisScore, Peak, Breadth, Diversity, Bearers, Touched,
               Observed, Counted, Pairs, FindingPairs, FindingPair
<1>2. k = n
  OBVIOUS
<1>3. breadth = Breadth(items, findings, n)
  <2>1. n # 0
    OBVIOUS
  <2> HIDE DEF k
  <2> QED BY <1>2, <2>1 DEF Breadth
<1> HIDE DEF k, breadth
<1> QED BY <1>1, <1>2, <1>3

LEMMA TouchedKept ==
  ASSUME NEW old, NEW items, Shaped(old), Shaped(items), Kept(old, items),
         NEW findings, Rated(findings)
  PROVE  /\ Cardinality(Touched(old, findings)) \in Nat
         /\ Cardinality(Touched(items, findings)) \in Nat
         /\ Cardinality(Touched(old, findings)) <= Cardinality(Touched(items, findings))
<1>1. Touched(old, findings) \in SUBSET Touched(items, findings)
  <2>1. \A e \in Counted(old) : \E x \in Counted(items) : x.path = e.path
    BY CountedKept
  <2> QED BY <2>1 DEF Touched
<1>2. Touched(items, findings) \in SUBSET File
  <2>1. \A e \in Counted(items) : e.id \in Name /\ e.path = e.id[2]
    BY CountedItems DEF Shaped, Identity
  <2>2. \A id \in Name : id[2] \in File
    BY DEF Name
  <2> QED BY <2>1, <2>2 DEF Touched, Rated
<1>3. IsFiniteSet(Touched(items, findings))
  BY <1>2, FileAssumption, FS_Subset
<1> QED BY <1>1, <1>3, FS_Subset, FS_CardinalityType

LEMMA ObservedKept ==
  ASSUME NEW old, NEW items, Shaped(old), Shaped(items), Kept(old, items), NEW findings,
         NEW evaluable, IsFiniteSet(evaluable)
  PROVE  /\ Diversity(old, findings, evaluable) \in Nat
         /\ Diversity(items, findings, evaluable) \in Nat
         /\ Diversity(old, findings, evaluable) <= Diversity(items, findings, evaluable)
<1> DEFINE A == Observed(old, findings) \cap evaluable
           B == Observed(items, findings) \cap evaluable
<1>1. Observed(old, findings) \subseteq Observed(items, findings)
  <2>1. \A e \in Counted(old) : \E x \in Counted(items) : x.signal = e.signal
    BY CountedKept
  <2> QED BY <2>1 DEF Observed
<1>2. B \in SUBSET evaluable /\ A \in SUBSET B
  BY <1>1
<1> HIDE DEF A, B
<1>3. IsFiniteSet(B) /\ IsFiniteSet(A)
  BY <1>2, FS_Subset
<1>4. Cardinality(A) <= Cardinality(B) /\ Cardinality(A) \in Nat /\ Cardinality(B) \in Nat
  BY <1>2, <1>3, FS_Subset, FS_CardinalityType
<1> QED BY <1>4 DEF A, B, Diversity

\* An axis does not fall when what it counted is kept, whatever else is found, and
\* the product does not grow.
LEMMA AxisKept ==
  ASSUME NEW old, NEW items, Shaped(old), Shaped(items), Kept(old, items),
         NEW findings, Rated(findings), NEW axis, NEW evaluable, IsFiniteSet(evaluable),
         NEW n0 \in Nat \ {0}, NEW n \in Nat \ {0}, n <= n0
  PROVE  /\ scoreAxis(axis, old, findings, n0, evaluable) \in Nat
         /\ scoreAxis(axis, old, findings, n0, evaluable)
              <= scoreAxis(axis, items, findings, n, evaluable)
<1> DEFINE m == IF evaluable = {} THEN 1 ELSE Cardinality(evaluable)
           p0 == Peak(old, findings)
           p == Peak(items, findings)
           b0 == Breadth(old, findings, n0)
           b == Breadth(items, findings, n)
           d0 == Diversity(old, findings, evaluable)
           d == Diversity(items, findings, evaluable)
<1>1. m \in Nat \ {0}
  <2>1. Cardinality(evaluable) \in Nat /\ (Cardinality(evaluable) = 0 <=> evaluable = {})
    BY FS_CardinalityType, FS_EmptySet
  <2> QED BY <2>1
<1>2. AxisPeakWeights \in Seq(Nat)
  BY DEF AxisPeakWeights
<1>3. p0 \in Nat /\ p \in Nat /\ p0 <= p
  <2> DEFINE A == Bearers(old, findings)
             B == Bearers(items, findings)
  <2>1. Strengths(A) /\ Strengths(B)
    BY BearersFinite
  <2>2. PICK key : Outweighs(B, A, key)
    BY BearersOutweigh
  <2>3. PICK own : Outweighs(B, B, own)
    <3>1. Kept(items, items)
      BY DEF Kept, Shaped
    <3> QED BY <3>1, BearersOutweigh
  <2> HIDE DEF A, B
  <2>4. /\ weightedPeak(A, AxisPeakWeights) <= weightedPeak(B, AxisPeakWeights)
        /\ weightedPeak(A, AxisPeakWeights) \in Nat
    BY <1>2, <2>1, <2>2, PeakMonotonic
  <2>5. weightedPeak(B, AxisPeakWeights) \in Nat
    BY <1>2, <2>1, <2>3, PeakMonotonic
  <2> QED BY <2>4, <2>5 DEF Peak, A, B
<1>4. b0 \in Nat /\ b \in Nat /\ b0 * n <= b * n0
  <2> DEFINE a0 == Cardinality(Touched(old, findings))
             a == Cardinality(Touched(items, findings))
  <2>1. a0 \in Nat /\ a \in Nat /\ a0 <= a
    BY TouchedKept
  <2> HIDE DEF a0, a
  <2>2. /\ Min({100 * n0, 200 * a0}) \in Nat /\ Min({100 * n, 200 * a}) \in Nat
        /\ Min({100 * n0, 200 * a0}) * n <= Min({100 * n, 200 * a}) * n0
    <3>1. n0 \in Nat /\ n \in Nat
      OBVIOUS
    <3> QED BY <2>1, <3>1, BreadthMonotonic
  <2> QED BY <2>2 DEF Breadth, a0, a
<1>5. d0 \in Nat /\ d \in Nat /\ d0 <= d
  BY ObservedKept
<1>6. /\ scoreAxis(axis, old, findings, n0, evaluable) = AxisScore(p0, b0, d0, n0, m)
      /\ scoreAxis(axis, items, findings, n, evaluable) = AxisScore(p, b, d, n, m)
  BY AxisScoreOf
<1> HIDE DEF m, p0, p, b0, b, d0, d
<1>7. AxisScore(p0, b0, d0, n0, m) <= AxisScore(p, b, d, n, m) /\ AxisScore(p0, b0, d0, n0, m) \in Nat
  BY <1>1, <1>3, <1>4, <1>5, AxisMonotonic
<1> QED BY <1>6, <1>7

-----------------------------------------------------------------------------
(* Clusters.                                                               *)

LEMMA RangeFinite ==
  ASSUME NEW g, IsFiniteSet(DOMAIN g)
  PROVE  IsFiniteSet({g[x] : x \in DOMAIN g})
<1> DEFINE S == DOMAIN g
           T == {g[x] : x \in S}
           f == [x \in S |-> g[x]]
<1>1. f \in Surjection(S, T)
  BY DEF Surjection
<1> HIDE DEF f
<1> QED BY <1>1, FS_Surjection

OfSignals(items, signals) == {e \in items : e.signal \in signals}

LEMMA KeptPart ==
  ASSUME NEW old, NEW items, Shaped(old), Shaped(items), Kept(old, items), NEW signals
  PROVE  /\ Kept(OfSignals(old, signals), OfSignals(items, signals))
         /\ Kept(productEvidence(old), productEvidence(items))
         /\ Shaped(OfSignals(items, signals)) /\ Shaped(productEvidence(items))
<1>1. \A e \in old : \E x \in items :
        /\ x.id = e.id /\ x.strength >= e.strength /\ e.related \subseteq x.related
        /\ x.role = e.role /\ x.signal = e.signal
  BY DEF Kept, Shaped
<1>2. OfSignals(items, signals) \in SUBSET items /\ productEvidence(items) \in SUBSET items
  BY DEF OfSignals, productEvidence
<1>3. Shaped(OfSignals(items, signals)) /\ Shaped(productEvidence(items))
  BY <1>2, ShapedPart
<1>4. Kept(OfSignals(old, signals), OfSignals(items, signals))
  BY <1>1 DEF Kept, OfSignals
<1>5. Kept(productEvidence(old), productEvidence(items))
  BY <1>1 DEF Kept, productEvidence
<1> QED BY <1>3, <1>4, <1>5

\* More relations lead to more.
LEMMA ReachGrows ==
  ASSUME NEW pairs, IsFiniteSet(Heads(pairs)), NEW fewer \in SUBSET pairs, NEW f
  PROVE  Reach(fewer, {f}) \subseteq Reach(pairs, {f})
<1>1. Heads(fewer) \in SUBSET Heads(pairs)
  BY DEF Heads
<1>2. IsFiniteSet(Heads(fewer))
  BY <1>1, FS_Subset
<1>3. /\ Reach(fewer, {f}) = {f} \cup Beyond(fewer, f)
      /\ Reach(pairs, {f}) = {f} \cup Beyond(pairs, f)
  BY <1>2, SearchReachesBeyond
<1>4. ASSUME NEW h \in Beyond(fewer, f) PROVE h \in Beyond(pairs, f)
  <2>1. /\ h \in Heads(fewer)
        /\ \A C \in SUBSET Heads(fewer) :
             (\A p \in fewer : p[1] \in C \cup {f} => p[2] \in C) => h \in C
    BY <1>4 DEF Beyond, Heads
  <2>2. ASSUME NEW C \in SUBSET Heads(pairs), \A p \in pairs : p[1] \in C \cup {f} => p[2] \in C
        PROVE  h \in C
    <3> DEFINE D == C \cap Heads(fewer)
    <3>1. D \in SUBSET Heads(fewer)
      OBVIOUS
    <3>2. \A p \in fewer : p[2] \in Heads(fewer)
      BY DEF Heads
    <3>3. \A p \in fewer : p[1] \in D \cup {f} => p[2] \in D
      BY <2>2, <3>2
    <3> HIDE DEF D
    <3>4. h \in D
      BY <2>1, <3>1, <3>3
    <3> QED BY <3>4 DEF D
  <2>3. h \in Heads(pairs)
    BY <1>1, <2>1
  <2> QED BY <2>2, <2>3 DEF Beyond, Heads
<1> QED BY <1>3, <1>4

LEMMA LinksKept ==
  ASSUME NEW old, NEW items, Shaped(old), Shaped(items), Kept(old, items)
  PROVE  Links(old) \in SUBSET Links(items) /\ IsFiniteSet(Heads(Links(items)))
<1> DEFINE paths0 == {e.path : e \in old}
           paths == {e.path : e \in items}
<1>1. \A e \in old : \E x \in items : x.path = e.path /\ e.related \subseteq x.related
  BY DEF Kept, Shaped
<1>2. paths0 \subseteq paths
  BY <1>1
<1>3. ASSUME NEW p \in Related(old) PROVE p \in Related(items)
  <2>1. PICK e \in old : p \in {e.path} \X e.related
    BY DEF Related
  <2>2. PICK x \in items : x.path = e.path /\ e.related \subseteq x.related
    BY <1>1
  <2>3. p \in {x.path} \X x.related
    BY <2>1, <2>2
  <2> QED BY <2>3 DEF Related
<1>4. /\ \A p : p \in Links(old) <=> /\ p \in paths0 \X paths0
                                     /\ p \in Related(old) \/ <<p[2], p[1]>> \in Related(old)
      /\ \A p : p \in Links(items) <=> /\ p \in paths \X paths
                                       /\ p \in Related(items) \/ <<p[2], p[1]>> \in Related(items)
  BY DEF Links
<1>5. paths \in SUBSET File
  <2>1. \A e \in items : e.id \in Name /\ e.path = e.id[2]
    BY DEF Shaped, Identity
  <2>2. \A id \in Name : id[2] \in File
    BY DEF Name
  <2> QED BY <2>1, <2>2
<1> HIDE DEF paths0, paths
<1>6. Links(old) \in SUBSET Links(items)
  <2>1. paths0 \X paths0 \subseteq paths \X paths
    BY <1>2
  <2>2. \A p \in Links(old) : p \in Links(items)
    BY <1>3, <1>4, <2>1
  <2> QED BY <2>2
<1>7. Heads(Links(items)) \in SUBSET File
  <2>1. \A p \in paths \X paths : p[2] \in paths
    OBVIOUS
  <2>2. \A p \in Links(items) : p[2] \in paths
    BY <1>4, <2>1
  <2> QED BY <1>5, <2>2 DEF Heads
<1> QED BY <1>6, <1>7, FileAssumption, FS_Subset

At(items, paths) == {e \in items : e.path \in paths}
ClusterScore(items, paths) ==
  Rounded(weightedPeak(Pairs(At(items, paths)), ClusterPeakWeights), 10)

LEMMA ClusterKept ==
  ASSUME NEW old, NEW items, Shaped(old), Shaped(items), Kept(old, items),
         NEW paths, NEW fewer \in SUBSET paths
  PROVE  ClusterScore(old, fewer) <= ClusterScore(items, paths) /\ ClusterScore(old, fewer) \in Nat
<1> DEFINE E0 == At(old, fewer)
           E == At(items, paths)
           A == Pairs(E0)
           B == Pairs(E)
           key == [p \in A \cup B |-> p[1]]
<1>1. Shaped(E0) /\ Shaped(E)
  <2>1. E0 \in SUBSET old /\ E \in SUBSET items
    BY DEF At
  <2> HIDE DEF E0, E
  <2> QED BY <2>1, ShapedPart
<1>2. \A e \in E0 : \E x \in E : x.id = e.id /\ x.strength >= e.strength
  <2>1. \A e \in old : \E x \in items : x.id = e.id /\ x.strength >= e.strength /\ x.path = e.path
    BY DEF Kept, Shaped
  <2> QED BY <2>1 DEF At
<1> HIDE DEF E0, E
<1>3. Strengths(A) /\ Strengths(B) /\ \A a, c \in A : a[1] = c[1] => a = c
  BY <1>1, PairsFinite
<1>4. \A p \in A \cup B : key[p] = p[1]
  OBVIOUS
<1>5. \A p : (p \in A <=> \E e \in E0 : p = <<e.id, e.strength>>)
             /\ (p \in B <=> \E e \in E : p = <<e.id, e.strength>>)
  BY DEF Pairs
<1> HIDE DEF A, B, key
<1>6. ASSUME NEW p \in A PROVE \E q \in B : key[q] = key[p] /\ p[2] <= q[2]
  <2>1. PICK e \in E0 : p = <<e.id, e.strength>>
    BY <1>5
  <2>2. PICK x \in E : x.id = e.id /\ x.strength >= e.strength
    BY <1>2
  <2>3. e.strength \in Nat /\ x.strength \in Nat
    BY <1>1 DEF Shaped
  <2> DEFINE q == <<x.id, x.strength>>
  <2>4. q \in B /\ q[1] = p[1] /\ p[2] <= q[2]
    BY <1>5, <2>1, <2>2, <2>3
  <2> HIDE DEF q
  <2> QED BY <1>4, <2>4
<1>7. Outweighs(B, A, key)
  BY <1>3, <1>4, <1>6 DEF Outweighs
<1>8. Outweighs(B, B, key)
  <2>1. \A a, c \in B : a[1] = c[1] => a = c
    BY <1>1, PairsFinite DEF B
  <2>2. \A a \in B : a[2] <= a[2]
    BY <1>3 DEF Strengths
  <2> QED BY <1>4, <2>1, <2>2 DEF Outweighs
<1>9. ClusterPeakWeights \in Seq(Nat)
  BY DEF ClusterPeakWeights
<1>10. /\ weightedPeak(A, ClusterPeakWeights) <= weightedPeak(B, ClusterPeakWeights)
       /\ weightedPeak(A, ClusterPeakWeights) \in Nat /\ weightedPeak(B, ClusterPeakWeights) \in Nat
  BY <1>3, <1>7, <1>8, <1>9, PeakMonotonic
<1> DEFINE p0 == weightedPeak(A, ClusterPeakWeights)
           p == weightedPeak(B, ClusterPeakWeights)
<1>11. ClusterScore(old, fewer) = Rounded(p0, 10) /\ ClusterScore(items, paths) = Rounded(p, 10)
  BY DEF ClusterScore, A, B, E0, E
<1> HIDE DEF p0, p
<1>12. p0 \in Nat /\ p \in Nat /\ p0 * 10 <= p * 10
  BY <1>10 DEF p0, p
<1> QED BY <1>11, <1>12, RoundedMonotonic

\* The cluster that an item is in.
OfMechanism(items, m) == {e \in items : Mechanism(e.signal) = m}
Component(items, path) == Reach(Links(items), {path})
ItemScore(items, m, path) ==
  ClusterScore(OfMechanism(items, m), Component(OfMechanism(items, m), path))

LEMMA ItemScoreKept ==
  ASSUME NEW old, NEW items, Shaped(old), Shaped(items), Kept(old, items), NEW m, NEW path
  PROVE  ItemScore(old, m, path) <= ItemScore(items, m, path) /\ ItemScore(old, m, path) \in Nat
<1> DEFINE signals == {g \in DOMAIN SignalAxis : Mechanism(g) = m}
           E0 == OfMechanism(old, m)
           E == OfMechanism(items, m)
<1>1. E0 = OfSignals(old, signals) /\ E = OfSignals(items, signals)
  <2>1. \A e \in old \cup items : e.signal \in DOMAIN SignalAxis
    <3>1. \A e \in old \cup items : e.id \in Name /\ e.signal = e.id[1]
      BY DEF Shaped, Identity
    <3>2. \A id \in Name : id[1] \in DOMAIN SignalAxis
      BY DEF Name
    <3> QED BY <3>1, <3>2
  <2>2. \A e \in old \cup items : Mechanism(e.signal) = m <=> e.signal \in signals
    BY <2>1
  <2> HIDE DEF signals
  <2> QED BY <2>2 DEF OfSignals, OfMechanism
<1> HIDE DEF signals, E0, E
<1>2. Kept(old, old)
  BY DEF Kept, Shaped
<1>3. Shaped(E0) /\ Shaped(E) /\ Kept(E0, E)
  BY <1>1, <1>2, KeptPart
<1>4. Component(E0, path) \in SUBSET Component(E, path)
  <2>1. Links(E0) \in SUBSET Links(E) /\ IsFiniteSet(Heads(Links(E)))
    BY <1>3, LinksKept
  <2> QED BY <2>1, ReachGrows DEF Component
<1>5. /\ ClusterScore(E0, Component(E0, path)) <= ClusterScore(E, Component(E, path))
      /\ ClusterScore(E0, Component(E0, path)) \in Nat
  BY <1>3, <1>4, ClusterKept
<1> QED BY <1>5 DEF ItemScore, E0, E

FindingScores(group) ==
  Rounded(weightedPeak({<<f.fid, semanticRiskStrength[f.scope]>> : f \in group},
                       ClusterPeakWeights), 10)
FindingScore(approved, findings, f) ==
  FindingScores({g \in findings : findingPaths(approved, g) = findingPaths(approved, f)})

ScoresOf(clusters) == {c.score : c \in clusters}

\* What the clusters of a repository score.
LEMMA ClusterScores ==
  ASSUME NEW approved, NEW findings
  PROVE  LET items == productEvidence(approved)
         IN ScoresOf(buildMechanismClusters(approved, findings)) =
              {ItemScore(items, Mechanism(e.signal), e.path) : e \in items}
                \cup {FindingScore(approved, findings, f) : f \in findings}
<1> DEFINE items == productEvidence(approved)
           mechanisms == {Mechanism(e.signal) : e \in items}
           all == UNION {EvidenceClusters(m, OfMechanism(items, m)) : m \in mechanisms}
           semantic == SemanticClusters(approved, findings)
<1>1. buildMechanismClusters(approved, findings) = all \cup semantic
  BY Zenon DEF buildMechanismClusters, OfMechanism
<1> HIDE DEF items
<1>2. \A mechanism, paths, strengths, ids, signals :
        Cluster(mechanism, paths, strengths, ids, signals).score =
          Rounded(weightedPeak(strengths, ClusterPeakWeights), 10)
  BY DEF Cluster
<1>3. ASSUME NEW m, NEW of, of = OfMechanism(items, m)
      PROVE  ScoresOf(EvidenceClusters(m, of)) = {ItemScore(items, m, e.path) : e \in of}
  <2> DEFINE component(paths) == {e \in of : e.path \in paths}
             cluster(paths) == Cluster(m, paths, {<<e.id, e.strength>> : e \in component(paths)},
                                       {e.id : e \in component(paths)},
                                       {e.signal : e \in component(paths)})
  <2>1. EvidenceClusters(m, of) = {cluster(paths) : paths \in {Component(of, e.path) : e \in of}}
    BY Zenon DEF EvidenceClusters, Component
  <2>2. \A paths : cluster(paths).score = ClusterScore(of, paths)
    BY <1>2 DEF ClusterScore, Pairs, At
  <2> HIDE DEF cluster
  <2>3. ScoresOf(EvidenceClusters(m, of)) = {ClusterScore(of, Component(of, e.path)) : e \in of}
    BY <2>1, <2>2 DEF ScoresOf
  <2> QED BY <1>3, <2>3 DEF ItemScore
<1>4. ScoresOf(all) = {ItemScore(items, Mechanism(e.signal), e.path) : e \in items}
  <2>1. ASSUME NEW n \in ScoresOf(all)
        PROVE  \E e \in items : n = ItemScore(items, Mechanism(e.signal), e.path)
    <3>1. PICK m \in mechanisms : n \in ScoresOf(EvidenceClusters(m, OfMechanism(items, m)))
      BY DEF ScoresOf
    <3>2. PICK e \in OfMechanism(items, m) : n = ItemScore(items, m, e.path)
      BY <1>3, <3>1
    <3> QED BY <3>2 DEF OfMechanism
  <2>2. ASSUME NEW e \in items
        PROVE  ItemScore(items, Mechanism(e.signal), e.path) \in ScoresOf(all)
    <3> DEFINE m == Mechanism(e.signal)
    <3>1. m \in mechanisms /\ e \in OfMechanism(items, m)
      BY DEF OfMechanism
    <3> HIDE DEF m, mechanisms
    <3>2. ItemScore(items, m, e.path) \in ScoresOf(EvidenceClusters(m, OfMechanism(items, m)))
      BY <1>3, <3>1
    <3>3. ItemScore(items, m, e.path) \in ScoresOf(all)
      BY <3>1, <3>2 DEF ScoresOf
    <3> QED BY <3>3 DEF m
  <2> HIDE DEF all
  <2> QED BY <2>1, <2>2
<1>5. ScoresOf(semantic) = {FindingScore(approved, findings, f) : f \in findings}
  <2> DEFINE group(paths) == {f \in findings : findingPaths(approved, f) = paths}
             plain(paths) == Cluster("semantic", paths,
                               {<<f.fid, semanticRiskStrength[f.scope]>> : f \in group(paths)},
                               UNION {f.refs : f \in group(paths)}, {})
             cluster(paths) == [plain(paths) EXCEPT !.confidence = Max({f.confidence : f \in group(paths)})]
  <2>1. semantic = {cluster(paths) : paths \in {findingPaths(approved, f) : f \in findings}}
    BY Zenon DEF SemanticClusters
  <2>2. \A paths : plain(paths).score = FindingScores(group(paths))
    BY <1>2 DEF FindingScores
  <2>3. \A paths : "score" \in DOMAIN plain(paths)
    BY DEF Cluster
  <2>4. \A paths : cluster(paths).score = plain(paths).score
    <3> HIDE DEF plain, group
    <3> QED BY <2>3
  <2>5. \A f : FindingScores(group(findingPaths(approved, f))) = FindingScore(approved, findings, f)
    BY DEF FindingScore
  <2> HIDE DEF plain, cluster, semantic, group
  <2>6. \A f : cluster(findingPaths(approved, f)).score = FindingScore(approved, findings, f)
    BY <2>2, <2>4, <2>5
  <2>7. semantic = {cluster(findingPaths(approved, f)) : f \in findings}
    BY <2>1
  <2>8. ScoresOf(semantic) = {cluster(findingPaths(approved, f)).score : f \in findings}
    BY <2>7 DEF ScoresOf
  <2> QED BY <2>6, <2>8
<1>6. ScoresOf(all \cup semantic) = ScoresOf(all) \cup ScoresOf(semantic)
  <2> HIDE DEF all, semantic
  <2> QED BY DEF ScoresOf
<1> QED BY <1>1, <1>4, <1>5, <1>6 DEF items

LEMMA PeakType ==
  ASSUME NEW S, Strengths(S), NEW weights \in Seq(Nat)
  PROVE  weightedPeak(S, weights) \in Nat
<1> DEFINE key == [p \in S |-> p]
<1>1. Outweighs(S, S, key)
  BY DEF Outweighs, Strengths
<1> HIDE DEF key
<1> QED BY <1>1, PeakMonotonic

LEMMA RoundedType ==
  ASSUME NEW x \in Nat
  PROVE  Rounded(x, 10) \in Nat
<1>1. x * 10 <= x * 10
  OBVIOUS
<1>2. 10 \in Nat \ {0}
  OBVIOUS
<1> QED BY <1>1, <1>2, RoundedMonotonic

LEMMA FindingScoresType ==
  ASSUME NEW findings, Rated(findings), NEW group \in SUBSET findings
  PROVE  FindingScores(group) \in Nat
<1> DEFINE S == {<<f.fid, semanticRiskStrength[f.scope]>> : f \in group}
           g == [f \in group |-> <<f.fid, semanticRiskStrength[f.scope]>>]
<1>1. IsFiniteSet(group)
  BY FS_Subset DEF Rated
<1>2. g \in Surjection(group, S)
  BY DEF Surjection
<1>3. IsFiniteSet(S)
  <2> HIDE DEF g, S
  <2> QED BY <1>1, <1>2, FS_Surjection
<1>4. Strengths(S)
  <2>1. \A p \in S : p[2] \in Nat
    BY DEF Rated
  <2> HIDE DEF S
  <2> QED BY <1>3, <2>1 DEF Strengths
<1>5. ClusterPeakWeights \in Seq(Nat)
  BY DEF ClusterPeakWeights
<1> HIDE DEF S
<1>6. weightedPeak(S, ClusterPeakWeights) \in Nat
  BY <1>4, <1>5, PeakType
<1> QED BY <1>6, RoundedType DEF FindingScores, S

\* The scores of the clusters of what was kept.
LEMMA ScoresFinite ==
  ASSUME NEW approved, Shaped(approved), NEW findings, Rated(findings)
  PROVE  LET scores == ScoresOf(buildMechanismClusters(approved, findings))
         IN scores \in SUBSET Nat /\ IsFiniteSet(scores)
<1> DEFINE items == productEvidence(approved)
           A == {ItemScore(items, Mechanism(e.signal), e.path) : e \in items}
           B == {FindingScore(approved, findings, f) : f \in findings}
<1>1. Shaped(items) /\ Kept(items, items)
  <2>1. items \in SUBSET approved
    BY DEF productEvidence
  <2>2. Shaped(items)
    BY <2>1, ShapedPart
  <2> HIDE DEF items
  <2> QED BY <2>2 DEF Kept, Shaped
<1> HIDE DEF items
<1>2. A \in SUBSET Nat
  BY <1>1, ItemScoreKept
<1>3. B \in SUBSET Nat
  <2>1. \A f \in findings : FindingScore(approved, findings, f) \in Nat
    <3> SUFFICES ASSUME NEW f \in findings PROVE FindingScore(approved, findings, f) \in Nat
      OBVIOUS
    <3> DEFINE group == {g \in findings : findingPaths(approved, g) = findingPaths(approved, f)}
    <3>1. group \in SUBSET findings
      OBVIOUS
    <3> HIDE DEF group
    <3>2. FindingScores(group) \in Nat
      BY <3>1, FindingScoresType
    <3> QED BY <3>2 DEF FindingScore, group
  <2> QED BY <2>1
<1>4. IsFiniteSet(A)
  <2> DEFINE ids == {e.id : e \in items}
             h == [id \in ids |-> ItemScore(items, Mechanism(id[1]), id[2])]
             H == {h[id] : id \in DOMAIN h}
  <2>1. ids \in SUBSET Identity /\ \A e \in items : e.signal = e.id[1] /\ e.path = e.id[2]
    BY <1>1 DEF Shaped
  <2>2. IsFiniteSet(ids)
    <3> HIDE DEF ids
    <3> QED BY <2>1, IdentitiesFinite, FS_Subset
  <2>3. IsFiniteSet(H)
    <3>1. DOMAIN h = ids
      OBVIOUS
    <3> HIDE DEF h, ids
    <3> QED BY <2>2, <3>1, RangeFinite
  <2>4. \A e \in items : ItemScore(items, Mechanism(e.signal), e.path) \in H
    <3> SUFFICES ASSUME NEW e \in items
                 PROVE  ItemScore(items, Mechanism(e.signal), e.path) \in H
      OBVIOUS
    <3>1. e.id \in DOMAIN h /\ h[e.id] = ItemScore(items, Mechanism(e.signal), e.path)
      BY <2>1
    <3> HIDE DEF h
    <3> QED BY <3>1
  <2>5. A \in SUBSET H
    <3> HIDE DEF H
    <3> QED BY <2>4
  <2> HIDE DEF A, H
  <2> QED BY <2>3, <2>5, FS_Subset
<1>5. IsFiniteSet(B)
  <2> DEFINE h == [f \in findings |-> FindingScore(approved, findings, f)]
  <2>1. DOMAIN h = findings /\ {h[f] : f \in DOMAIN h} = B
    OBVIOUS
  <2>2. IsFiniteSet(findings)
    BY DEF Rated
  <2> HIDE DEF h, B
  <2> QED BY <2>1, <2>2, RangeFinite
<1>6. ScoresOf(buildMechanismClusters(approved, findings)) = A \cup B
  BY ClusterScores DEF items
<1> HIDE DEF A, B
<1> QED BY <1>2, <1>3, <1>4, <1>5, <1>6, FS_Union

Worst(approved, findings) == Greatest(ScoresOf(buildMechanismClusters(approved, findings)))

LEMMA WorstKept ==
  ASSUME NEW old, NEW approved, Shaped(old), Shaped(approved), Kept(old, approved),
         NEW findings, Rated(findings),
         \A f \in findings : findingPaths(old, f) = findingPaths(approved, f)
  PROVE  /\ Worst(old, findings) <= Worst(approved, findings)
         /\ Worst(old, findings) \in Nat /\ Worst(approved, findings) \in Nat
<1> DEFINE items0 == productEvidence(old)
           items == productEvidence(approved)
           S == ScoresOf(buildMechanismClusters(old, findings))
           T == ScoresOf(buildMechanismClusters(approved, findings))
<1>1. S \in SUBSET Nat /\ IsFiniteSet(S) /\ T \in SUBSET Nat /\ IsFiniteSet(T)
  BY ScoresFinite
<1>2. Shaped(items0) /\ Shaped(items) /\ Kept(items0, items)
  <2>1. Kept(old, old)
    BY DEF Kept, Shaped
  <2> QED BY <2>1, KeptPart
<1>3. /\ S = {ItemScore(items0, Mechanism(e.signal), e.path) : e \in items0}
               \cup {FindingScore(old, findings, f) : f \in findings}
      /\ T = {ItemScore(items, Mechanism(e.signal), e.path) : e \in items}
               \cup {FindingScore(approved, findings, f) : f \in findings}
  BY ClusterScores
<1> HIDE DEF items0, items, S, T
<1>4. ASSUME NEW e \in items0
      PROVE  \E m \in T : ItemScore(items0, Mechanism(e.signal), e.path) <= m
  <2>1. PICK x \in items : x.signal = e.signal /\ x.path = e.path
    BY <1>2 DEF Kept, Shaped
  <2>2. ItemScore(items, Mechanism(x.signal), x.path) \in T
    BY <1>3
  <2>3. ItemScore(items0, Mechanism(e.signal), e.path) <= ItemScore(items, Mechanism(x.signal), x.path)
    BY <1>2, <2>1, ItemScoreKept
  <2> QED BY <2>2, <2>3
<1>5. ASSUME NEW f \in findings
      PROVE  FindingScore(old, findings, f) \in T
  <2>1. {g \in findings : findingPaths(old, g) = findingPaths(old, f)}
          = {g \in findings : findingPaths(approved, g) = findingPaths(approved, f)}
    OBVIOUS
  <2>2. FindingScore(old, findings, f) = FindingScore(approved, findings, f)
    BY <2>1 DEF FindingScore
  <2> QED BY <1>3, <2>2
<1>6. \A n \in S : \E m \in T : n <= m
  <2> SUFFICES ASSUME NEW n \in S PROVE \E m \in T : n <= m
    OBVIOUS
  <2>1. CASE \E e \in items0 : n = ItemScore(items0, Mechanism(e.signal), e.path)
    BY <1>4, <2>1
  <2>2. CASE \E f \in findings : n = FindingScore(old, findings, f)
    <3>1. n \in T /\ n \in Nat
      BY <1>1, <1>5, <2>2
    <3> QED BY <3>1
  <2> QED BY <1>3, <2>1, <2>2
<1>7. Greatest(S) <= Greatest(T) /\ Greatest(S) \in Nat /\ Greatest(T) \in Nat
  BY <1>1, <1>6, GreatestMonotonic, GreatestOf
<1> QED BY <1>7 DEF Worst, S, T

-----------------------------------------------------------------------------
(* The score of a repository.                                              *)

EligibleOf(d) == {f \in d.findings : isScoreEligibleSemanticFinding(f)}
ScoreOf(s, d) ==
  scoreRepository(axisScores(s, d),
                  buildMechanismClusters(capabilityApprovedEvidence(d), EligibleOf(d)))

\* Two diagnoses that an equal context lets compare, with the same findings.
Comparable(d0, d) ==
  /\ d0.capabilities = d.capabilities /\ d0.semantic = d.semantic /\ d0.findings = d.findings
  /\ supportedSignals(d.capabilities) \subseteq DOMAIN SignalAxis

\* Findings as they are let through.
Sound(findings) ==
  /\ IsFiniteSet(findings)
  /\ \A f \in findings : f.path \in File \cup {NoFile} /\ semanticRiskStrength[f.scope] \in Nat

LEMMA EligibleRated ==
  ASSUME NEW d, Sound(d.findings)
  PROVE  Rated(EligibleOf(d))
<1>1. EligibleOf(d) \in SUBSET d.findings
  BY DEF EligibleOf
<1>2. \A f \in EligibleOf(d) : f.path \in File /\ semanticRiskStrength[f.scope] \in Nat
  BY DEF EligibleOf, isScoreEligibleSemanticFinding, Sound
<1> QED BY <1>1, <1>2, FS_Subset DEF Rated, Sound

LEMMA EvaluableFinite ==
  ASSUME NEW axis, NEW capabilities, supportedSignals(capabilities) \subseteq DOMAIN SignalAxis
  PROVE  IsFiniteSet(evaluableMechanisms(axis, capabilities))
<1>1. CASE axis = "semantic"
  BY <1>1, FS_Singleton DEF evaluableMechanisms
<1>2. CASE axis # "semantic"
  <2> DEFINE signals == {h \in supportedSignals(capabilities) : SignalAxis[h] = axis}
             g == [h \in DOMAIN SignalAxis |-> Mechanism(h)]
             S == {g[h] : h \in DOMAIN g}
             T == {Mechanism(h) : h \in signals}
  <2>1. evaluableMechanisms(axis, capabilities) = T
    BY <1>2 DEF evaluableMechanisms
  <2>2. T \in SUBSET S
    <3>1. \A h \in signals : h \in DOMAIN g /\ g[h] = Mechanism(h)
      OBVIOUS
    <3> HIDE DEF g, signals
    <3> QED BY <3>1
  <2>3. IsFiniteSet(S)
    <3>1. DOMAIN g = DOMAIN SignalAxis
      OBVIOUS
    <3> HIDE DEF g
    <3> QED BY <3>1, SignalsFinite, RangeFinite
  <2> HIDE DEF S, T
  <2> QED BY <2>1, <2>2, <2>3, FS_Subset
<1> QED BY <1>1, <1>2

LEMMA AxesKept ==
  ASSUME NEW d0, NEW d, Comparable(d0, d), Sound(d.findings),
         Shaped(d0.evidence), Shaped(d.evidence), Kept(d0.evidence, d.evidence),
         NEW s0, NEW s, Cardinality(Products(s)) \in 1 .. Cardinality(Products(s0)),
         Cardinality(Products(s0)) \in Nat
  PROVE  /\ DOMAIN axisScores(s0, d0) = evaluatedAxes(d) /\ DOMAIN axisScores(s, d) = evaluatedAxes(d)
         /\ \A a \in evaluatedAxes(d) :
              /\ axisScores(s0, d0)[a] \in Nat /\ axisScores(s, d)[a] \in Nat
              /\ axisScores(s0, d0)[a] <= axisScores(s, d)[a]
<1> DEFINE n0 == Cardinality(Products(s0))
           n == Cardinality(Products(s))
           findings(a) == IF a = "semantic" THEN EligibleOf(d) ELSE {}
           part(x, a) == {e \in capabilityApprovedEvidence(x) : SignalAxis[e.signal] = a}
           mechanisms(a) == evaluableMechanisms(a, d.capabilities)
<1>1. evaluatedAxes(d0) = evaluatedAxes(d)
  BY DEF evaluatedAxes, Comparable
<1>2. \A a : EligibleOf(d0) = EligibleOf(d)
  BY DEF EligibleOf, Comparable
<1>3. /\ axisScores(s0, d0) = [a \in evaluatedAxes(d) |->
           scoreAxis(a, part(d0, a), findings(a), n0, mechanisms(a))]
      /\ axisScores(s, d) = [a \in evaluatedAxes(d) |->
           scoreAxis(a, part(d, a), findings(a), n, mechanisms(a))]
  <2>1. axisScores(s, d) = [a \in evaluatedAxes(d) |->
           scoreAxis(a, part(d, a), findings(a), n, mechanisms(a))]
    BY Zenon DEF axisScores, EligibleOf
  <2>2. axisScores(s0, d0) = [a \in evaluatedAxes(d0) |->
           scoreAxis(a, part(d0, a), IF a = "semantic" THEN EligibleOf(d0) ELSE {}, n0,
                     evaluableMechanisms(a, d0.capabilities))]
    BY Zenon DEF axisScores, EligibleOf
  <2>3. d0.capabilities = d.capabilities
    BY DEF Comparable
  <2> QED BY <1>1, <1>2, <2>1, <2>2, <2>3
<1>4. n0 \in Nat \ {0} /\ n \in Nat \ {0} /\ n <= n0
  OBVIOUS
<1>5. ASSUME NEW a
      PROVE  /\ Shaped(part(d0, a)) /\ Shaped(part(d, a)) /\ Kept(part(d0, a), part(d, a))
             /\ Kept(part(d, a), part(d, a))
             /\ Rated(findings(a)) /\ IsFiniteSet(mechanisms(a))
  <2> DEFINE signals == {g \in supportedSignals(d.capabilities) : SignalAxis[g] = a}
  <2>1. part(d0, a) = OfSignals(d0.evidence, signals) /\ part(d, a) = OfSignals(d.evidence, signals)
    BY DEF OfSignals, capabilityApprovedEvidence, Comparable
  <2>2. Kept(d0.evidence, d0.evidence) /\ Kept(d.evidence, d.evidence)
    BY DEF Kept, Shaped
  <2>3. Rated({})
    BY FS_EmptySet DEF Rated
  <2>4. Rated(findings(a))
    BY <2>3, EligibleRated
  <2> HIDE DEF part, signals, findings
  <2>5. IsFiniteSet(mechanisms(a))
    BY EvaluableFinite DEF Comparable
  <2> QED BY <2>1, <2>2, <2>4, <2>5, KeptPart
<1> HIDE DEF n0, n, findings, part, mechanisms
<1>6. ASSUME NEW a
      PROVE  /\ scoreAxis(a, part(d0, a), findings(a), n0, mechanisms(a)) \in Nat
             /\ scoreAxis(a, part(d, a), findings(a), n, mechanisms(a)) \in Nat
             /\ scoreAxis(a, part(d0, a), findings(a), n0, mechanisms(a))
                  <= scoreAxis(a, part(d, a), findings(a), n, mechanisms(a))
  <2>1. n <= n
    BY <1>4
  <2> QED BY <1>4, <1>5, <2>1, AxisKept
<1> QED BY <1>3, <1>6

LEMMA RepositoryKept ==
  ASSUME NEW axes0, NEW axes, NEW D, IsFiniteSet(D), DOMAIN axes0 = D, DOMAIN axes = D,
         \A a \in D : axes0[a] \in Nat /\ axes[a] \in Nat /\ axes0[a] <= axes[a],
         NEW clusters0, NEW clusters,
         Greatest(ScoresOf(clusters0)) \in Nat, Greatest(ScoresOf(clusters)) \in Nat,
         Greatest(ScoresOf(clusters0)) <= Greatest(ScoresOf(clusters))
  PROVE  /\ scoreRepository(axes0, clusters0) \in Nat /\ scoreRepository(axes, clusters) \in Nat
         /\ scoreRepository(axes0, clusters0) <= scoreRepository(axes, clusters)
<1> DEFINE sum0 == SumFunctionOnSet(axes0, D)
           sum == SumFunctionOnSet(axes, D)
           k == Cardinality(D)
           worst0 == Greatest(ScoresOf(clusters0))
           worst == Greatest(ScoresOf(clusters))
           rounded(total, most) ==
             IF k = 0 THEN 0
             ELSE Rounded(10 * total + 3 * Greatest({0, k * most - total}), 10 * k)
<1>1. sum0 \in Nat /\ sum \in Nat /\ sum0 <= sum
  <2>1. sum0 \in Nat /\ sum \in Nat
    BY SumType
  <2>2. \A a \in D : axes0[a] \in Int /\ axes[a] \in Int /\ axes0[a] <= axes[a]
    OBVIOUS
  <2>3. sum0 <= sum
    BY <2>2, SumMonotonic
  <2> QED BY <2>1, <2>3
<1>2. k \in Nat
  BY FS_CardinalityType
<1>3. /\ scoreRepository(axes0, clusters0) = rounded(sum0, worst0)
      /\ scoreRepository(axes, clusters) = rounded(sum, worst)
  BY DEF scoreRepository, SumFunction, ScoresOf
<1> HIDE DEF sum0, sum, k, worst0, worst
<1>4. CASE k = 0
  BY <1>3, <1>4
<1>5. CASE k # 0
  <2>1. worst0 \in Nat /\ worst \in Nat /\ worst0 <= worst /\ k \in Nat \ {0}
    BY <1>2, <1>5 DEF worst0, worst
  <2>2. LET total0 == Rounded(10 * sum0 + 3 * Greatest({0, k * worst0 - sum0}), 10 * k)
            total == Rounded(10 * sum + 3 * Greatest({0, k * worst - sum}), 10 * k)
        IN total0 \in Nat /\ total \in Nat /\ total0 <= total
    BY <1>1, <2>1, RepositoryMonotonic
  <2> QED BY <1>3, <1>5, <2>2
<1> QED BY <1>4, <1>5

LEMMA AxesFinite ==
  ASSUME NEW d
  PROVE  IsFiniteSet(evaluatedAxes(d))
<1> DEFINE A == {a \in AxisIds \ {"semantic"} : evaluableMechanisms(a, d.capabilities) # {}}
           B == IF d.semantic = "available" /\ d.findings # {} THEN {"semantic"} ELSE {}
<1>1. evaluatedAxes(d) = A \cup B
  BY DEF evaluatedAxes
<1>2. A \in SUBSET {SignalAxis[g] : g \in DOMAIN SignalAxis}
  BY DEF AxisIds, SignalAxis
<1>3. IsFiniteSet({SignalAxis[g] : g \in DOMAIN SignalAxis})
  BY SignalsFinite, RangeFinite
<1>4. IsFiniteSet(B)
  BY FS_EmptySet, FS_Singleton
<1> HIDE DEF A, B
<1> QED BY <1>1, <1>2, <1>3, <1>4, FS_Subset, FS_Union

(***************************************************************************)
(* Added evidence never dilutes what was there: of two diagnoses with the  *)
(* same capabilities, findings and state of the semantic provider, where   *)
(* every item of the first is in the second, at least as related, and no   *)
(* more products share the risk, the second has no lower score (score.ts,  *)
(* clusters.ts: peaks, breadth, components and the worst cluster).         *)
(***************************************************************************)
THEOREM AddedEvidenceKeepsScore ==
  ASSUME NEW d0, NEW d, Comparable(d0, d), Sound(d.findings),
         Shaped(d0.evidence), Shaped(d.evidence), Kept(d0.evidence, d.evidence),
         \A f \in d.findings : f.refs \subseteq Ids(d0.evidence) \cap Ids(d.evidence),
         NEW s0, NEW s, Cardinality(Products(s)) \in 1 .. Cardinality(Products(s0)),
         Cardinality(Products(s0)) \in Nat
  PROVE  ScoreOf(s0, d0) \in Nat /\ ScoreOf(s, d) \in Nat /\ ScoreOf(s0, d0) <= ScoreOf(s, d)
<1> DEFINE findings == EligibleOf(d)
           signals == supportedSignals(d.capabilities)
           old == capabilityApprovedEvidence(d0)
           approved == capabilityApprovedEvidence(d)
           clusters0 == buildMechanismClusters(old, findings)
           clusters == buildMechanismClusters(approved, findings)
<1>1. old = OfSignals(d0.evidence, signals) /\ approved = OfSignals(d.evidence, signals)
  BY DEF OfSignals, capabilityApprovedEvidence, Comparable
<1>2. Shaped(old) /\ Shaped(approved) /\ Kept(old, approved)
  <2>1. Kept(d0.evidence, d0.evidence)
    BY DEF Kept, Shaped
  <2> HIDE DEF old, approved, signals
  <2> QED BY <1>1, <2>1, KeptPart
<1>3. Rated(findings)
  BY EligibleRated
<1>4. \A f \in findings : findingPaths(old, f) = findingPaths(approved, f)
  <2> SUFFICES ASSUME NEW f \in findings
               PROVE  findingPaths(old, f) = findingPaths(approved, f)
    OBVIOUS
  <2>1. f.refs \subseteq Ids(d0.evidence) /\ f.refs \subseteq Ids(d.evidence)
    BY DEF EligibleOf
  <2>2. ASSUME NEW x, Shaped(x.evidence), f.refs \subseteq Ids(x.evidence),
               NEW items, items = OfSignals(x.evidence, signals)
        PROVE  findingPaths(items, f) =
                 {f.path} \cup {id[2] : id \in {i \in f.refs : i[1] \in signals}}
    <3>1. \A e \in items : e \in x.evidence /\ e.path = e.id[2] /\ e.id[1] \in signals
      BY <2>2 DEF Shaped, OfSignals
    <3>2. ASSUME NEW id \in f.refs, id[1] \in signals
          PROVE  \E e \in items : e.id = id /\ e.path = id[2]
      <4>1. PICK e \in x.evidence : e.id = id
        BY <2>2 DEF Ids
      <4>2. e.signal = id[1] /\ e.path = id[2]
        BY <2>2, <4>1 DEF Shaped
      <4> QED BY <2>2, <3>2, <4>1, <4>2 DEF OfSignals
    <3> HIDE DEF signals
    <3> QED BY <3>1, <3>2 DEF findingPaths
  <2> HIDE DEF signals, old, approved
  <2>3. /\ findingPaths(old, f) = {f.path} \cup {id[2] : id \in {i \in f.refs : i[1] \in signals}}
        /\ findingPaths(approved, f) = {f.path} \cup {id[2] : id \in {i \in f.refs : i[1] \in signals}}
    BY <1>1, <2>1, <2>2
  <2> QED BY <2>3
<1>5. EligibleOf(d0) = findings
  BY DEF EligibleOf, Comparable
<1> HIDE DEF findings, old, approved
<1>6. Worst(old, findings) <= Worst(approved, findings)
      /\ Worst(old, findings) \in Nat /\ Worst(approved, findings) \in Nat
  BY <1>2, <1>3, <1>4, WorstKept
<1>7. Greatest(ScoresOf(clusters0)) \in Nat /\ Greatest(ScoresOf(clusters)) \in Nat
      /\ Greatest(ScoresOf(clusters0)) <= Greatest(ScoresOf(clusters))
  BY <1>6 DEF Worst
<1> HIDE DEF clusters0, clusters
<1>8. /\ scoreRepository(axisScores(s0, d0), clusters0) \in Nat
      /\ scoreRepository(axisScores(s, d), clusters) \in Nat
      /\ scoreRepository(axisScores(s0, d0), clusters0) <= scoreRepository(axisScores(s, d), clusters)
  <2> DEFINE axes0 == axisScores(s0, d0)
             axes == axisScores(s, d)
             D == evaluatedAxes(d)
  <2>1. /\ DOMAIN axes0 = D /\ DOMAIN axes = D
        /\ \A a \in D : axes0[a] \in Nat /\ axes[a] \in Nat /\ axes0[a] <= axes[a]
    BY AxesKept
  <2>2. IsFiniteSet(D)
    BY AxesFinite
  <2> HIDE DEF axes0, axes, D
  <2>3. /\ scoreRepository(axes0, clusters0) \in Nat /\ scoreRepository(axes, clusters) \in Nat
        /\ scoreRepository(axes0, clusters0) <= scoreRepository(axes, clusters)
    BY <1>7, <2>1, <2>2, RepositoryKept
  <2> QED BY <2>3 DEF axes0, axes
<1> QED BY <1>5, <1>8 DEF ScoreOf, findings, old, approved, clusters0, clusters

-----------------------------------------------------------------------------
(* The items that the extraction makes.                                    *)

CountOf(s, signal, f) ==
  IF signal = "fanOut" THEN FanOut(Graph(s), f)
  ELSE IF signal = "fanIn" THEN FanIn(Graph(s), f)
  ELSE IF signal = "large" THEN s.tree[f].lines
  ELSE IF signal = "deep" THEN s.tree[f].depth ELSE s.tree[f].churn
OnsetOf(signal) ==
  IF signal \in {"fanOut", "fanIn"} THEN FanThreshold
  ELSE IF signal = "large" THEN MaxFileLines
  ELSE IF signal = "deep" THEN NestingOnset ELSE ChurnOnset
StrengthAt(s, signal, f) ==
  IF signal \in DOMAIN BinaryStrength THEN BinaryStrength[signal]
  ELSE normalizeAboveThreshold(CountOf(s, signal, f), OnsetOf(signal))

Formed(s, e) ==
  /\ e.id \in Identity /\ e.signal = e.id[1] /\ e.path = e.id[2]
  /\ e.strength = StrengthAt(s, e.signal, e.path)
  /\ e.role = classifyPathRole(s, e.path) /\ e.related \subseteq File

LEMMA StrengthType ==
  ASSUME NEW s, NEW signal, NEW f
  PROVE  StrengthAt(s, signal, f) \in Nat
<1>1. \A b \in DOMAIN BinaryStrength : BinaryStrength[b] \in Nat
  BY DEF BinaryStrength
<1>2. ASSUME NEW value, NEW onset PROVE normalizeAboveThreshold(value, onset) \in Nat
  <2> DEFINE S == {n \in DOMAIN LogBounds : LogBounds[n] * onset <= 1000 * value}
  <2>1. PICK n \in Nat : DOMAIN LogBounds = 1 .. n
    BY DEF LogBounds
  <2>2. IsFiniteSet(S)
    <3>1. IsFiniteSet(DOMAIN LogBounds)
      BY <2>1, FS_Interval
    <3> QED BY <3>1, FS_Subset
  <2>3. Cardinality(S) \in Nat
    <3> HIDE DEF S
    <3> QED BY <2>2, FS_CardinalityType
  <2>4. normalizeAboveThreshold(value, onset) = IF value < onset THEN 0 ELSE 25 + Cardinality(S)
    BY DEF normalizeAboveThreshold, Quantify
  <2> HIDE DEF S
  <2> QED BY <2>3, <2>4
<1> QED BY <1>1, <1>2 DEF StrengthAt

LEMMA ItemFormed ==
  ASSUME NEW s, NEW signal \in DOMAIN SignalAxis \ {"cycle"}, NEW f \in File,
         NEW key \in SUBSET (File \cup DOMAIN Candidates)
  PROVE  Formed(s, Item(s, Graph(s), signal, f, key, StrengthAt(s, signal, f)))
<1> DEFINE id == <<signal, f, key>>
           near == Neighbours(s, Graph(s), f) \cup TestPaths(s, Graph(s), f)
           strength == StrengthAt(s, signal, f)
           role == classifyPathRole(s, f)
<1>1. id \in Identity
  BY DEF Identity, Name
<1>2. near \subseteq File
  BY DEF Neighbours, TestPaths, Scripts, Present
<1>3. Item(s, Graph(s), signal, f, key, strength) =
        [id |-> id, signal |-> signal, path |-> f, strength |-> strength, role |-> role,
         related |-> near]
  BY Zenon DEF Item
<1>4. id[1] = signal /\ id[2] = f
  OBVIOUS
<1> HIDE DEF id, near, strength, role
<1> QED BY <1>1, <1>2, <1>3, <1>4 DEF Formed, strength, role

LEMMA NumericFormed ==
  ASSUME NEW s, NEW signal \in DOMAIN SignalAxis \ {"cycle"}, NEW value, NEW onset, NEW least,
         DOMAIN value \subseteq File,
         \A f \in DOMAIN value : normalizeAboveThreshold(value[f], onset) = StrengthAt(s, signal, f),
         NEW e \in Numeric(s, Graph(s), signal, value, onset, least)
  PROVE  Formed(s, e)
<1>1. PICK f \in DOMAIN value :
        e = Item(s, Graph(s), signal, f, {}, normalizeAboveThreshold(value[f], onset))
  BY DEF Numeric
<1>2. e = Item(s, Graph(s), signal, f, {}, StrengthAt(s, signal, f))
  BY <1>1
<1> QED BY <1>2, ItemFormed

LEMMA BinaryFormed ==
  ASSUME NEW s, NEW signal \in {"barrel", "untested"}, NEW files \in SUBSET File,
         NEW e \in Binary(s, Graph(s), signal, files)
  PROVE  Formed(s, e)
<1>1. PICK f \in files : e = Item(s, Graph(s), signal, f, {}, BinaryStrength[signal])
  BY DEF Binary
<1>2. signal \in DOMAIN SignalAxis \ {"cycle"} /\ signal \in DOMAIN BinaryStrength
  BY DEF SignalAxis, BinaryStrength
<1>3. BinaryStrength[signal] = StrengthAt(s, signal, f)
  BY <1>2 DEF StrengthAt
<1>4. Formed(s, Item(s, Graph(s), signal, f, {}, StrengthAt(s, signal, f)))
  BY <1>2, ItemFormed
<1> QED BY <1>1, <1>3, <1>4

\* The files of a cycle import each other, so they are scripts.
LEMMA CycleOfScripts ==
  ASSUME NEW s, ScriptsImport(s), NEW c \in findImportCycles(Graph(s))
  PROVE  c \subseteq Scripts(s)
<1> SUFFICES ASSUME NEW f \in c PROVE f \in Scripts(s)
  OBVIOUS
<1> DEFINE pairs == ImportPairs(Graph(s))
<1>1. IsFiniteSet(Graph(s))
  BY EdgesFinite DEF Graph, ScriptsImport
<1>2. f \in Beyond(pairs, f)
  BY <1>1, CyclesAreFound
<1>3. \E p \in pairs : p[1] = f
  <2>1. SUFFICES ASSUME \A p \in pairs : p[1] # f PROVE FALSE
    OBVIOUS
  <2>2. {} \in SUBSET {p[2] : p \in pairs}
    OBVIOUS
  <2>3. \A p \in pairs : p[1] \in {} \cup {f} => p[2] \in {}
    BY <2>1
  <2> HIDE DEF pairs
  <2> QED BY <1>2, <2>2, <2>3 DEF Beyond
<1>4. PICK e \in Graph(s) : e.from = f
  BY <1>3 DEF ImportPairs
<1>5. {} \in SUBSET File
  OBVIOUS
<1> QED BY <1>4, <1>5, EdgeOf DEF Graph, ScriptsImport

LEMMA CycleFormed ==
  ASSUME NEW s, ScriptsImport(s), NEW e \in CycleItems(s)
  PROVE  Formed(s, e)
<1>1. PICK c \in findImportCycles(Graph(s)) :
        e = CycleItem(s, Graph(s), c) /\ c \cap Diagnosed(s) # {}
  BY DEF CycleItems
<1>2. c \subseteq File
  BY CycleOfScripts DEF Scripts, Present
<1> DEFINE own == {f \in c : ~isNonProductPath(s, f)}
           primary == Min(own)
           plain == Item(s, Graph(s), "cycle", primary, c, BinaryStrength.cycle)
<1>3. primary \in own
  <2>1. own # {} /\ own \in SUBSET Nat
    BY <1>1, <1>2, FileAssumption DEF Diagnosed
  <2> HIDE DEF own
  <2>2. \E n \in own : \A m \in own : n <= m
    BY <2>1, LeastNatural
  <2> QED BY <2>2 DEF Min
<1>4. primary \in File
  BY <1>2, <1>3
<1>5. e = [plain EXCEPT !.related = c]
  BY <1>1 DEF CycleItem
<1> HIDE DEF own, primary
<1>6. /\ e.id = <<"cycle", primary, c>> /\ e.signal = "cycle" /\ e.path = primary
      /\ e.strength = BinaryStrength.cycle /\ e.role = classifyPathRole(s, primary)
      /\ e.related = c
  <2> DEFINE strength == BinaryStrength.cycle
             role == classifyPathRole(s, primary)
             near == Neighbours(s, Graph(s), primary) \cup TestPaths(s, Graph(s), primary)
             id == <<"cycle", primary, c>>
  <2>1. plain = [id |-> id, signal |-> "cycle", path |-> primary, strength |-> strength,
                 role |-> role, related |-> near]
    BY Zenon DEF Item
  <2> HIDE DEF strength, role, near, plain, id
  <2>2. /\ e.id = id /\ e.signal = "cycle" /\ e.path = primary
        /\ e.strength = strength /\ e.role = role /\ e.related = c
    BY <1>5, <2>1
  <2> QED BY <2>2 DEF strength, role, id
<1>7. StrengthAt(s, "cycle", primary) = BinaryStrength.cycle
  BY DEF StrengthAt, BinaryStrength
<1>8. <<"cycle", primary, c>> \in Identity
  <2>1. "cycle" \in DOMAIN SignalAxis
    BY DEF SignalAxis
  <2>2. c \in SUBSET (File \cup DOMAIN Candidates)
    BY <1>2
  <2> QED BY <1>2, <1>4, <2>1, <2>2 DEF Identity, Name
<1> QED BY <1>2, <1>6, <1>7, <1>8 DEF Formed

LEMMA UnresolvedFormed ==
  ASSUME NEW s, ScriptsImport(s), NEW e \in UnresolvedItems(s)
  PROVE  Formed(s, e)
<1>1. PICK x \in Unresolved(s, Graph(s)) :
        e = Item(s, Graph(s), "unresolved", x.from, {x.to}, BinaryStrength.unresolved)
  BY DEF UnresolvedItems
<1>2. x.from \in File /\ x.to \in File \cup DOMAIN Candidates
  <2>1. x \in Graph(s) /\ {} \in SUBSET File
    BY DEF Unresolved
  <2>2. Scripts(s) \subseteq File
    BY DEF Scripts, Present
  <2> DEFINE scripts == Scripts(s)
  <2>3. Importing(s.tree, scripts) /\ x \in buildImportGraph(s.tree, scripts, {})
    BY <2>1 DEF Graph, ScriptsImport
  <2>4. scripts \in SUBSET File /\ scripts \cup {} = scripts
    BY <2>2
  <2> HIDE DEF scripts
  <2>5. x.from \in scripts /\ x.to \in scripts \cup {} \cup DOMAIN Candidates
    BY <2>1, <2>3, <2>4, EdgeOf
  <2> QED BY <2>4, <2>5
<1>3. BinaryStrength.unresolved = StrengthAt(s, "unresolved", x.from)
  BY DEF StrengthAt, BinaryStrength
<1>4. "unresolved" \in DOMAIN SignalAxis \ {"cycle"} /\ {x.to} \in SUBSET (File \cup DOMAIN Candidates)
  BY <1>2 DEF SignalAxis
<1>5. Formed(s, Item(s, Graph(s), "unresolved", x.from, {x.to}, StrengthAt(s, "unresolved", x.from)))
  BY <1>2, <1>4, ItemFormed
<1> QED BY <1>1, <1>3, <1>5

LEMMA LargeFileFormed ==
  ASSUME NEW s, NEW e \in extractLargeFileEvidence(s)
  PROVE  Formed(s, e)
<1>1. PICK f \in Present(s) : e =
        [id |-> <<"large", f, {}>>, signal |-> "large", path |-> f,
         strength |-> normalizeAboveThreshold(s.tree[f].lines, MaxFileLines),
         role |-> classifyPathRole(s, f), related |-> {}]
  BY DEF extractLargeFileEvidence
<1>2. normalizeAboveThreshold(s.tree[f].lines, MaxFileLines) = StrengthAt(s, "large", f)
  BY DEF StrengthAt, BinaryStrength, CountOf, OnsetOf
<1>3. f \in File
  BY DEF Present
<1>4. <<"large", f, {}>> \in Identity
  BY <1>3 DEF Identity, Name, SignalAxis
<1> DEFINE strength == normalizeAboveThreshold(s.tree[f].lines, MaxFileLines)
           role == classifyPathRole(s, f)
           id == <<"large", f, {}>>
<1>5. e = [id |-> id, signal |-> "large", path |-> f, strength |-> strength, role |-> role,
           related |-> {}] /\ id[1] = "large" /\ id[2] = f
  BY <1>1
<1> HIDE DEF strength, role, id
<1>6. /\ e.id = id /\ e.signal = "large" /\ e.path = f /\ e.strength = strength /\ e.role = role
      /\ e.related = {} /\ id[1] = "large" /\ id[2] = f
  BY <1>5
<1> QED BY <1>2, <1>4, <1>6 DEF Formed, strength, role, id

LEMMA ItemsFormed ==
  ASSUME NEW s, ScriptsImport(s), NEW e \in Items(s)
  PROVE  Formed(s, e)
<1> DEFINE edges == Graph(s)
           untestable == Diagnosed(s) \ TestFile
           outs == [f \in Scripts(s) |-> FanOut(edges, f)]
           ins == [f \in Scripts(s) |-> FanIn(edges, f)]
           lines == [f \in Diagnosed(s) |-> s.tree[f].lines]
           depths == [f \in untestable |-> s.tree[f].depth]
           churns == [f \in IF s.git THEN Scripts(s) ELSE {} |-> s.tree[f].churn]
           of(signal, value, onset, least) == Numeric(s, edges, signal, value, onset, least)
<1>1. \/ e \in of("fanOut", outs, FanThreshold, FanThreshold)
      \/ e \in of("fanIn", ins, FanThreshold, FanThreshold)
      \/ e \in CycleItems(s)
      \/ e \in of("large", lines, MaxFileLines, MaxFileLines + 1)
      \/ e \in Binary(s, edges, "barrel", {f \in untestable : s.tree[f].barrel})
      \/ e \in of("deep", depths, NestingOnset, NestingOnset)
      \/ e \in UntestedItems(s)
      \/ e \in of("churn", churns, ChurnOnset, ChurnOnset)
      \/ e \in UnresolvedItems(s)
      \/ e \in extractLargeFileEvidence(s)
  BY Zenon DEF Items, extractDeterministicEvidence, CycleItems, UntestedItems, UnresolvedItems,
               Diagnosed
<1>2. Scripts(s) \subseteq File /\ Diagnosed(s) \subseteq File /\ untestable \subseteq File
  BY DEF Scripts, Present, Diagnosed
<1>3. /\ \A f : StrengthAt(s, "fanOut", f) = normalizeAboveThreshold(FanOut(edges, f), FanThreshold)
      /\ \A f : StrengthAt(s, "fanIn", f) = normalizeAboveThreshold(FanIn(edges, f), FanThreshold)
      /\ \A f : StrengthAt(s, "large", f) = normalizeAboveThreshold(s.tree[f].lines, MaxFileLines)
      /\ \A f : StrengthAt(s, "deep", f) = normalizeAboveThreshold(s.tree[f].depth, NestingOnset)
      /\ \A f : StrengthAt(s, "churn", f) = normalizeAboveThreshold(s.tree[f].churn, ChurnOnset)
  BY DEF StrengthAt, BinaryStrength, CountOf, OnsetOf
<1>4. {"fanOut", "fanIn", "large", "deep", "churn"} \subseteq DOMAIN SignalAxis \ {"cycle"}
  BY DEF SignalAxis
<1>5. CASE e \in of("fanOut", outs, FanThreshold, FanThreshold)
  <2>1. DOMAIN outs \subseteq File /\ \A f \in DOMAIN outs : outs[f] = FanOut(edges, f)
    BY <1>2
  <2> HIDE DEF outs
  <2> QED BY <1>3, <1>4, <1>5, <2>1, NumericFormed
<1>6. CASE e \in of("fanIn", ins, FanThreshold, FanThreshold)
  <2>1. DOMAIN ins \subseteq File /\ \A f \in DOMAIN ins : ins[f] = FanIn(edges, f)
    BY <1>2
  <2> HIDE DEF ins
  <2> QED BY <1>3, <1>4, <1>6, <2>1, NumericFormed
<1>7. CASE e \in of("large", lines, MaxFileLines, MaxFileLines + 1)
  <2>1. DOMAIN lines \subseteq File /\ \A f \in DOMAIN lines : lines[f] = s.tree[f].lines
    BY <1>2
  <2> HIDE DEF lines
  <2> QED BY <1>3, <1>4, <1>7, <2>1, NumericFormed
<1>8. CASE e \in of("deep", depths, NestingOnset, NestingOnset)
  <2>1. DOMAIN depths \subseteq File /\ \A f \in DOMAIN depths : depths[f] = s.tree[f].depth
    BY <1>2
  <2> HIDE DEF depths
  <2> QED BY <1>3, <1>4, <1>8, <2>1, NumericFormed
<1>9. CASE e \in of("churn", churns, ChurnOnset, ChurnOnset)
  <2>1. DOMAIN churns \subseteq File /\ \A f \in DOMAIN churns : churns[f] = s.tree[f].churn
    BY <1>2
  <2> HIDE DEF churns
  <2> QED BY <1>3, <1>4, <1>9, <2>1, NumericFormed
<1>10. CASE e \in Binary(s, edges, "barrel", {f \in untestable : s.tree[f].barrel})
  <2>1. {f \in untestable : s.tree[f].barrel} \in SUBSET File
    BY <1>2
  <2> QED BY <1>10, <2>1, BinaryFormed
<1>11. CASE e \in UntestedItems(s)
  <2>1. {f \in untestable : ~isTested(s, edges, f)} \in SUBSET File
    BY <1>2
  <2> QED BY <1>11, <2>1, BinaryFormed DEF UntestedItems
<1> HIDE DEF of, edges
<1> QED BY <1>1, <1>5, <1>6, <1>7, <1>8, <1>9, <1>10, <1>11, CycleFormed, UnresolvedFormed, LargeFileFormed

LEMMA ItemsShaped ==
  ASSUME NEW s, ScriptsImport(s)
  PROVE  Shaped(Items(s))
<1>1. \A e \in Items(s) : Formed(s, e)
  BY ItemsFormed
<1> QED BY <1>1, StrengthType DEF Formed, Shaped

-----------------------------------------------------------------------------
(* Redaction loses nothing that the score depends on.                      *)

LEMMA RedactPathInjective ==
  ASSUME NEW R \in SUBSET File, NEW p \in File \cup {NoFile}, NEW q \in File \cup {NoFile},
         redactString(p, R) = redactString(q, R)
  PROVE  p = q
<1>1. \A f \in File \cup {NoFile} : redactString(f, R) = NoFile <=> f = NoFile
  <2>1. \A f \in File : f \in Int /\ -f \in Int
    BY FileAssumption
  <2>2. NoFile \notin File
    BY <2>1, RedactionAssumption
  <2> QED BY <2>1, <2>2, RedactionAssumption DEF redactString
<1>2. CASE p \in File /\ q \in File
  BY <1>2, RedactInjective
<1>3. CASE p = NoFile \/ q = NoFile
  BY <1>1, <1>3
<1> QED BY <1>2, <1>3

LEMMA RedactAllReflects ==
  ASSUME NEW R \in SUBSET File, NEW S \in SUBSET File, NEW T \in SUBSET File,
         RedactAll(S, R) \subseteq RedactAll(T, R)
  PROVE  S \subseteq T
<1> SUFFICES ASSUME NEW p \in S PROVE p \in T
  OBVIOUS
<1>1. redactString(p, R) \in RedactAll(T, R)
  BY DEF RedactAll
<1>2. PICK q \in T : redactString(q, R) = redactString(p, R)
  BY <1>1 DEF RedactAll
<1> QED BY <1>2, RedactInjective

LEMMA RedactIdInjective ==
  ASSUME NEW R \in SUBSET File, NEW i \in Identity, NEW j \in Identity,
         redactEntityId(i, R) = redactEntityId(j, R)
  PROVE  i = j
<1> DEFINE key(id) == IF id[1] = "cycle" THEN RedactAll(id[3], R) ELSE id[3]
<1>1. /\ i = <<i[1], i[2], i[3]>> /\ j = <<j[1], j[2], j[3]>>
      /\ i[2] \in File /\ j[2] \in File
      /\ (i[1] = "cycle" => i[3] \subseteq File) /\ (j[1] = "cycle" => j[3] \subseteq File)
  BY DEF Identity, Name
<1>2. i[1] = j[1] /\ redactString(i[2], R) = redactString(j[2], R) /\ key(i) = key(j)
  <2>1. <<i[1], redactString(i[2], R), key(i)>> = <<j[1], redactString(j[2], R), key(j)>>
    BY DEF redactEntityId
  <2> HIDE DEF key
  <2> QED BY <2>1
<1>3. i[2] = j[2]
  BY <1>1, <1>2, RedactInjective
<1>4. i[3] = j[3]
  <2>1. CASE i[1] = "cycle"
    <3>1. RedactAll(i[3], R) = RedactAll(j[3], R)
      BY <1>2, <2>1
    <3>2. i[3] \in SUBSET File /\ j[3] \in SUBSET File
      BY <1>1, <1>2, <2>1
    <3>3. i[3] \subseteq j[3] /\ j[3] \subseteq i[3]
      BY <3>1, <3>2, RedactAllReflects
    <3> QED BY <3>3
  <2>2. CASE i[1] # "cycle"
    BY <1>2, <2>2
  <2> QED BY <2>1, <2>2
<1> QED BY <1>1, <1>2, <1>3, <1>4

LEMMA RedactIdsReflects ==
  ASSUME NEW R \in SUBSET File, NEW S \in SUBSET Identity, NEW T \in SUBSET Identity,
         RedactIds(S, R) \subseteq RedactIds(T, R)
  PROVE  S \subseteq T
<1> SUFFICES ASSUME NEW p \in S PROVE p \in T
  OBVIOUS
<1>1. redactEntityId(p, R) \in RedactIds(T, R)
  BY DEF RedactIds
<1>2. PICK q \in T : redactEntityId(q, R) = redactEntityId(p, R)
  BY <1>1 DEF RedactIds
<1> QED BY <1>2, RedactIdInjective

LEMMA KeptInClear ==
  ASSUME NEW R \in SUBSET File, NEW old, NEW items, Shaped(old), Shaped(items),
         \A e \in old \cup items : DOMAIN e = ItemFields,
         Kept(RedactedEvidence(old, R), RedactedEvidence(items, R))
  PROVE  Kept(old, items)
<1>1. \A e \in old \cup items :
        /\ redactEvidence(e, R).id = redactEntityId(e.id, R)
        /\ redactEvidence(e, R).strength = e.strength /\ redactEvidence(e, R).role = e.role
        /\ redactEvidence(e, R).related = RedactAll(e.related, R)
  BY DEF redactEvidence, ItemFields
<1> SUFFICES ASSUME NEW e \in old
             PROVE  \E x \in items : /\ x.id = e.id /\ x.strength >= e.strength
                                     /\ e.related \subseteq x.related /\ x.role = e.role
  BY DEF Kept
<1>2. redactEvidence(e, R) \in RedactedEvidence(old, R)
  BY DEF RedactedEvidence
<1>3. PICK y \in RedactedEvidence(items, R) :
        /\ y.id = redactEvidence(e, R).id /\ y.strength >= redactEvidence(e, R).strength
        /\ redactEvidence(e, R).related \subseteq y.related /\ y.role = redactEvidence(e, R).role
  BY <1>2 DEF Kept
<1>4. PICK x \in items : y = redactEvidence(x, R)
  BY DEF RedactedEvidence
<1>5. /\ redactEntityId(x.id, R) = redactEntityId(e.id, R) /\ x.strength >= e.strength
      /\ RedactAll(e.related, R) \subseteq RedactAll(x.related, R) /\ x.role = e.role
  BY <1>1, <1>3, <1>4
<1>6. /\ x.id \in Identity /\ e.id \in Identity
      /\ x.related \in SUBSET File /\ e.related \in SUBSET File
  BY DEF Shaped
<1>7. x.id = e.id /\ e.related \subseteq x.related
  BY <1>5, <1>6, RedactIdInjective, RedactAllReflects
<1> QED BY <1>5, <1>7

-----------------------------------------------------------------------------
(* Findings.                                                               *)

AdmittedFinding == [fid : Nat, path : File \cup {NoFile}, refs : SUBSET Identity,
             scope : DOMAIN semanticRiskStrength, confidence : 0 .. 100]
RedactedFinding(f, R) ==
  [f EXCEPT !.path = redactString(@, R), !.refs = RedactIds(@, R)]
RedactedFindings(findings, R) == {RedactedFinding(f, R) : f \in findings}

LEMMA RedactFindingInjective ==
  ASSUME NEW R \in SUBSET File, NEW f \in AdmittedFinding, NEW g \in AdmittedFinding,
         RedactedFinding(f, R) = RedactedFinding(g, R)
  PROVE  f = g
<1>1. /\ f = [fid |-> f.fid, path |-> f.path, refs |-> f.refs, scope |-> f.scope,
              confidence |-> f.confidence]
      /\ g = [fid |-> g.fid, path |-> g.path, refs |-> g.refs, scope |-> g.scope,
              confidence |-> g.confidence]
      /\ f.path \in File \cup {NoFile} /\ g.path \in File \cup {NoFile}
      /\ f.refs \in SUBSET Identity /\ g.refs \in SUBSET Identity
  BY DEF AdmittedFinding
<1>2. \A h \in {f, g} :
        /\ RedactedFinding(h, R).fid = h.fid /\ RedactedFinding(h, R).scope = h.scope
        /\ RedactedFinding(h, R).confidence = h.confidence
        /\ RedactedFinding(h, R).path = redactString(h.path, R)
        /\ RedactedFinding(h, R).refs = RedactIds(h.refs, R)
  BY DEF RedactedFinding, AdmittedFinding
<1>3. /\ f.fid = g.fid /\ f.scope = g.scope /\ f.confidence = g.confidence
      /\ redactString(f.path, R) = redactString(g.path, R)
      /\ RedactIds(f.refs, R) = RedactIds(g.refs, R)
  BY <1>2
<1>4. f.path = g.path
  BY <1>1, <1>3, RedactPathInjective
<1>5. f.refs \subseteq g.refs /\ g.refs \subseteq f.refs
  BY <1>1, <1>3, RedactIdsReflects
<1> QED BY <1>1, <1>3, <1>4, <1>5

LEMMA FindingsInClear ==
  ASSUME NEW R \in SUBSET File, NEW S \in SUBSET AdmittedFinding, NEW T \in SUBSET AdmittedFinding,
         RedactedFindings(S, R) = RedactedFindings(T, R)
  PROVE  S = T
<1>1. ASSUME NEW A \in SUBSET AdmittedFinding, NEW B \in SUBSET AdmittedFinding,
             RedactedFindings(A, R) = RedactedFindings(B, R), NEW f \in A
      PROVE  f \in B
  <2>1. RedactedFinding(f, R) \in RedactedFindings(B, R)
    BY <1>1 DEF RedactedFindings
  <2>2. PICK g \in B : RedactedFinding(g, R) = RedactedFinding(f, R)
    BY <2>1 DEF RedactedFindings
  <2> QED BY <2>2, RedactFindingInjective
<1> QED BY <1>1

-----------------------------------------------------------------------------
(* The diagnosis that a report is made of.                                 *)

\* What a diagnosis that is not refused rests on.
DiagnosisOf(s, answer) ==
  [evidence |-> Items(s), capabilities |-> negotiateCapabilities(s),
   semantic |-> answer.status, findings |-> ToSet(answer.findings)]

\* A report in clear.
Reporting(report, s, d) ==
  /\ DOMAIN report = ReportFields /\ report.policy = NoPolicy
  /\ report.evidence = d.evidence /\ report.findings = d.findings
  /\ report.semantic = d.semantic /\ report.capabilities = d.capabilities
  /\ report.score = ScoreOf(s, d) /\ report.axes = axisScores(s, d)
  /\ report.clusters = buildMechanismClusters(capabilityApprovedEvidence(d), EligibleOf(d))

LEMMA DiagnosisReported ==
  ASSUME NEW s, NEW answer, ~runDiagnosis(s, answer).refused
  PROVE  Reporting(runDiagnosis(s, answer), s, DiagnosisOf(s, answer))
<1> DEFINE extracted == extractEvidenceWithPlugins(s)
           duplicate == \E i, j \in DOMAIN answer.findings :
                          i # j /\ answer.findings[i].fid = answer.findings[j].fid
           d == [evidence |-> extracted.evidence, capabilities |-> extracted.capabilities,
                 semantic |-> answer.status, findings |-> ToSet(answer.findings)]
           eligible == {f \in d.findings : isScoreEligibleSemanticFinding(f)}
           axes == axisScores(s, d)
           clusters == buildMechanismClusters(capabilityApprovedEvidence(d), eligible)
           total == scoreRepository(axes, clusters)
           confidence == computeEvidenceConfidence(s, d)
<1>1. ~(extracted.refused \/ duplicate)
  <2>1. Refused.refused
    BY DEF Refused
  <2>2. (extracted.refused \/ duplicate) => runDiagnosis(s, answer) = Refused
    BY Zenon DEF runDiagnosis
  <2> HIDE DEF extracted, duplicate
  <2> QED BY <2>1, <2>2
<1>2. runDiagnosis(s, answer) = assessRisk(s, extracted, answer)
  BY <1>1, Zenon DEF runDiagnosis
<1>3. assessRisk(s, extracted, answer) =
        [refused |-> FALSE, policy |-> NoPolicy,
         evidence |-> d.evidence, findings |-> d.findings, semantic |-> d.semantic,
         capabilities |-> d.capabilities, axes |-> axes, clusters |-> clusters,
         score |-> total, confidence |-> confidence]
  BY Zenon DEF assessRisk
<1>4. extracted.evidence = Items(s) /\ extracted.capabilities = negotiateCapabilities(s)
  <2>1. extracted.evidence = Items(s)
    BY <1>1, ExtractedItems
  <2>2. extracted.capabilities = negotiateCapabilities(s)
    BY DEF extractEvidenceWithPlugins
  <2> QED BY <2>1, <2>2
<1>5. d = DiagnosisOf(s, answer)
  <2> HIDE DEF extracted
  <2> QED BY <1>4 DEF DiagnosisOf
<1>6. /\ total = ScoreOf(s, d) /\ axes = axisScores(s, d)
      /\ clusters = buildMechanismClusters(capabilityApprovedEvidence(d), EligibleOf(d))
  BY DEF ScoreOf, EligibleOf
<1> HIDE DEF extracted, d, axes, clusters, total, confidence
<1>7. Reporting(runDiagnosis(s, answer), s, d)
  BY <1>2, <1>3, <1>6 DEF Reporting, ReportFields
<1> QED BY <1>5, <1>7

LEMMA ReportTold ==
  ASSUME NEW report, NEW s, NEW d, Reporting(report, s, d), NEW R
  PROVE  LET r == redactReport(report, R)
         IN /\ r.score = ScoreOf(s, d) /\ r.evidence = RedactedEvidence(d.evidence, R)
            /\ r.findings = RedactedFindings(d.findings, R)
BY DEF Reporting, redactReport, RedactedEvidence, RedactedFindings, RedactedFinding, ReportFields

LEMMA SupportedSignals ==
  ASSUME NEW s
  PROVE  supportedSignals(negotiateCapabilities(s)) \subseteq DOMAIN SignalAxis
<1>1. \A language : Supported(s, language) \subseteq DOMAIN SignalAxis
  BY DEF Supported, SignalAxis
<1>2. \A c \in negotiateCapabilities(s) : \E language : c.supported = Supported(s, language)
  BY DEF negotiateCapabilities
<1> QED BY <1>1, <1>2 DEF supportedSignals

LEMMA FindingsAdmitted ==
  ASSUME NEW s, ScriptsImport(s), NEW answer \in AnswersTo(s), ~runDiagnosis(s, answer).refused
  PROVE  LET d == DiagnosisOf(s, answer)
         IN /\ Sound(d.findings) /\ d.findings \in SUBSET AdmittedFinding
            /\ \A f \in d.findings : f.refs \subseteq Ids(d.evidence)
<1> DEFINE findings == answer.findings
           F == Finding(s, Items(s))
<1>1. findings \in Seq(F)
  <2> DEFINE extracted == extractEvidenceWithPlugins(s)
  <2>1. ~extracted.refused
    <3>1. Refused.refused
      BY DEF Refused
    <3>2. extracted.refused => runDiagnosis(s, answer) = Refused
      BY Zenon DEF runDiagnosis
    <3> QED BY <3>1, <3>2
  <2>2. extracted.evidence = Items(s)
    BY <2>1, ExtractedItems
  <2>3. findings \in Seq(Finding(s, extracted.evidence))
    BY Zenon DEF AnswersTo
  <2> QED BY <2>2, <2>3
<1>2. ToSet(findings) = {findings[i] : i \in DOMAIN findings}
  BY DEF ToSet
<1> HIDE DEF findings
<1>3. IsFiniteSet(DOMAIN findings) /\ \A i \in DOMAIN findings : findings[i] \in F
  <2>1. Len(findings) \in Nat /\ DOMAIN findings = 1 .. Len(findings)
    BY <1>1
  <2>2. IsFiniteSet(1 .. Len(findings))
    BY <2>1, FS_Interval
  <2> QED BY <1>1, <2>1, <2>2
<1>4. IsFiniteSet(ToSet(findings)) /\ ToSet(findings) \subseteq F
  BY <1>2, <1>3, RangeFinite
<1>5. Ids(Items(s)) \subseteq Identity
  BY ItemsShaped DEF Shaped, Ids
<1>6. \A f \in F : /\ f \in AdmittedFinding /\ f.refs \subseteq Ids(Items(s))
                   /\ f.path \in File \cup {NoFile} /\ f.scope \in DOMAIN semanticRiskStrength
  BY <1>5 DEF Finding, AdmittedFinding, Present
<1>7. \A c \in DOMAIN semanticRiskStrength : semanticRiskStrength[c] \in Nat
  BY DEF semanticRiskStrength
<1> HIDE DEF F
<1>8. Sound(ToSet(findings))
  BY <1>4, <1>6, <1>7 DEF Sound
<1>9. /\ DiagnosisOf(s, answer).findings = ToSet(findings)
      /\ DiagnosisOf(s, answer).evidence = Items(s)
  BY DEF DiagnosisOf, findings
<1> QED BY <1>4, <1>6, <1>8, <1>9

LEMMA ProductsCounted ==
  ASSUME NEW s
  PROVE  Cardinality(Products(s)) \in Nat
<1>1. Products(s) \in SUBSET File
  BY DEF Products, Present
<1> QED BY <1>1, FileAssumption, FS_Subset, FS_CardinalityType

\* Two redacted reports that compare, one of a snapshot that kept the items of the other.
LEMMA ScoresCompared ==
  ASSUME NEW s0, NEW answer0 \in AnswersTo(s0), ScriptsImport(s0), ~runDiagnosis(s0, answer0).refused,
         NEW s, NEW answer \in AnswersTo(s), ScriptsImport(s), ~runDiagnosis(s, answer).refused,
         NEW R \in SUBSET File,
         NEW base, base = redactReport(runDiagnosis(s0, answer0), R),
         NEW current, current = redactReport(runDiagnosis(s, answer), R),
         runDiagnosis(s0, answer0).capabilities = runDiagnosis(s, answer).capabilities,
         runDiagnosis(s0, answer0).semantic = runDiagnosis(s, answer).semantic,
         Kept(base.evidence, current.evidence), current.findings = base.findings,
         Cardinality(Products(s)) \in 1 .. Cardinality(Products(s0))
  PROVE  base.score \in Nat /\ current.score \in Nat /\ base.score <= current.score
<1> DEFINE d0 == DiagnosisOf(s0, answer0)
           d == DiagnosisOf(s, answer)
<1>1. Reporting(runDiagnosis(s0, answer0), s0, d0) /\ Reporting(runDiagnosis(s, answer), s, d)
  BY DiagnosisReported
<1>2. /\ base.score = ScoreOf(s0, d0) /\ base.evidence = RedactedEvidence(d0.evidence, R)
      /\ base.findings = RedactedFindings(d0.findings, R)
      /\ current.score = ScoreOf(s, d) /\ current.evidence = RedactedEvidence(d.evidence, R)
      /\ current.findings = RedactedFindings(d.findings, R)
  <2> HIDE DEF d0, d
  <2> QED BY <1>1, ReportTold
<1>3. /\ Sound(d0.findings) /\ d0.findings \in SUBSET AdmittedFinding
      /\ \A f \in d0.findings : f.refs \subseteq Ids(d0.evidence)
      /\ Sound(d.findings) /\ d.findings \in SUBSET AdmittedFinding
      /\ \A f \in d.findings : f.refs \subseteq Ids(d.evidence)
  BY FindingsAdmitted
<1>4. /\ d0.evidence = Items(s0) /\ d.evidence = Items(s)
      /\ d0.capabilities = negotiateCapabilities(s0) /\ d.capabilities = negotiateCapabilities(s)
  BY DEF DiagnosisOf
<1> HIDE DEF d0, d
<1>5. d0.findings = d.findings
  BY <1>2, <1>3, FindingsInClear
<1>6. Comparable(d0, d)
  BY <1>1, <1>4, <1>5, SupportedSignals DEF Comparable, Reporting
<1>7. Shaped(d0.evidence) /\ Shaped(d.evidence)
  BY <1>4, ItemsShaped
<1>8. \A e \in d0.evidence \cup d.evidence : DOMAIN e = ItemFields
  BY <1>1, ItemsHaveFields, DiagnosisAssessed DEF Assessed, Reporting
<1>9. Kept(d0.evidence, d.evidence)
  BY <1>2, <1>7, <1>8, KeptInClear
<1>10. \A f \in d.findings : f.refs \subseteq Ids(d0.evidence) \cap Ids(d.evidence)
  BY <1>3, <1>5
<1>11. ScoreOf(s0, d0) \in Nat /\ ScoreOf(s, d) \in Nat /\ ScoreOf(s0, d0) <= ScoreOf(s, d)
  BY <1>3, <1>6, <1>7, <1>9, <1>10, ProductsCounted, AddedEvidenceKeepsScore
<1> QED BY <1>2, <1>11

LEMMA DiffTold ==
  ASSUME NEW cur, NEW files, NEW radius, NEW compatible, NEW base, NEW delta, NEW changes, NEW R,
         NEW comparison, comparison = [compatible |-> compatible, base |-> base,
                                       riskDelta |-> delta, changes |-> changes]
  PROVE  LET r == redactDiffReport(DiffOf(cur, files, radius, comparison), R)
         IN /\ r.current = redactReport(cur, R)
            /\ r.comparison.compatible = compatible /\ r.comparison.riskDelta = delta
            /\ r.comparison.base = IF base = NoReport THEN base ELSE redactReport(base, R)
<1> DEFINE d == DiffOf(cur, files, radius, comparison)
<1>1. d = [refused |-> FALSE, policy |-> NoPolicy, current |-> cur, changedFiles |-> files,
           blastRadius |-> radius, comparison |-> comparison]
  BY DEF DiffOf
<1> HIDE DEF d
<1>2. LET r == redactDiffReport(d, R)
      IN /\ r.current = redactReport(cur, R)
         /\ r.comparison.compatible = compatible /\ r.comparison.riskDelta = delta
         /\ r.comparison.base = IF base = NoReport THEN base ELSE redactReport(base, R)
  BY <1>1 DEF redactDiffReport
<1> QED BY <1>2 DEF d

\* What a diff shows that found a baseline to compare with.
LEMMA ComparisonShown ==
  ASSUME ShownInv, NEW r \in Diffs, r.report.comparison.compatible
  PROVE  \E answer0 :
           LET s == Snapshot
               report0 == runDiagnosis(saved, answer0)
               report == runDiagnosis(s, r.answer)
               base == redactReport(report0, s.redact)
               current == redactReport(report, s.redact)
           IN /\ r.snapshot = s /\ s.redact \in SUBSET File /\ Stored(answer0)
              /\ r.answer \in AnswersTo(s) /\ ~report.refused
              /\ report0.capabilities = report.capabilities /\ report0.semantic = report.semantic
              /\ r.report.current = current /\ r.report.comparison.base = base
              /\ r.report.comparison.riskDelta = current.score - base.score
<1> DEFINE s == Snapshot
           report == runDiagnosis(s, r.answer)
           changed == ChangedSince(r.base)
           radius == computeBlastRadius(s, changed)
           compared == compareDiagnosis(s, report, baseline, r.base)
           current == redactReport(report, s.redact)
           changes == compareSignalChanges(current.evidence, baseline.report.evidence)
           delta == current.score - baseline.report.score
           full == DiffOf(report, changed, radius, compared)
           bare == DiffOf(report, {}, <<>>, incompatible)
<1>1. /\ r.snapshot = s /\ r.answer \in AnswersTo(s) /\ s.redact \in SUBSET Configurable
      /\ ~report.refused
      /\ r.report = IF s.git THEN redactDiffReport(full, s.redact)
                    ELSE redactDiffReport(bare, s.redact)
  BY DiffMade, Zenon
<1>2. /\ compared # incompatible => /\ baseline # NoBaseline /\ baseline.policy = s.redact
                                    /\ baseline.context = diagnosisContextFingerprint(s, report)
                                    /\ IsComparison(s, report, compared)
  BY Compared
<1>3. incompatible = [compatible |-> FALSE, base |-> NoReport, riskDelta |-> 0, changes |-> NoChanges]
  BY DEF incompatible
<1> HIDE DEF report, changed, radius, compared, s
<1>4. redactDiffReport(DiffOf(report, {}, <<>>, incompatible), s.redact).comparison.compatible = FALSE
  BY <1>3, DiffTold
<1>5. redactDiffReport(DiffOf(report, changed, radius, incompatible), s.redact).comparison.compatible = FALSE
  BY <1>3, DiffTold
<1>6. compared # incompatible /\ r.report = redactDiffReport(full, s.redact)
  BY <1>1, <1>4, <1>5
<1>7. compared = [compatible |-> TRUE, base |-> baseline.report, riskDelta |-> delta,
                  changes |-> changes]
  BY <1>2, <1>6 DEF IsComparison
<1>8. PICK answer0 : Stored(answer0)
  BY <1>2, <1>6 DEF ShownInv
<1> DEFINE report0 == runDiagnosis(saved, answer0)
<1>9. /\ baseline.policy = saved.redact /\ baseline.report = redactReport(report0, saved.redact)
      /\ baseline.context = diagnosisContextFingerprint(saved, report0)
  <2>1. baseline = baselineEntry(saved, report0)
    BY <1>8 DEF Stored
  <2> HIDE DEF report0
  <2> QED BY <2>1 DEF baselineEntry
<1>10. report0.capabilities = report.capabilities /\ report0.semantic = report.semantic
  <2> HIDE DEF report0
  <2>1. diagnosisContextFingerprint(saved, report0) = diagnosisContextFingerprint(s, report)
    BY <1>2, <1>6, <1>9
  <2> QED BY <2>1 DEF diagnosisContextFingerprint
<1>11. baseline.report = redactReport(report0, s.redact)
  BY <1>2, <1>6, <1>9
<1>12. redactReport(baseline.report, s.redact) = baseline.report
  <2>1. baseline.report.policy # NoPolicy
    BY <1>8, StoredReport
  <2> QED BY <2>1, RedactedOnce
<1> HIDE DEF delta, changes, current, full
<1>13. /\ r.report.current = current
       /\ r.report.comparison.base =
            IF baseline.report = NoReport THEN baseline.report
            ELSE redactReport(baseline.report, s.redact)
       /\ r.report.comparison.riskDelta = delta
  BY <1>6, <1>7, DiffTold DEF full, current
<1>14. r.report.comparison.base = baseline.report
  BY <1>12, <1>13
<1>15. s.redact \in SUBSET File
  BY <1>1, PolicyAssumption
<1> HIDE DEF report0
<1> QED BY <1>1, <1>8, <1>10, <1>11, <1>13, <1>14, <1>15, Zenon
        DEF s, report, report0, current, delta

(***************************************************************************)
(* The score that a diff shows does not fall without a reason, whatever is *)
(* redacted in it (score.ts, clusters.ts, compare.ts, redaction.ts): the   *)
(* stored report is the redacted diagnosis of a snapshot, and redaction    *)
(* loses nothing that the score depends on.                                *)
(***************************************************************************)
THEOREM ScoreHolds == Spec => []ScoreDropHasAReason
<1>1. ShownInv => ScoreDropHasAReason
  <2> SUFFICES ASSUME ShownInv, NEW r \in Diffs, r.report.comparison.compatible,
                      Kept(r.report.comparison.base.evidence, r.report.current.evidence),
                      Cardinality(Products(r.snapshot)) \in 1 .. Cardinality(Products(saved)),
                      r.report.current.findings = r.report.comparison.base.findings
               PROVE  r.report.comparison.riskDelta >= 0
    BY Zenon DEF ScoreDropHasAReason, Kept
  <2> DEFINE s == Snapshot
             report == runDiagnosis(s, r.answer)
             base == r.report.comparison.base
             current == r.report.current
  <2>1. PICK answer0 :
          /\ r.snapshot = s /\ s.redact \in SUBSET File /\ Stored(answer0)
          /\ r.answer \in AnswersTo(s) /\ ~report.refused
          /\ runDiagnosis(saved, answer0).capabilities = report.capabilities
          /\ runDiagnosis(saved, answer0).semantic = report.semantic
          /\ current = redactReport(report, s.redact)
          /\ base = redactReport(runDiagnosis(saved, answer0), s.redact)
          /\ r.report.comparison.riskDelta =
               redactReport(report, s.redact).score
                 - redactReport(runDiagnosis(saved, answer0), s.redact).score
    BY ComparisonShown, Zenon
  <2>2. /\ ScriptsImport(saved) /\ answer0 \in AnswersTo(saved)
        /\ ~runDiagnosis(saved, answer0).refused
    BY <2>1 DEF Stored
  <2>3. ScriptsImport(s)
    BY SnapshotScriptsImport DEF ShownInv
  <2>4. /\ Kept(base.evidence, current.evidence) /\ current.findings = base.findings
        /\ Cardinality(Products(s)) \in 1 .. Cardinality(Products(saved))
    BY <2>1
  <2> HIDE DEF s, base, current
  <2>5. base.score \in Nat /\ current.score \in Nat /\ base.score <= current.score
    BY <2>1, <2>2, <2>3, <2>4, ScoresCompared
  <2>6. r.report.comparison.riskDelta = current.score - base.score
    BY <2>1
  <2> QED BY <2>5, <2>6
<1> QED BY <1>1, ShownHolds, PTL

-----------------------------------------------------------------------------
(* What a score can be.                                                    *)

LEMMA SumOfEqual ==
  ASSUME NEW S, IsFiniteSet(S), NEW f, NEW c \in Nat, \A x \in S : f[x] = c
  PROVE  SumFunctionOnSet(f, S) = c * Cardinality(S)
<1> DEFINE D == {U \in SUBSET S : SumFunctionOnSet(f, U) # c * Cardinality(U)}
<1>1. SUFFICES ASSUME D # {} PROVE FALSE
  BY FS_CardinalityType
<1>2. PICK U \in D : \A V \in D : V \subseteq U => V = U
  <2>1. D \in SUBSET SUBSET S
    OBVIOUS
  <2> HIDE DEF D
  <2> QED BY <1>1, <2>1, MinimalSet
<1>3. U \in SUBSET S /\ IsFiniteSet(U) /\ Cardinality(U) \in Nat
  BY FS_Subset, FS_CardinalityType
<1>4. U # {}
  <2>1. SumFunctionOnSet(f, {}) = 0 /\ Cardinality({}) = 0
    BY SumEmpty, FS_EmptySet
  <2> QED BY <2>1
<1>5. PICK x \in U : TRUE
  BY <1>4
<1>6. SumFunctionOnSet(f, U) = f[x] + SumFunctionOnSet(f, U \ {x})
  <2>1. \A y \in U : f[y] \in Int
    BY <1>3
  <2> QED BY <1>3, <2>1, SumRemove
<1>7. U \ {x} \notin D /\ U \ {x} \in SUBSET S
  BY <1>2, <1>3
<1>8. SumFunctionOnSet(f, U \ {x}) = c * Cardinality(U \ {x})
  BY <1>7
<1>9. Cardinality(U \ {x}) = Cardinality(U) - 1
  BY <1>3, FS_RemoveElement
<1>10. f[x] = c
  BY <1>3
<1> DEFINE k == Cardinality(U)
<1>11. c + c * (k - 1) = c * k
  BY <1>3
<1> QED BY <1>6, <1>8, <1>9, <1>10, <1>11

\* Strengths as the evidence and the findings have them.
Capped(S) == \A x \in S : x[2] <= 100

LEMMA NthCapped ==
  ASSUME NEW S, Strengths(S), Capped(S), NEW k
  PROVE  NthStrength(S, k) \in 0 .. 100
<1>1. Kth(S, k) \in SUBSET Nat /\ IsFiniteSet(Kth(S, k)) /\ NthStrength(S, k) = Greatest(Kth(S, k))
  BY KthFinite
<1>2. \A n \in Kth(S, k) : n <= 100
  BY DEF Kth, Capped
<1>3. CASE Kth(S, k) = {}
  BY <1>1, <1>3 DEF Greatest
<1>4. CASE Kth(S, k) # {}
  BY <1>1, <1>2, <1>4, GreatestOf
<1> QED BY <1>3, <1>4

\* The weights are tenths of one.
LEMMA PeakCapped ==
  ASSUME NEW S, Strengths(S), Capped(S), NEW weights \in {AxisPeakWeights, ClusterPeakWeights}
  PROVE  weightedPeak(S, weights) \in 0 .. 1000
<1>1. /\ DOMAIN weights = {1, 2, 3} /\ weights[1] + weights[2] + weights[3] = 10
      /\ weights[1] \in Nat /\ weights[2] \in Nat /\ weights[3] \in Nat
  <2>1. DOMAIN weights = 1 .. 3 /\ weights[1] + weights[2] + weights[3] = 10
        /\ weights[1] \in Nat /\ weights[2] \in Nat /\ weights[3] \in Nat
    BY DEF AxisPeakWeights, ClusterPeakWeights
  <2>2. 1 .. 3 = {1, 2, 3}
    OBVIOUS
  <2> QED BY <2>1, <2>2
<1> DEFINE f == [k \in DOMAIN weights |-> weights[k] * NthStrength(S, k)]
<1>2. \A k : NthStrength(S, k) \in 0 .. 100
  BY NthCapped
<1>3. weightedPeak(S, weights) = SumFunctionOnSet(f, {1, 2, 3})
  <2>1. DOMAIN f = {1, 2, 3}
    BY <1>1
  <2> QED BY <2>1 DEF weightedPeak, SumFunction
<1>4. /\ f[1] = weights[1] * NthStrength(S, 1) /\ f[2] = weights[2] * NthStrength(S, 2)
      /\ f[3] = weights[3] * NthStrength(S, 3)
  BY <1>1
<1> HIDE DEF f
<1>5. ASSUME NEW w \in Nat, NEW n \in 0 .. 100 PROVE w * n \in Nat /\ w * n <= 100 * w
  <2>1. n * w <= 100 * w
    BY TimesMonotonic
  <2> QED BY <2>1
<1>6. /\ f[1] \in Nat /\ f[1] <= 100 * weights[1] /\ f[2] \in Nat /\ f[2] <= 100 * weights[2]
      /\ f[3] \in Nat /\ f[3] <= 100 * weights[3]
  BY <1>1, <1>2, <1>4, <1>5
<1>7. SumFunctionOnSet(f, {1, 2, 3}) = f[1] + (f[2] + (f[3] + 0))
  <2>1. IsFiniteSet({3}) /\ IsFiniteSet({2, 3}) /\ IsFiniteSet({1, 2, 3})
    <3>1. IsFiniteSet({3})
      BY FS_Singleton
    <3>2. IsFiniteSet({3} \cup {2})
      BY <3>1, FS_AddElement
    <3>3. IsFiniteSet({3} \cup {2} \cup {1})
      BY <3>2, FS_AddElement
    <3>4. {3} \cup {2} = {2, 3} /\ {3} \cup {2} \cup {1} = {1, 2, 3}
      OBVIOUS
    <3> QED BY <3>1, <3>2, <3>3, <3>4
  <2>2. \A x \in {1, 2, 3} : f[x] \in Int
    BY <1>6
  <2>3. {1, 2, 3} \ {1} = {2, 3} /\ {2, 3} \ {2} = {3} /\ {3} \ {3} = {}
    OBVIOUS
  <2>4. SumFunctionOnSet(f, {1, 2, 3}) = f[1] + SumFunctionOnSet(f, {1, 2, 3} \ {1})
    BY <2>1, <2>2, SumRemove
  <2>5. SumFunctionOnSet(f, {2, 3}) = f[2] + SumFunctionOnSet(f, {2, 3} \ {2})
    BY <2>1, <2>2, SumRemove
  <2>6. SumFunctionOnSet(f, {3}) = f[3] + SumFunctionOnSet(f, {3} \ {3})
    BY <2>1, <2>2, SumRemove
  <2>7. SumFunctionOnSet(f, {}) = 0
    BY SumEmpty
  <2> QED BY <2>3, <2>4, <2>5, <2>6, <2>7
<1> DEFINE a == f[1]
           b == f[2]
           c == f[3]
           u == weights[1]
           v == weights[2]
           w == weights[3]
<1>8. /\ a \in Nat /\ b \in Nat /\ c \in Nat /\ a <= 100 * u /\ b <= 100 * v /\ c <= 100 * w
      /\ u \in Nat /\ v \in Nat /\ w \in Nat /\ u + v + w = 10
      /\ weightedPeak(S, weights) = a + (b + (c + 0))
  BY <1>1, <1>3, <1>6, <1>7
<1> HIDE DEF a, b, c, u, v, w
<1> QED BY <1>8

LEMMA RoundedCapped ==
  ASSUME NEW x \in Nat, NEW y \in Nat \ {0}, x <= 100 * y
  PROVE  Rounded(x, y) \in 0 .. 100
<1>1. x * 1 <= 100 * y
  OBVIOUS
<1>2. Rounded(x, y) <= Rounded(100, 1) /\ Rounded(x, y) \in Nat
  BY <1>1, RoundedMonotonic
<1>3. Rounded(100, 1) = 100
  BY DEF Rounded
<1> QED BY <1>2, <1>3

\* A strength is at most 25 and one for each of the 75 bounds.
LEMMA StrengthCapped ==
  ASSUME NEW s, NEW signal, NEW f
  PROVE  StrengthAt(s, signal, f) <= 100
<1>1. \A b \in DOMAIN BinaryStrength : BinaryStrength[b] <= 100
  BY DEF BinaryStrength
<1>2. ASSUME NEW value, NEW onset PROVE normalizeAboveThreshold(value, onset) <= 100
  <2> DEFINE S == {n \in DOMAIN LogBounds : LogBounds[n] * onset <= 1000 * value}
  <2>1. DOMAIN LogBounds = 1 .. 75
    BY DEF LogBounds
  <2>2. \A n \in Nat : IsFiniteSet(1 .. n) /\ Cardinality(1 .. n) = n
    BY FS_Interval
  <2> DEFINE all == 1 .. 75
  <2>3. S \in SUBSET all
    BY <2>1
  <2>4. IsFiniteSet(all) /\ Cardinality(all) = 75
    BY <2>2
  <2> HIDE DEF S, all
  <2>6. IsFiniteSet(S) /\ Cardinality(S) <= Cardinality(all)
    BY <2>3, <2>4, FS_Subset
  <2>7. Cardinality(S) \in Nat /\ Cardinality(S) <= 75
    BY <2>4, <2>6, FS_CardinalityType
  <2>5. normalizeAboveThreshold(value, onset) = IF value < onset THEN 0 ELSE 25 + Cardinality(S)
    BY Zenon DEF normalizeAboveThreshold, Quantify, S
  <2> QED BY <2>5, <2>7
<1> QED BY <1>1, <1>2 DEF StrengthAt

LEMMA AxisScoreCapped ==
  ASSUME NEW p \in 0 .. 1000, NEW b \in Nat, NEW d \in Nat, NEW n \in Nat \ {0}, NEW m \in Nat \ {0},
         b <= 100 * n, d <= m
  PROVE  AxisScore(p, b, d, n, m) \in 0 .. 100
<1> DEFINE x == 65 * p * n * m + 250 * b * m + 10000 * d * n
           y == 1000 * n * m
           t == n * m
           i == p * t
           j == b * m
           k == d * n
<1>1. t \in Nat \ {0} /\ i \in Nat /\ j \in Nat /\ k \in Nat
  OBVIOUS
<1>2. x = 65 * i + 250 * j + 10000 * k /\ y = 1000 * t
  OBVIOUS
<1>3. i <= 1000 * t /\ j <= 100 * t /\ k <= t
  <2>1. p * t <= 1000 * t
    <3> HIDE DEF t
    <3> QED BY <1>1, TimesMonotonic
  <2>2. b * m <= (100 * n) * m
    <3>1. 100 * n \in Nat
      OBVIOUS
    <3> QED BY <3>1, TimesMonotonic
  <2>3. d * n <= m * n
    BY TimesMonotonic
  <2>4. (100 * n) * m = 100 * t /\ m * n = t
    OBVIOUS
  <2> QED BY <2>1, <2>2, <2>3, <2>4
<1>4. AxisScore(p, b, d, n, m) = Rounded(x, y)
  BY DEF AxisScore
<1> HIDE DEF x, y, t, i, j, k
<1>5. x \in Nat /\ y \in Nat \ {0} /\ x <= 100 * y
  BY <1>1, <1>2, <1>3
<1> QED BY <1>4, <1>5, RoundedCapped

Graded(items) == \A e \in items : e.strength <= 100
Mild(findings) == \A f \in findings : semanticRiskStrength[f.scope] <= 100

LEMMA PeakOfPairs ==
  ASSUME NEW items, Shaped(items), Graded(items)
  PROVE  Strengths(Pairs(items)) /\ Capped(Pairs(items))
<1>1. Capped(Pairs(items))
  BY DEF Capped, Pairs, Graded
<1> QED BY <1>1, PairsFinite

LEMMA AxisCapped ==
  ASSUME NEW items, Shaped(items), Graded(items), NEW findings, Rated(findings), Mild(findings),
         NEW axis, NEW n \in Nat, NEW evaluable, IsFiniteSet(evaluable)
  PROVE  scoreAxis(axis, items, findings, n, evaluable) \in 0 .. 100
<1> DEFINE k == IF n = 0 THEN 1 ELSE n
           m == IF evaluable = {} THEN 1 ELSE Cardinality(evaluable)
           a == Cardinality(Touched(items, findings))
           b == IF n = 0 THEN 0 ELSE Min({100 * k, 200 * a})
           d == Diversity(items, findings, evaluable)
           p == Peak(items, findings)
<1>1. scoreAxis(axis, items, findings, n, evaluable) = AxisScore(p, b, d, k, m)
  BY Zenon DEF scoreAxis, computeBreadth, AxisScore, Peak, Diversity, Bearers, Touched, Observed,
               Counted, Pairs, FindingPairs, FindingPair
<1>2. k \in Nat \ {0}
  OBVIOUS
<1>3. Cardinality(evaluable) \in Nat /\ (Cardinality(evaluable) = 0 <=> evaluable = {})
  BY FS_CardinalityType, FS_EmptySet
<1>4. m \in Nat \ {0}
  BY <1>3
<1>5. p \in 0 .. 1000
  <2> DEFINE S == Bearers(items, findings)
  <2>1. Strengths(S)
    BY BearersFinite
  <2>2. Capped(S)
    <3>1. Counted(items) \in SUBSET items
      BY CountedItems
    <3> HIDE DEF S
    <3>2. \A x \in Pairs(Counted(items)) : x[2] <= 100
      BY <3>1 DEF Pairs, Graded
    <3>3. \A x \in FindingPairs(findings) : x[2] <= 100
      BY DEF FindingPairs, FindingPair, Mild
    <3> QED BY <3>2, <3>3 DEF Capped, Bearers, S
  <2> HIDE DEF S
  <2> QED BY <2>1, <2>2, PeakCapped DEF Peak, S
<1>6. Kept(items, items)
  BY DEF Kept, Shaped
<1>7. b \in Nat /\ b <= 100 * k
  <2>1. a \in Nat
    BY <1>6, TouchedKept
  <2> HIDE DEF a, k
  <2>2. 100 * k \in Nat /\ 200 * a \in Nat
    BY <1>2, <2>1
  <2>3. \E x \in {100 * k, 200 * a} : \A y \in {100 * k, 200 * a} : x <= y
    BY <2>2
  <2>4. Min({100 * k, 200 * a}) \in {100 * k, 200 * a} /\ Min({100 * k, 200 * a}) <= 100 * k
    BY <2>3 DEF Min
  <2> QED BY <2>2, <2>4
<1>8. d \in Nat /\ d <= m
  <2> DEFINE S == Observed(items, findings) \cap evaluable
  <2>1. S \in SUBSET evaluable
    OBVIOUS
  <2>2. d = Cardinality(S)
    BY DEF Diversity
  <2> HIDE DEF S, d
  <2>3. IsFiniteSet(S) /\ Cardinality(S) <= Cardinality(evaluable)
    BY <2>1, FS_Subset
  <2>4. Cardinality(S) \in Nat
    BY <2>3, FS_CardinalityType
  <2> QED BY <1>3, <2>2, <2>3, <2>4
<1> HIDE DEF k, m, b, d, p
<1>9. AxisScore(p, b, d, k, m) \in 0 .. 100
  BY <1>2, <1>4, <1>5, <1>7, <1>8, AxisScoreCapped
<1> QED BY <1>1, <1>9

LEMMA ClusterCapped ==
  ASSUME NEW S, Strengths(S), Capped(S)
  PROVE  Rounded(weightedPeak(S, ClusterPeakWeights), 10) \in 0 .. 100
<1>1. weightedPeak(S, ClusterPeakWeights) \in 0 .. 1000
  BY PeakCapped
<1> DEFINE x == weightedPeak(S, ClusterPeakWeights)
<1>2. x \in Nat /\ x <= 100 * 10 /\ 10 \in Nat \ {0}
  BY <1>1
<1> HIDE DEF x
<1>3. Rounded(x, 10) \in 0 .. 100
  BY <1>2, RoundedCapped
<1> QED BY <1>3 DEF x

LEMMA ClustersCapped ==
  ASSUME NEW approved, Shaped(approved), Graded(approved), NEW findings, Rated(findings), Mild(findings)
  PROVE  ScoresOf(buildMechanismClusters(approved, findings)) \in SUBSET (0 .. 100)
<1> DEFINE items == productEvidence(approved)
<1>1. \A part \in SUBSET approved : Shaped(part) /\ Graded(part)
  BY ShapedPart DEF Graded
<1>2. items \in SUBSET approved
  BY DEF productEvidence
<1> HIDE DEF items
<1>3. ASSUME NEW m, NEW path PROVE ItemScore(items, m, path) \in 0 .. 100
  <2> DEFINE part == At(OfMechanism(items, m), Component(OfMechanism(items, m), path))
  <2>1. part \in SUBSET approved
    BY <1>2 DEF At, OfMechanism
  <2>2. ItemScore(items, m, path) = Rounded(weightedPeak(Pairs(part), ClusterPeakWeights), 10)
    BY DEF ItemScore, ClusterScore
  <2> HIDE DEF part
  <2>3. Strengths(Pairs(part)) /\ Capped(Pairs(part))
    BY <1>1, <2>1, PeakOfPairs
  <2> QED BY <2>2, <2>3, ClusterCapped
<1>4. ASSUME NEW f \in findings PROVE FindingScore(approved, findings, f) \in 0 .. 100
  <2> DEFINE group == {g \in findings : findingPaths(approved, g) = findingPaths(approved, f)}
             pair == [g \in group |-> <<g.fid, semanticRiskStrength[g.scope]>>]
             S == {pair[g] : g \in DOMAIN pair}
  <2>1. group \in SUBSET findings /\ DOMAIN pair = group
    OBVIOUS
  <2>2. FindingScore(approved, findings, f) = Rounded(weightedPeak(S, ClusterPeakWeights), 10)
    <3>1. S = {<<g.fid, semanticRiskStrength[g.scope]>> : g \in group}
      OBVIOUS
    <3> HIDE DEF S, pair
    <3> QED BY <3>1 DEF FindingScore, FindingScores
  <2>3. \A x \in S : x[2] \in Nat /\ x[2] <= 100
    <3>1. \A g \in group : semanticRiskStrength[g.scope] \in Nat /\ semanticRiskStrength[g.scope] <= 100
      BY DEF Rated, Mild
    <3> QED BY <3>1
  <2>4. IsFiniteSet(S)
    <3>1. IsFiniteSet(group)
      <4> HIDE DEF group
      <4> QED BY <2>1, FS_Subset DEF Rated
    <3> HIDE DEF pair, group
    <3> QED BY <2>1, <3>1, RangeFinite
  <2> HIDE DEF S
  <2> QED BY <2>2, <2>3, <2>4, ClusterCapped DEF Strengths, Capped
<1>5. ScoresOf(buildMechanismClusters(approved, findings)) =
        {ItemScore(items, Mechanism(e.signal), e.path) : e \in items}
          \cup {FindingScore(approved, findings, f) : f \in findings}
  BY ClusterScores DEF items
<1>6. \A n \in ScoresOf(buildMechanismClusters(approved, findings)) : n \in 0 .. 100
  BY <1>3, <1>4, <1>5
<1> QED BY <1>6

LEMMA RepositoryCapped ==
  ASSUME NEW axes, NEW D, IsFiniteSet(D), DOMAIN axes = D, \A a \in D : axes[a] \in 0 .. 100,
         NEW clusters, ScoresOf(clusters) \in SUBSET (0 .. 100), IsFiniteSet(ScoresOf(clusters))
  PROVE  scoreRepository(axes, clusters) \in 0 .. 100
<1> DEFINE sum == SumFunctionOnSet(axes, D)
           k == Cardinality(D)
           worst == Greatest(ScoresOf(clusters))
           excess == Greatest({0, k * worst - sum})
<1>1. k \in Nat
  BY FS_CardinalityType
<1>2. sum \in Nat /\ sum <= 100 * k
  <2> DEFINE most == [a \in D |-> 100]
  <2>1. sum \in Nat
    BY SumType
  <2>2. \A a \in D : axes[a] \in Int /\ most[a] \in Int /\ axes[a] <= most[a] /\ most[a] = 100
    OBVIOUS
  <2> HIDE DEF most
  <2>3. sum <= SumFunctionOnSet(most, D)
    BY <2>2, SumMonotonic
  <2>4. SumFunctionOnSet(most, D) = 100 * k
    BY <2>2, SumOfEqual
  <2> QED BY <2>1, <2>3, <2>4
<1>3. worst \in 0 .. 100
  <2> DEFINE S == ScoresOf(clusters)
  <2>1. S \in SUBSET Nat /\ IsFiniteSet(S) /\ \A n \in S : n <= 100
    OBVIOUS
  <2> HIDE DEF S
  <2>2. Greatest(S) \in Nat /\ (S # {} => Greatest(S) \in S)
    BY <2>1, GreatestOf
  <2>3. S = {} => Greatest(S) = 0
    BY DEF Greatest
  <2> QED BY <2>1, <2>2, <2>3 DEF S
<1>4. scoreRepository(axes, clusters) = IF k = 0 THEN 0 ELSE Rounded(10 * sum + 3 * excess, 10 * k)
  BY DEF scoreRepository, SumFunction, ScoresOf
<1> HIDE DEF sum, k, worst
<1>5. excess \in Nat /\ excess <= 100 * k - sum
  <2> DEFINE e == k * worst
  <2>1. e \in Nat /\ e <= 100 * k
    <3>1. worst * k <= 100 * k
      BY <1>1, <1>3, TimesMonotonic
    <3> QED BY <1>1, <1>3, <3>1
  <2> HIDE DEF e
  <2>2. \E x \in {0, e - sum} : \A y \in {0, e - sum} : x >= y
    BY <1>2, <2>1
  <2>3. Max({0, e - sum}) \in {0, e - sum} /\ Max({0, e - sum}) >= 0
    BY <2>2 DEF Max
  <2>4. excess = Max({0, e - sum})
    BY DEF Greatest, e
  <2> HIDE DEF excess
  <2> QED BY <1>1, <1>2, <2>1, <2>3, <2>4
<1> HIDE DEF excess
<1>6. CASE k = 0
  BY <1>4, <1>6
<1>7. CASE k # 0
  <2> DEFINE x == 10 * sum + 3 * excess
             y == 10 * k
  <2>1. x \in Nat /\ y \in Nat \ {0} /\ x <= 100 * y
    BY <1>1, <1>2, <1>5, <1>7
  <2> HIDE DEF x, y
  <2>2. Rounded(x, y) \in 0 .. 100
    BY <2>1, RoundedCapped
  <2> QED BY <1>4, <1>7, <2>2 DEF x, y
<1> QED BY <1>6, <1>7

LEMMA DiagnosisInRange ==
  ASSUME NEW s, ScriptsImport(s), NEW answer \in AnswersTo(s), ~runDiagnosis(s, answer).refused
  PROVE  InRange(runDiagnosis(s, answer))
<1> DEFINE d == DiagnosisOf(s, answer)
           report == runDiagnosis(s, answer)
           approved == capabilityApprovedEvidence(d)
           findings == EligibleOf(d)
           n == Cardinality(Products(s))
           clusters == buildMechanismClusters(approved, findings)
           part(a) == {e \in approved : SignalAxis[e.signal] = a}
           told(a) == IF a = "semantic" THEN findings ELSE {}
           mechanisms(a) == evaluableMechanisms(a, d.capabilities)
<1>1. Reporting(report, s, d)
  BY DiagnosisReported
<1>2. Sound(d.findings) /\ d.findings \in SUBSET AdmittedFinding
  BY FindingsAdmitted
<1>3. d.evidence = Items(s) /\ d.capabilities = negotiateCapabilities(s)
  BY DEF DiagnosisOf
<1> HIDE DEF d, report
<1>4. Shaped(d.evidence) /\ Graded(d.evidence)
  <2>1. \A e \in Items(s) : Formed(s, e)
    BY ItemsFormed
  <2> QED BY <1>3, <2>1, ItemsShaped, StrengthCapped DEF Formed, Graded
<1>5. Shaped(approved) /\ Graded(approved)
  <2>1. approved \in SUBSET d.evidence
    BY DEF capabilityApprovedEvidence
  <2> HIDE DEF approved
  <2> QED BY <1>4, <2>1, ShapedPart DEF Graded
<1>6. Rated(findings) /\ Mild(findings)
  <2>1. \A c \in DOMAIN semanticRiskStrength : semanticRiskStrength[c] <= 100
    BY DEF semanticRiskStrength
  <2>2. \A f \in d.findings : f.scope \in DOMAIN semanticRiskStrength
    BY <1>2 DEF AdmittedFinding
  <2> QED BY <1>2, <2>1, <2>2, EligibleRated DEF Mild, EligibleOf
<1>7. n \in Nat
  BY ProductsCounted
<1>8. axisScores(s, d) = [a \in evaluatedAxes(d) |->
                            scoreAxis(a, part(a), told(a), n, mechanisms(a))]
  BY Zenon DEF axisScores, EligibleOf
<1>9. ASSUME NEW a
      PROVE  /\ Shaped(part(a)) /\ Graded(part(a)) /\ Rated(told(a)) /\ Mild(told(a))
             /\ IsFiniteSet(mechanisms(a))
  <2>1. part(a) \in SUBSET approved
    OBVIOUS
  <2>2. Rated({}) /\ Mild({})
    BY FS_EmptySet DEF Rated, Mild
  <2>3. Rated(told(a)) /\ Mild(told(a))
    BY <1>6, <2>2
  <2>4. IsFiniteSet(mechanisms(a))
    BY <1>3, SupportedSignals, EvaluableFinite
  <2> HIDE DEF part, told, approved
  <2>5. Shaped(part(a)) /\ Graded(part(a))
    BY <1>5, <2>1, ShapedPart DEF Graded
  <2> QED BY <2>3, <2>4, <2>5
<1> HIDE DEF approved, findings, n, part, told, mechanisms
<1>10. ASSUME NEW a PROVE scoreAxis(a, part(a), told(a), n, mechanisms(a)) \in 0 .. 100
  BY <1>7, <1>9, AxisCapped
<1>11. /\ DOMAIN axisScores(s, d) = evaluatedAxes(d)
       /\ \A a \in evaluatedAxes(d) : axisScores(s, d)[a] \in 0 .. 100
  BY <1>8, <1>10
<1>12. ScoresOf(clusters) \in SUBSET (0 .. 100) /\ IsFiniteSet(ScoresOf(clusters))
  BY <1>5, <1>6, ClustersCapped, ScoresFinite
<1> DEFINE axes == axisScores(s, d)
<1> HIDE DEF axes, clusters
<1>13. scoreRepository(axes, clusters) \in 0 .. 100
  <2> DEFINE D == evaluatedAxes(d)
  <2>1. IsFiniteSet(D) /\ DOMAIN axes = D /\ \A a \in D : axes[a] \in 0 .. 100
    BY <1>11, AxesFinite DEF axes
  <2> HIDE DEF D
  <2> QED BY <1>12, <2>1, RepositoryCapped
<1>14. report.score = scoreRepository(axes, clusters) /\ report.axes = axes
       /\ report.clusters = clusters
  BY <1>1, Zenon DEF Reporting, ScoreOf, axes, clusters, approved, findings
<1>15. \A c \in clusters : c.score \in 0 .. 100
  BY <1>12 DEF ScoresOf
<1> QED BY <1>11, <1>13, <1>14, <1>15 DEF InRange, axes, report

\* The gate is the record that keeps the score it is to decide on.
GateScored == "score" \in DOMAIN gate /\ gate.score \in 0 .. 100

(***************************************************************************)
(* The scores of a report, of its axes and of its clusters, and the score  *)
(* that a gate decides on, are between 0 and 100 (report.v1.ts bounds them *)
(* where score.ts and clusters.ts compute them with no final clamp).       *)
(***************************************************************************)
THEOREM ScoresInRange == Spec => []ScoresFitSchema
<1>1. Init => GateScored
  <2> SUFFICES ASSUME Init PROVE GateScored
    OBVIOUS
  <2>1. PICK golden \in BOOLEAN : gate = GateIdle(golden)
    BY DEF Init
  <2>2. "score" \in DOMAIN gate /\ gate.score = 0
    BY <2>1 DEF GateIdle
  <2> QED BY <2>2 DEF GateScored
<1>2. ShownInv /\ GateScored /\ [Next]_vars => GateScored'
  <2> SUFFICES ASSUME ShownInv, GateScored, [Next]_vars
               PROVE  GateScored'
    OBVIOUS
  <2>1. CASE GateDiagnose /\ ~GateFails
    <3> DEFINE loads == loadCalibration(calibration, FALSE, policy.required).records = {}
               step  == IF loads THEN "load" ELSE "quality"
    <3>1. PICK answer \in AnswersTo(Snapshot) :
            LET report == runDiagnosis(Snapshot, answer)
            IN /\ ~report.refused
               /\ gate' = [gate EXCEPT !.score = report.score, !.confidence = report.confidence,
                             !.reported = policy, !.pc = step, !.quality = "uncalibrated"]
      BY <2>1, Zenon DEF GateDiagnose
    <3> DEFINE report == runDiagnosis(Snapshot, answer)
    <3>2. ~report.refused /\ report.score \in 0 .. 100
      <4>1. ScriptsImport(Snapshot)
        BY SnapshotScriptsImport DEF ShownInv
      <4> QED BY <3>1, <4>1, DiagnosisInRange DEF InRange
    <3>3. gate' = [gate EXCEPT !.score = report.score, !.confidence = report.confidence,
                     !.reported = policy, !.pc = step, !.quality = "uncalibrated"]
      BY <3>1, Zenon
    <3> HIDE DEF report, step
    <3> QED BY <3>2, <3>3 DEF GateScored
  <2>2. CASE gate' = gate
    BY <2>2 DEF GateScored
  <2>3. CASE GateQuality /\ ~GateFails
    <3> DEFINE quality == summarizeCalibrationQuality(
                            loadCalibration(calibration, gate.golden, gate.reported.required))
    <3>1. gate' = [gate EXCEPT !.pc = "load", !.quality = quality]
      BY <2>3, Zenon DEF GateQuality
    <3> HIDE DEF quality
    <3> QED BY <3>1 DEF GateScored
  <2>4. CASE GateEvaluate /\ ~GateFails
    <3> DEFINE verdict == evaluatePolicy(gate.score, gate.confidence, gate.policy,
                   loadCalibration(calibration, gate.golden, gate.policy.required).gateEligible)
    <3>1. gate' = [gate EXCEPT !.pc = "done", !.loaded = calibration, !.evaluation = verdict]
      BY <2>4, Zenon DEF GateEvaluate
    <3> HIDE DEF verdict
    <3> QED BY <3>1 DEF GateScored
  <2>5. CASE RewritePolicy \/ Recalibrate
    <3>1. PICK calm : gate' = [gate EXCEPT !.undisturbed = calm]
      BY <2>5, Zenon DEF RewritePolicy, Recalibrate
    <3> QED BY <3>1 DEF GateScored
  <2>6. CASE GateFails
    BY <2>6 DEF GateFails, GateScored
  <2>7. CASE GatePolicy
    BY <2>7 DEF GatePolicy, GateScored
  <2> QED BY <2>1, <2>2, <2>3, <2>4, <2>5, <2>6, <2>7
          DEF Next, vars, gated, Edit, Reconfigure, Scan, Diff, CompareProvisional, CompareAgain,
              CompareFinal, Tick
<1>3. ShownInv => \A r \in Reports : InRange(r.report)
  <2> SUFFICES ASSUME ShownInv, NEW r \in Reports PROVE InRange(r.report)
    OBVIOUS
  <2>1. r = shown /\ shown.kind = "scan" /\ ~shown.report.refused
    BY DEF Reports
  <2>2. shown.answer \in AnswersTo(Snapshot) /\ shown.report = runDiagnosis(Snapshot, shown.answer)
    BY <2>1 DEF ShownInv, ShownScan
  <2>3. ScriptsImport(Snapshot)
    BY SnapshotScriptsImport DEF ShownInv
  <2> QED BY <2>1, <2>2, <2>3, DiagnosisInRange
<1>4. ShownInv /\ GateScored => ScoresFitSchema
  BY <1>3 DEF GateScored, ScoresFitSchema
<1> QED BY <1>1, <1>2, <1>4, ShownHolds, PTL DEF Spec
=============================================================================
