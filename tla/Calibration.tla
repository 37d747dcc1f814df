------------------------------ MODULE Calibration ------------------------------
(***************************************************************************)
(* The calibration of the score: the dataset of a repository, the quality  *)
(* a report states for it, and the policy gate.  The two derive from the   *)
(* same dataset, separately, what it takes for a score to be trusted.      *)
(***************************************************************************)
EXTENDS Naturals, FiniteSets

CONSTANTS
  Band,       \* CALIBRATION_SCORE_BANDS
  MinSamples, \* 30
  NoData,     \* there is no calibration.json, or it has no records
  Malformed   \* one that the schema refuses, or that goes while it is read

\* What a record may have measured.
Metric == {"falsePositiveRate", "missRate", "rankingQuality", "explanationUsefulness"}

\* A dataset is a set of records [band, samples, measured] and the conditions it
\* declares satisfied; one that is malformed is a ConfigError of whatever loads it.

hasMinimumSamplesForEveryScoreBand(records) ==
  \A b \in Band : \E r \in records : r.band = b /\ r.samples >= MinSamples

EveryRecordHas(records, metrics) == \A r \in records : metrics \subseteq r.measured

\* Whatever the records measured (for a mutation).
GateEligibleUnmeasured(records, golden, required, satisfied) ==
  /\ records # {}
  /\ hasMinimumSamplesForEveryScoreBand(records)
  /\ golden
  /\ required \subseteq satisfied

deriveGateEligible(records, golden, required, satisfied) ==
  /\ records # {}
  /\ hasMinimumSamplesForEveryScoreBand(records)
  /\ EveryRecordHas(records, Metric)
  /\ golden
  /\ required \subseteq satisfied

loadCalibration(file, golden, required) ==
  IF file = NoData
  THEN [records |-> {}, gateEligible |-> FALSE, missing |-> required, golden |-> golden]
  ELSE [records |-> file.records,
        gateEligible |-> deriveGateEligible(file.records, golden, required, file.satisfied),
        missing |-> required \ file.satisfied, golden |-> golden]

collectMissingValidationConditions(dataset) ==
  (IF hasMinimumSamplesForEveryScoreBand(dataset.records) THEN {} ELSE {"samples"})
  \cup (IF EveryRecordHas(dataset.records, {"falsePositiveRate", "missRate"})
        THEN {} ELSE {"rates"})
  \cup (IF EveryRecordHas(dataset.records, {"rankingQuality", "explanationUsefulness"})
        THEN {} ELSE {"ranking"})
  \cup (IF dataset.golden THEN {} ELSE {"golden"})
  \cup dataset.missing

summarizeCalibrationQuality(dataset) ==
  CASE dataset.records = {} -> "uncalibrated"
    [] dataset.records # {} /\ collectMissingValidationConditions(dataset) = {} -> "validated"
    [] OTHER -> "provisional"

\* Confidence is in hundredths.
evaluatePolicy(score, confidence, policy, gateEligible) ==
  [advisory |-> score >= policy.advisoryThreshold,
   gateWouldFail |-> /\ policy.gateEnabled
                     /\ ~policy.requireCalibration \/ gateEligible
                     /\ confidence >= 50
                     /\ score >= policy.gateThreshold,
   gateEligible |-> gateEligible]
=============================================================================
