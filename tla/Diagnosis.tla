------------------------------- MODULE Diagnosis -------------------------------
(***************************************************************************)
(* A repository is edited and reconfigured between diagnoses: a scan saves *)
(* a baseline, a diff compares with it, policy --evaluate gates a build on *)
(* the score while the calibration is rewritten, and calibration compare   *)
(* evaluates the samples while the clock runs.                             *)
(***************************************************************************)
EXTENDS Comparison

CONSTANTS
  Trees,       \* repositories as they are found
  Contents,    \* what a path may hold
  Configurable, \* paths that a skip root, an exclusion or a redaction may name
  Answers(_),  \* what the semantic provider may answer, given the evidence
  Policies,    \* policy files
  Datasets,    \* calibration files
  Corpora,     \* recorded samples with their outcomes
  Band, MinSamples, NoData, Malformed,
  Primary, MinBand, MinRepositories, MinClass,
  MaxChanges   \* bounds the changes that others make

INSTANCE Calibration
INSTANCE Evaluation

Content == UNION {Contents[f] : f \in File}

\* A file imports specifiers, and Candidates tells what these may mean.
ASSUME TreesAssumption ==
  /\ Trees \subseteq [File -> Content]
  /\ \A c \in Content \ {NoFile} : c.imports \in Seq(DOMAIN Candidates)

\* NoPolicy is no redaction policy.
ASSUME PolicyAssumption ==
  Configurable \subseteq File /\ \A paths \in SUBSET Configurable : paths # NoPolicy

ASSUME CalibrationAssumption ==
  \A file \in Datasets \ {NoData, Malformed} : \A r \in file.records : r.measured \subseteq Metric

\* A corpus is finite; scores, counts and due times are whole numbers.
ASSUME CorporaAssumption ==
  \A corpus \in Corpora :
    /\ IsFiniteSet(corpus)
    /\ \A c \in corpus : c.n \in Nat /\ {c.shadow, c.v4, c.dueAt} \subseteq Int

VARIABLES
  history,   \* the trees of the commits; the last one is the working tree
  settings,  \* skip roots, exclusions, redacted paths, whether Git is available
  baseline,  \* the stored entry
  saved,     \* the snapshot it was made of (history variable)
  shown,     \* the output of the last scan or diff, with its snapshot
  policy, calibration,  \* the two files
  gate,      \* the locals of policy --evaluate
  now,
  compare,   \* the locals of calibration compare
  budget     \* how many changes to files and settings remain

repository == <<history, settings, budget>>
diagnosed == <<baseline, saved, shown>>
gated == <<policy, calibration, gate>>
evaluated == <<now, compare>>
vars == <<repository, diagnosed, gated, evaluated>>

Nothing == [kind |-> "none"]

Snapshot ==
  [tree |-> [f \in File |-> IF f \in settings.exclude THEN NoFile ELSE Last(history)[f]],
   sha |-> Len(history), issues |-> 0, truncated |-> FALSE, git |-> settings.git,
   skip |-> settings.skip, exclude |-> settings.exclude, redact |-> settings.redact]

\* What validateSemanticFindings lets through: a finding of a file of the snapshot
\* or of none, which rests on evidence of this diagnosis.
Finding(s, evidence) ==
  [fid : Nat, path : Present(s) \cup {NoFile}, refs : SUBSET Ids(evidence),
   scope : DOMAIN semanticRiskStrength, confidence : 0 .. 100]

AnswersTo(s) ==
  LET evidence == extractEvidenceWithPlugins(s).evidence
  IN {a \in Answers(evidence) : a.findings \in Seq(Finding(s, evidence))}

-----------------------------------------------------------------------------
(* Others change the repository between commands.                          *)

Edit ==
  /\ budget > 0 /\ budget' = budget - 1
  /\ \E f \in File : \E c \in Contents[f] \ {Last(history)[f]} :
       history' = Append(history, [Last(history) EXCEPT ![f] = c])
  /\ shown' = Nothing
  /\ UNCHANGED <<settings, baseline, saved, gated, evaluated>>

Reconfigure ==
  /\ budget > 0 /\ budget' = budget - 1
  /\ \E k \in {"skip", "exclude", "redact"}, f \in Configurable :
       settings' = [settings EXCEPT ![k] = IF f \in @ THEN @ \ {f} ELSE @ \cup {f}]
  /\ shown' = Nothing
  /\ UNCHANGED <<history, baseline, saved, gated, evaluated>>

-----------------------------------------------------------------------------
(* scan --save-baseline and diff.  Both state the quality of the score, so *)
(* a malformed calibration fails them.                                     *)

Scan ==
  /\ calibration # Malformed
  /\ \E answer \in AnswersTo(Snapshot) :
       LET report == runDiagnosis(Snapshot, answer)
       IN /\ shown' = [kind |-> "scan", snapshot |-> Snapshot, answer |-> answer,
                       report |-> report]
          /\ IF report.refused \/ ~settings.git THEN UNCHANGED <<baseline, saved>>
             ELSE /\ baseline' = baselineEntry(Snapshot, report)
                  /\ saved' = Snapshot
          /\ UNCHANGED <<repository, gated, evaluated>>

ChangedSince(sha) == {f \in File : history[sha][f] # Last(history)[f]}

Diff ==
  /\ calibration # Malformed
  /\ \E answer \in AnswersTo(Snapshot), base \in DOMAIN history :
       /\ shown' = [kind |-> "diff", snapshot |-> Snapshot, answer |-> answer, base |-> base,
                    report |-> runDiffDiagnosis(Snapshot, answer, baseline, base,
                                                ChangedSince(base))]
       /\ UNCHANGED <<repository, baseline, saved, gated, evaluated>>

-----------------------------------------------------------------------------
(* policy --evaluate loads the policy twice and the calibration three      *)
(* times: for the quality that the report states, and for the gate.        *)

\* golden: does the golden regression pass with this build of the program?
GateIdle(golden) ==
  [pc |-> "idle", golden |-> golden, policy |-> <<>>, reported |-> <<>>, score |-> 0,
   confidence |-> 0, quality |-> "", evaluation |-> <<>>, loaded |-> NoData,
   undisturbed |-> TRUE]

GateFails == gate' = [gate EXCEPT !.pc = "failed"]

GatePolicy ==
  /\ gate.pc = "idle"
  /\ gate' = [gate EXCEPT !.pc = "diagnose", !.policy = policy]
  /\ UNCHANGED <<repository, diagnosed, policy, calibration, evaluated>>

GateDiagnose ==
  /\ gate.pc = "diagnose"
  /\ \E answer \in AnswersTo(Snapshot) :
       LET report == runDiagnosis(Snapshot, answer)
       IN IF report.refused \/ calibration = Malformed
          THEN GateFails
          ELSE gate' = [gate EXCEPT !.score = report.score, !.confidence = report.confidence,
                          !.reported = policy,
                          !.pc = IF loadCalibration(calibration, FALSE, policy.required).records = {}
                                 THEN "load" ELSE "quality",
                          !.quality = "uncalibrated"]
  /\ UNCHANGED <<repository, diagnosed, policy, calibration, evaluated>>

GateQuality ==
  /\ gate.pc = "quality"
  /\ IF calibration = Malformed THEN GateFails
     ELSE gate' = [gate EXCEPT !.pc = "load",
                     !.quality = summarizeCalibrationQuality(
                       loadCalibration(calibration, gate.golden, gate.reported.required))]
  /\ UNCHANGED <<repository, diagnosed, policy, calibration, evaluated>>

GateEvaluate ==
  /\ gate.pc = "load"
  /\ IF calibration = Malformed THEN GateFails
     ELSE LET dataset == loadCalibration(calibration, gate.golden, gate.policy.required)
          IN gate' = [gate EXCEPT !.pc = "done", !.loaded = calibration,
                        !.evaluation = evaluatePolicy(gate.score, gate.confidence, gate.policy,
                                                      dataset.gateEligible)]
  /\ UNCHANGED <<repository, diagnosed, policy, calibration, evaluated>>

\* Others rewrite the two files; it disturbs a gate only between its loads.
RewritePolicy ==
  /\ budget > 0 /\ budget' = budget - 1
  /\ policy' \in Policies \ {policy}
  /\ gate' = [gate EXCEPT !.undisturbed = @ /\ gate.pc # "diagnose"]
  /\ UNCHANGED <<history, settings, diagnosed, calibration, evaluated>>

Recalibrate ==
  /\ budget > 0 /\ budget' = budget - 1
  /\ calibration' \in Datasets \ {calibration}
  /\ gate' = [gate EXCEPT !.undisturbed = @ /\ gate.pc \in {"idle", "diagnose", "done"}]
  /\ UNCHANGED <<history, settings, diagnosed, policy, evaluated>>

-----------------------------------------------------------------------------
(* calibration compare builds the comparison three times from the samples  *)
(* it loaded, each with the clock of its own call.                         *)

CompareIdle == [pc |-> "idle", corpus |-> {}, provisional |-> {}, deterministic |-> TRUE,
                attested |-> FALSE, comparison |-> {}]

CompareProvisional ==
  /\ compare.pc = "idle"
  /\ \E corpus \in Corpora, attested \in BOOLEAN :
       compare' = [compare EXCEPT !.pc = "again", !.corpus = corpus, !.attested = attested,
                     !.provisional = buildComparison(corpus, now, TRUE, attested)]
  /\ UNCHANGED <<repository, diagnosed, gated, now>>

CompareAgain ==
  /\ compare.pc = "again"
  /\ compare' = [compare EXCEPT !.pc = "final",
                   !.deterministic = buildComparison(compare.corpus, now, TRUE, compare.attested)
                                       = compare.provisional]
  /\ UNCHANGED <<repository, diagnosed, gated, now>>

CompareFinal ==
  /\ compare.pc = "final"
  /\ compare' = [compare EXCEPT !.pc = "done",
                   !.comparison = buildComparison(compare.corpus, now, compare.deterministic,
                                                  compare.attested)]
  /\ UNCHANGED <<repository, diagnosed, gated, now>>

Tick ==
  /\ budget > 0 /\ budget' = budget - 1
  /\ compare.pc # "done" /\ now' = now + 1
  /\ UNCHANGED <<history, settings, diagnosed, gated, compare>>

-----------------------------------------------------------------------------

Init ==
  /\ history \in {<<t>> : t \in Trees}
  /\ settings \in [skip : SUBSET Configurable, exclude : SUBSET Configurable,
                   redact : SUBSET Configurable, git : BOOLEAN]
  /\ baseline = NoBaseline /\ saved = Nothing /\ shown = Nothing
  /\ policy \in Policies /\ calibration \in Datasets
  /\ gate \in {GateIdle(golden) : golden \in BOOLEAN}
  /\ now = 0 /\ compare = CompareIdle
  /\ budget \in 0 .. MaxChanges

Next ==
  \/ Edit \/ Reconfigure \/ Scan \/ Diff
  \/ GatePolicy \/ GateDiagnose \/ GateQuality \/ GateEvaluate
  \/ RewritePolicy \/ Recalibrate
  \/ CompareProvisional \/ CompareAgain \/ CompareFinal \/ Tick

Spec == Init /\ [][Next]_vars

-----------------------------------------------------------------------------
(* Properties.                                                             *)

Reports == {r \in {shown} : r.kind = "scan" /\ ~r.report.refused}
Diffs == {r \in {shown} : r.kind = "diff" /\ ~r.report.refused}

\* The nodes that one or more of the pairs lead to from f: the least set that has
\* the successors of f and of its own members.
Beyond(pairs, f) ==
  LET heads == {p[2] : p \in pairs}
      closed == {C \in SUBSET heads : \A p \in pairs : p[1] \in C \cup {f} => p[2] \in C}
  IN {h \in heads : \A C \in closed : h \in C}

DuplicateFindings(answer) ==
  \E i, j \in DOMAIN answer.findings :
    i # j /\ answer.findings[i].fid = answer.findings[j].fid
ImportedTwiceInVain(s) ==
  \E e1, e2 \in Unresolved(s, Graph(s)) : e1 # e2 /\ e1.from = e2.from /\ e1.to = e2.to

\* What a report says of the import graph is true of it.  A product path is in a
\* reported cycle exactly when it imports itself over some imports; it lacks a
\* test exactly when none lies beside it and no test reaches it through tests and
\* product code; a diagnosis is refused only for an import that is twice in one
\* file and cannot be resolved or for two findings of one identity
\* (deterministic.ts: findImportCycles, buildTestCoverageIndex).
EvidenceMatchesGraph ==
  /\ \A r \in {shown} : r.kind = "scan" =>
       (r.report.refused <=> DuplicateFindings(r.answer) \/ ImportedTwiceInVain(r.snapshot))
  /\ \A r \in Reports :
    LET s == r.snapshot
        items == r.report.evidence
        pairs == {<<e.from, e.to>> : e \in Graph(s)}
        passable == {f \in Scripts(s) : f \in TestFile \/ ~isNonProductPath(s, f)}
        reached == UNION {Beyond({p \in pairs : {p[1], p[2]} \subseteq passable}, t) :
                            t \in TestFile \cap passable}
    IN \A f \in passable \ TestFile :
         /\ f \in Beyond(pairs, f) <=> \E e \in items : e.signal = "cycle" /\ f \in e.related
         /\ (\E e \in items : e.signal = "untested" /\ e.path = f)
              <=> /\ expectedTestPath[f] \notin Scripts(s) \cup {NoFile}
                  /\ f \notin reached

\* The score does not fall without a reason: when every item of the baseline is
\* still there, at least as strong and related to at least as many paths, some
\* product remains but no more than there was, and the semantic axis stands as it
\* did, a comparable diff shows no improvement (score.ts, clusters.ts: added
\* evidence never dilutes what was there).
ScoreDropHasAReason ==
  \A r \in Diffs : r.report.comparison.compatible =>
    LET base == r.report.comparison.base
        current == r.report.current
        kept == \A e \in base.evidence : \E x \in current.evidence :
                  /\ x.id = e.id /\ x.strength >= e.strength
                  /\ e.related \subseteq x.related /\ x.role = e.role
    IN /\ kept
       /\ Cardinality(Products(r.snapshot)) \in 1 .. Cardinality(Products(saved))
       /\ current.findings = base.findings
       => r.report.comparison.riskDelta >= 0

\* The scores of a report, of its axes and of its clusters, and the score that a
\* gate decides on, are between 0 and 100, with no clamp anywhere: the weights, the
\* cap of the breadth and the uplift over the mean have to see to it, or the report
\* would fail its own schema (score.ts, clusters.ts, report.v1.ts).
InRange(report) ==
  /\ report.score \in 0 .. 100
  /\ \A a \in DOMAIN report.axes : report.axes[a] \in 0 .. 100
  /\ \A c \in report.clusters : c.score \in 0 .. 100

ScoresFitSchema ==
  /\ \A r \in Reports : InRange(r.report)
  /\ gate.score \in 0 .. 100

\* A diff passes its own schema, whatever was redacted; its blast radius is what
\* the imports reach; and a deletion does not hide what it breaks: a file that
\* imported the deleted one is still its dependent, unless it now imports a file
\* that was not there before, which the import may have come to mean (compare.ts,
\* redaction.ts, diff.ts: transitiveReach; report.v1.ts refuses any other delta).
DiffIsExact ==
  \A r \in Diffs :
    LET s == r.snapshot
        changed == ChangedSince(r.base)
        graph == buildImportGraph(s.tree, Present(s), changed)
        imports == {<<e.from, e.to>> : e \in graph}
        importedBy == {<<e.to, e.from>> : e \in graph}
        before == history[r.base]
        existed == {f \in File : before[f] # NoFile}
    IN /\ diffReportSchema(r.report)
       /\ s.git => \A f \in changed :
            LET entry == r.report.blastRadius[redactString(f, s.redact)]
                importers == {e.from : e \in {x \in buildImportGraph(before, existed, {}) : x.to = f}}
            IN /\ Last(history)[f] = NoFile =>
                    \A g \in (importers \cap Present(s)) \ changed :
                      \/ redactString(g, s.redact) \in entry.directDependents
                      \/ Targets(graph, g) \cap (File \ existed) # {}
               /\ entry.transitiveDependents =
                    RedactAll(Beyond(importedBy, f) \ {f}, s.redact)
               /\ entry.transitiveDependencies =
                    RedactAll(Beyond(imports, f) \ {f}, s.redact)

\* A gate that asks for calibration fails a build only on a calibrated score: the
\* file it read at last has the samples, the rates and the conditions of the policy
\* that it began with; and unless one of the two files was rewritten between its
\* loads, a score is eligible exactly when the report calls it validated (policy.ts
\* and quality.ts derive the two separately, each from loads of its own).
GateNeedsCalibration ==
  gate.pc = "done" =>
    /\ gate.evaluation.gateWouldFail /\ gate.policy.requireCalibration =>
         /\ gate.loaded # NoData /\ gate.golden
         /\ gate.policy.required \subseteq gate.loaded.satisfied
         /\ \A b \in Band : \E d \in gate.loaded.records :
              d.band = b /\ d.samples >= MinSamples /\ d.measured = Metric
    /\ gate.undisturbed =>
         (gate.evaluation.gateEligible <=> gate.quality = "validated")

PairsInOrder(rows, model) ==
  SumFunction([pq \in Positives(rows) \X Negatives(rows) |->
    pq[1].n * pq[2].n * (IF pq[1][model] > pq[2][model] THEN 2
                         ELSE IF pq[1][model] = pq[2][model] THEN 1 ELSE 0)])

\* The area under the curve is the share of pairs that the score orders right,
\* ties counted half; a candidate is eligible only if it orders at least 3 % more
\* pairs than the current score; and the comparison that is printed rests on every
\* sample the provisional one saw, whatever fell due between the three builds
\* (evaluate.ts: computeRocAuc, buildChecks, compareValidationModels).
PromotionIsEarned ==
  \A a \in compare.comparison :
    /\ AucPairs(a.rows, "shadow") = PairsInOrder(a.rows, "shadow")
    /\ \A p \in compare.provisional : p.cohort = a.cohort => p.rows \subseteq a.rows
    /\ a.promotionStatus = "eligible-for-review" =>
         LET pairs == Count(Positives(a.rows)) * Count(Negatives(a.rows))
         IN /\ a.cohort = Primary /\ compare.attested
            /\ 100 * (PairsInOrder(a.rows, "shadow") - PairsInOrder(a.rows, "v4")) >= 6 * pairs
=============================================================================
