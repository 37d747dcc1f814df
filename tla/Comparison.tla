------------------------------ MODULE Comparison ------------------------------
(***************************************************************************)
(* Redaction, the comparison of a diagnosis with a stored baseline, and    *)
(* the blast radius of the changed files.  A redacted path is the negative *)
(* of its number: patterns are mapped one to one to tokens, and a token is *)
(* not redacted again.                                                     *)
(***************************************************************************)
EXTENDS Assessment

CONSTANTS NoReport, NoBaseline

\* NoFile stands for null: it is no path, and no token of one.
ASSUME RedactionAssumption == NoFile \notin Int

redactString(p, redactPaths) == IF p \in redactPaths THEN -p ELSE p
RedactAll(S, redactPaths) == {redactString(p, redactPaths) : p \in S}

\* The key of an identity holds paths (a cycle) or a specifier.
redactEntityId(id, redactPaths) ==
  <<id[1], redactString(id[2], redactPaths),
    IF id[1] = "cycle" THEN RedactAll(id[3], redactPaths) ELSE id[3]>>

redactEvidence(e, redactPaths) ==
  [e EXCEPT !.id = redactEntityId(@, redactPaths), !.path = redactString(@, redactPaths),
            !.related = RedactAll(@, redactPaths)]

RedactIds(ids, redactPaths) == {redactEntityId(id, redactPaths) : id \in ids}

\* A report that is already redacted keeps its tokens; by another policy, the
\* command fails before it gets here (compareDiagnosis compares the policies).
redactReport(report, redactPaths) ==
  IF report.policy # NoPolicy THEN report
  ELSE [report EXCEPT
          !.policy = redactPaths,
          !.evidence = {redactEvidence(e, redactPaths) : e \in @},
          !.clusters = {[c EXCEPT !.paths = RedactAll(@, redactPaths),
                                  !.evidenceIds = RedactIds(@, redactPaths)] : c \in @},
          !.findings = {[f EXCEPT !.path = redactString(@, redactPaths),
                                  !.refs = RedactIds(@, redactPaths)] : f \in @}]

-----------------------------------------------------------------------------
(* What two diagnoses must share to be compared.  The limits are constants *)
(* here; the skip roots and the locale are not part of the fingerprint.    *)

analysisContextFingerprint(s) == <<s.exclude, s.git>>

diagnosisContextFingerprint(s, report) ==
  <<analysisContextFingerprint(s), report.capabilities, report.semantic>>

\* The entry that scan --save-baseline stores.
baselineEntry(s, report) ==
  [sourceCommitSha |-> s.sha, policy |-> s.redact,
   context |-> diagnosisContextFingerprint(s, report),
   report |-> redactReport(report, s.redact)]

-----------------------------------------------------------------------------
(* Changes by identity, and by severity for identities on both sides.      *)

Severity(items, id) ==
  severityForStrength((CHOOSE e \in items : e.id = id).strength)
Ids(items) == {e.id : e \in items}

compareSignalChanges(current, base) ==
  LET both == Ids(current) \cap Ids(base)
  IN [newSignals |-> Ids(current) \ Ids(base),
      worsenedSignals |-> {id \in both : Severity(current, id) > Severity(base, id)},
      improvedSignals |-> {id \in both : Severity(current, id) < Severity(base, id)}
                            \cup (Ids(base) \ Ids(current))]

NoChanges == [newSignals |-> {}, worsenedSignals |-> {}, improvedSignals |-> {}]

incompatible ==
  [compatible |-> FALSE, base |-> NoReport, riskDelta |-> 0, changes |-> NoChanges]

compareDiagnosis(s, current, baseline, baseSha) ==
  IF \/ baseline = NoBaseline
     \/ baseline.sourceCommitSha # baseSha
     \/ baseline.policy # s.redact
     \/ baseline.context # diagnosisContextFingerprint(s, current)
  THEN incompatible
  ELSE LET comparisonCurrent == redactReport(current, s.redact)
       IN [compatible |-> TRUE, base |-> baseline.report,
           riskDelta |-> comparisonCurrent.score - baseline.report.score,
           changes |-> compareSignalChanges(comparisonCurrent.evidence, baseline.report.evidence)]

-----------------------------------------------------------------------------
(* The blast radius: from each changed file, present or deleted, along the *)
(* imports and against them.                                               *)

transitiveReach(start, pairs) == Reach(pairs, {start}) \ {start}

\* A deleted file is no longer what an import means (for a mutation).
BlastRadiusOfPresent(s, changedFiles) ==
  LET edges == buildImportGraph(s.tree, Present(s), {})
      down == {<<e.from, e.to>> : e \in edges}
      up == {<<e.to, e.from>> : e \in edges}
  IN [f \in changedFiles |->
        [directDependents |-> {p[2] : p \in {q \in up : q[1] = f}},
         directDependencies |-> {p[2] : p \in {q \in down : q[1] = f}},
         transitiveDependents |-> transitiveReach(f, up),
         transitiveDependencies |-> transitiveReach(f, down)]]

computeBlastRadius(s, changedFiles) ==
  LET edges == buildImportGraph(s.tree, Present(s), changedFiles)
      down == {<<e.from, e.to>> : e \in edges}
      up == {<<e.to, e.from>> : e \in edges}
  IN [f \in changedFiles |->
        [directDependents |-> {p[2] : p \in {q \in up : q[1] = f}},
         directDependencies |-> {p[2] : p \in {q \in down : q[1] = f}},
         transitiveDependents |-> transitiveReach(f, up),
         transitiveDependencies |-> transitiveReach(f, down)]]

RedactedRadius(radius, redactPaths) ==
  [g \in RedactAll(DOMAIN radius, redactPaths) |->
     LET f == CHOOSE h \in DOMAIN radius : redactString(h, redactPaths) = g
     IN [k \in DOMAIN radius[f] |-> RedactAll(radius[f][k], redactPaths)]]

\* Changes were made from the redacted report: a second redaction spares the
\* tokens, so it changes nothing but the diagnosis that is still in clear.
redactDiffReport(diff, redactPaths) ==
  [diff EXCEPT
     !.policy = redactPaths,
     !.current = redactReport(@, redactPaths),
     !.comparison.base = IF @ = NoReport THEN @ ELSE redactReport(@, redactPaths),
     !.comparison.changes = [k \in DOMAIN @ |-> RedactIds(@[k], redactPaths)],
     !.changedFiles = RedactAll(@, redactPaths),
     !.blastRadius = RedactedRadius(@, redactPaths)]

\* s is the snapshot; changed are the paths that Git lists against baseSha.
runDiffDiagnosis(s, answer, baseline, baseSha, changed) ==
  LET current == runDiagnosis(s, answer)
  IN IF current.refused THEN current
     ELSE redactDiffReport(
            IF s.git
            THEN [refused |-> FALSE, policy |-> NoPolicy, current |-> current, changedFiles |-> changed,
                  blastRadius |-> computeBlastRadius(s, changed),
                  comparison |-> compareDiagnosis(s, current, baseline, baseSha)]
            ELSE [refused |-> FALSE, policy |-> NoPolicy, current |-> current, changedFiles |-> {},
                  blastRadius |-> <<>>, comparison |-> incompatible],
            s.redact)

\* diffReportSchema: the report is printed only if it passes.
diffReportSchema(diff) ==
  /\ diff.current.policy = diff.policy
  /\ LET c == diff.comparison
     IN IF c.compatible
        THEN /\ c.base.policy = diff.policy
             /\ c.riskDelta = diff.current.score - c.base.score
             /\ c.changes = compareSignalChanges(diff.current.evidence, c.base.evidence)
        ELSE c.base = NoReport /\ c.changes = NoChanges
=============================================================================
