------------------------------ MODULE MCDiagnosis ------------------------------
(***************************************************************************)
(* Three product files that may import each other in cycles, a test, a     *)
(* script and a Python file.                                               *)
(***************************************************************************)
EXTENDS Diagnosis

CONSTANTS sA, sB, sC, sMissing

VARIABLE scenario
mcVars == <<vars, scenario>>

MCFile == 1..6
MCScript == 1..5
MCPlace == [f \in MCFile |-> IF f = 5 THEN "tooling" ELSE "src"]
MCExpectedTest == [f \in MCFile |-> IF f = 3 THEN 4 ELSE IF f = 4 THEN NoFile ELSE 9]
MCCandidates == sA :> <<1>> @@ sB :> <<2>> @@ sC :> <<3, 2>> @@ sMissing :> <<>>

C(imports, lines) ==
  [imports |-> imports, lines |-> lines, depth |-> 0, barrel |-> FALSE, churn |-> 0]
Plain == C(<<>>, 5)

MCContents ==
  <<{C(<<sB>>, 5), C(<<sB, sC>>, 30), C(<<sMissing, sMissing>>, 5), C(<<sMissing>>, 5)},
    {Plain, C(<<sA>>, 15), [C(<<sC>>, 11) EXCEPT !.depth = 9]},
    {Plain, C(<<sA>>, 5), NoFile, [Plain EXCEPT !.barrel = TRUE, !.churn = 10]},
    {NoFile, C(<<sA>>, 5), C(<<sC>>, 5)},
    {C(<<sB>>, 5), C(<<sB, sA>>, 5)},
    {NoFile, C(<<>>, 20)}>>

MCTrees ==
  {<<C(<<sB>>, 5), Plain, Plain, NoFile, C(<<sB>>, 5), NoFile>>,
   <<C(<<sB, sC>>, 30), C(<<sA>>, 15), C(<<sA>>, 5), C(<<sA>>, 5), C(<<sB, sA>>, 5), NoFile>>,
   <<C(<<sMissing>>, 5), [C(<<sC>>, 11) EXCEPT !.depth = 9], Plain, C(<<sC>>, 5),
     C(<<sB>>, 5), C(<<>>, 20)>>,
   <<C(<<sMissing, sMissing>>, 5), Plain, Plain, NoFile, Plain, NoFile>>}

F(fid, path, refs, scope) ==
  [fid |-> fid, path |-> path, refs |-> refs, scope |-> scope, confidence |-> 80]

MCAnswers(evidence) ==
  LET ids == {e.id : e \in {x \in evidence : x.path \in {2, 3}}}
      found == <<F(1, 2, ids, "module"), F(2, 2, {}, "local")>>
  IN {[status |-> "off", findings |-> <<>>], [status |-> "available", findings |-> found]}
     \cup (IF scenario # "answers" THEN {}
           ELSE {[status |-> "failed", findings |-> <<>>],
                 [status |-> "available", findings |-> <<>>],
                 [status |-> "available", findings |-> Append(found, F(1, 1, ids, "repository"))],
                 [status |-> "available",
                  findings |-> Append(found, F(3, NoFile, ids, "repository"))]})

MCBand == {"0-30", "31-60"}
R(b, n, m) == [band |-> b, samples |-> n, measured |-> m]
MCDatasets ==
  {NoData, Malformed} \cup
  {[records |-> r, satisfied |-> c] :
     r \in {{}, {R("0-30", 2, Metric), R("31-60", 2, Metric)},
            {R("0-30", 2, Metric), R("31-60", 1, Metric)},
            {R("0-30", 2, Metric), R("31-60", 2, Metric \ {"missRate"})},
            {R("0-30", 2, Metric), R("31-60", 2, Metric \ {"rankingQuality"})}},
     c \in {{}, {"reviewed"}}}
MCPolicies ==
  {[advisoryThreshold |-> 10, gateThreshold |-> 20, gateEnabled |-> TRUE,
    requireCalibration |-> q, required |-> c] :
     q \in BOOLEAN, c \in {{}, {"reviewed"}}}

MCPrimary == [horizon |-> 28, advisory |-> 70]
Secondary == [horizon |-> 14, advisory |-> 70]

\* A cell per band and repository: scores that order the outcomes well, scores of
\* the current model that tie or invert, and one sample that falls due later.
Level == <<20, 45, 70, 90>>
Cell(b, r, positive, v4, n, due, k) ==
  [repository |-> r, shadow |-> Level[b], v4 |-> v4, n |-> n, dueAt |-> due, cohort |-> k,
   outcome |-> IF positive THEN "regression" ELSE "no-regression"]
MCCorpora ==
  {UNION {{Cell(b, r, FALSE, IF inverted THEN 100 - Level[b] ELSE 50, 5 - b, 0, k),
           Cell(b, r, TRUE, IF inverted THEN 75 - b ELSE 50 + ties * b, b, IF late THEN 1 ELSE 0, k)} :
            b \in 1..4, r \in 1..repositories} :
     inverted \in BOOLEAN, late \in BOOLEAN, ties \in {0, 1}, repositories \in {2, 3},
     k \in {MCPrimary, Secondary}}

MCInit ==
  /\ Init
  /\ settings.skip = {} /\ settings.exclude = {} /\ settings.redact \in {{}, {2}}
  /\ scenario \in {"answers", "edits", "gate", "evaluate"}
  /\ budget = IF scenario = "answers" THEN 1 ELSE 2
  /\ scenario = "edits" =>
       settings.git /\ settings.redact = {2} /\ sMissing \notin ToSet(history[1][1].imports)
  /\ scenario # "gate" => /\ calibration = NoData
                          /\ policy = CHOOSE p \in Policies : TRUE
                          /\ ~gate.golden
  /\ scenario \in {"gate", "evaluate"} =>
       Len(history[1][1].imports) = 2 /\ settings.redact = {} /\ settings.git

\* Steps of Next.  No command reads what the one before it printed, so a scan after
\* a scan of the same snapshot adds nothing.
MCNext ==
  /\ UNCHANGED scenario
  /\ \/ scenario \in {"answers", "edits"} /\ (Edit \/ Reconfigure)
     \/ scenario \in {"answers", "edits"} /\ shown.kind = "none" /\ Scan
     \/ scenario \in {"answers", "edits"} /\ shown.kind # "diff" /\ Diff
     \/ scenario = "gate" /\ (GatePolicy \/ GateDiagnose \/ GateQuality \/ GateEvaluate
                               \/ RewritePolicy \/ Recalibrate)
     \/ scenario = "evaluate" /\ (CompareProvisional \/ CompareAgain \/ CompareFinal \/ Tick)

MCSpec == MCInit /\ [][MCNext]_mcVars
=============================================================================
