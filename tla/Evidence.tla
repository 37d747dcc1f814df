------------------------------- MODULE Evidence -------------------------------
(***************************************************************************)
(* Deterministic evidence: what the analyzer plugins extract from a        *)
(* snapshot.  A path is a number in the order of localeCompare; a relative *)
(* specifier is a model value with the files it may mean, in the order in  *)
(* which they are tried.  A snapshot is a record with the tree (NoFile or  *)
(* the content of each path), the paths under a configured skip root and   *)
(* whether Git is available.                                               *)
(***************************************************************************)
EXTENDS Naturals, Sequences, SequencesExt, FiniteSetsExt

CONSTANTS
  File,        \* paths
  Script,      \* the paths of TypeScript and JavaScript files; the others are Python
  TestFile,    \* paths that isTestFile recognises
  Place,       \* where a path lies: "src", "tests", "fixture", "tooling" or "generated"
  Candidates,  \* of a relative specifier, the paths it may resolve to
  expectedTestPath,  \* of a path, that of the test beside it; NoFile when it needs none
  FanThreshold, MaxFileLines, NestingOnset, ChurnOnset,
  NoFile

ASSUME FileAssumption == IsFiniteSet(File) /\ File \subseteq Nat \ {0}

\* A specifier that means no file is a node of its own: none is a path.
ASSUME CandidatesAssumption ==
  /\ IsFiniteSet(DOMAIN Candidates) /\ DOMAIN Candidates \cap File = {}
  /\ \A target \in DOMAIN Candidates : Candidates[target] \in Seq(File)

Present(s) == {f \in File : s.tree[f] # NoFile}
Scripts(s) == Present(s) \cap Script

-----------------------------------------------------------------------------
(* Path roles: the two classifications do not agree on tests/ and dist/.   *)

isNonProductPath(s, f) == Place[f] \in {"tooling", "fixture"} \/ f \in s.skip

classifyPathRole(s, f) ==
  IF f \in TestFile \/ Place[f] = "tests" THEN "test"
  ELSE IF Place[f] \in {"fixture", "tooling"} THEN Place[f]
  ELSE IF f \in s.skip THEN "tooling"
  ELSE IF Place[f] = "src" THEN "product" ELSE "generated"

Products(s) == {f \in Present(s) : classifyPathRole(s, f) = "product"}

-----------------------------------------------------------------------------
(* The import graph: one edge per import, so two imports of one target are *)
(* two edges; a target that cannot be resolved stays a node of its own.    *)

resolveRelativeImport(target, available) ==
  LET found == {i \in DOMAIN Candidates[target] : Candidates[target][i] \in available}
  IN IF found = {} THEN target ELSE Candidates[target][Min(found)]

buildImportGraph(tree, files, virtual) ==
  UNION {{[from |-> f, nth |-> i,
           to |-> resolveRelativeImport(tree[f].imports[i], files \cup virtual)] :
            i \in DOMAIN tree[f].imports} : f \in files}

Graph(s) == buildImportGraph(s.tree, Scripts(s), {})

Targets(edges, from) == {e.to : e \in {x \in edges : x.from = from}}

Successors(pairs, nodes) == {p[2] : p \in {q \in pairs : q[1] \in nodes}}

\* Only the first wave (for a mutation).
ReachOnce(pairs, start) == start \cup Successors(pairs, start)

\* What a search reaches from the nodes of start.  A wave that finds nothing new
\* is the last one, and each of the others finds a node that some pair leads to.
Reach(pairs, start) ==
  LET most == Cardinality({p[2] : p \in pairs})
      wave[n \in 0 .. most] == IF n = 0 THEN start ELSE ReachOnce(pairs, wave[n - 1])
  IN wave[most]

\* Every walk with every step that does not meet it.
Longer(edges, walks) ==
  walks \cup UNION {{Append(w, f) : f \in Targets(edges, Last(w)) \ ToSet(w)} : w \in walks}

\* What findImportCycles has on its stack: every walk is followed until it meets
\* itself.  All files on it but the last have imports.
Walks(edges) ==
  LET froms == {e.from : e \in edges}
      most == Cardinality(froms)
      walk[n \in 0 .. most] ==
        IF n = 0 THEN {<<f>> : f \in froms} ELSE Longer(edges, walk[n - 1])
  IN walk[most]

\* The part of the stack from the file that the walk meets.
findImportCycles(edges) ==
  UNION {{ToSet(SubSeq(w, i, Len(w))) :
            i \in {k \in DOMAIN w : w[k] \in Targets(edges, Last(w))}} : w \in Walks(edges)}

\* buildTestCoverageIndex: the search from one test file passes through tests and
\* product files and stops at the others.
Passed(s, edges) ==
  LET passable == {f \in File : f \in TestFile \/ ~isNonProductPath(s, f)}
  IN {<<e.from, e.to>> : e \in {x \in edges : x.from \in passable /\ x.to \in Scripts(s)}}

CoveredBy(s, edges, test) ==
  {f \in Reach(Passed(s, edges), {test}) \ TestFile : ~isNonProductPath(s, f)}

TestPaths(s, edges, f) ==
  {test \in TestFile \cap Scripts(s) : f \in CoveredBy(s, edges, test)}

\* buildRelatedPathsIndex: the analyzed files next to f.
Neighbours(s, edges, f) ==
  {g \in Scripts(s) : g \in Targets(edges, f) \/ f \in Targets(edges, g)}

-----------------------------------------------------------------------------
(* Strength: 25 + 50 log2(value / onset), rounded and capped.  Bound n of  *)
(* the table is the least ratio, in thousandths, of strength 25 + n.       *)

LogBounds == <<1007, 1022, 1036, 1050, 1065, 1080, 1095, 1110, 1126, 1141, 1157, 1173,
  1190, 1206, 1223, 1240, 1258, 1275, 1293, 1311, 1329, 1348, 1367, 1386, 1405, 1425,
  1444, 1465, 1485, 1506, 1527, 1548, 1570, 1592, 1614, 1636, 1659, 1682, 1706, 1730,
  1754, 1778, 1803, 1828, 1854, 1880, 1906, 1932, 1959, 1987, 2014, 2043, 2071, 2100,
  2129, 2159, 2189, 2220, 2251, 2282, 2314, 2346, 2379, 2412, 2446, 2480, 2515, 2550,
  2585, 2621, 2658, 2695, 2733, 2771, 2809>>

normalizeAboveThreshold(value, onset) ==
  IF value < onset THEN 0
  ELSE 25 + Quantify(DOMAIN LogBounds, LAMBDA n : LogBounds[n] * onset <= 1000 * value)

severityForStrength(strength) ==
  IF strength >= 70 THEN 3 ELSE IF strength >= 40 THEN 2 ELSE 1

BinaryStrength == [cycle |-> 90, unresolved |-> 65, untested |-> 50, barrel |-> 30]

SignalAxis ==
  [cycle |-> "structure", large |-> "structure", barrel |-> "structure", deep |-> "structure",
   unresolved |-> "structure", fanOut |-> "blast", fanIn |-> "blast",
   untested |-> "verification", churn |-> "volatility"]

\* Fan-out and fan-in are one mechanism; every other signal is its own.
Mechanism(signal) == IF signal \in {"fanOut", "fanIn"} THEN "connectivity" ELSE signal

-----------------------------------------------------------------------------
(* The signals of the TypeScript analyzer.  The identity of an item names  *)
(* the signal and the path, for a cycle its paths, and for an import that  *)
(* cannot be resolved its target, but not which import of the file it is.  *)

Item(s, edges, signal, f, key, strength) ==
  [id |-> <<signal, f, key>>, signal |-> signal, path |-> f, strength |-> strength,
   role |-> classifyPathRole(s, f),
   related |-> Neighbours(s, edges, f) \cup TestPaths(s, edges, f)]

Unresolved(s, edges) ==
  {e \in edges : /\ e.to \notin Scripts(s) /\ e.from \notin TestFile
                 /\ ~isNonProductPath(s, e.from)}

FanOut(edges, f) == Quantify(edges, LAMBDA e : e.from = f)
FanIn(edges, f) == Quantify(edges, LAMBDA e : e.to = f)

\* Of its products a cycle is named after the first.  The code sorts these by code
\* unit, not by localeCompare; both are total orders, and here they are the same.
CycleItem(s, edges, cycle) ==
  LET primary == Min({f \in cycle : ~isNonProductPath(s, f)})
  IN [Item(s, edges, "cycle", primary, cycle, BinaryStrength.cycle) EXCEPT !.related = cycle]

\* A file has a test when one lies beside it or some test reaches it, and needs
\* none when its name holds ".test" or ".spec".
isTested(s, edges, f) ==
  expectedTestPath[f] \in Scripts(s) \cup {NoFile} \/ TestPaths(s, edges, f) # {}

Numeric(s, edges, signal, value, onset, least) ==
  {Item(s, edges, signal, f, {}, normalizeAboveThreshold(value[f], onset)) :
     f \in {g \in DOMAIN value : value[g] >= least}}

Binary(s, edges, signal, files) ==
  {Item(s, edges, signal, f, {}, BinaryStrength[signal]) : f \in files}

\* The array of items as a set: only the items of two imports that cannot be
\* resolved may be equal, when they have one file and one target.
extractDeterministicEvidence(s) ==
  LET edges == Graph(s)
      diagnosed == {f \in Scripts(s) : ~isNonProductPath(s, f)}
      untestable == diagnosed \ TestFile
  IN Numeric(s, edges, "fanOut", [f \in Scripts(s) |-> FanOut(edges, f)], FanThreshold, FanThreshold)
     \cup Numeric(s, edges, "fanIn", [f \in Scripts(s) |-> FanIn(edges, f)], FanThreshold, FanThreshold)
     \cup {CycleItem(s, edges, c) : c \in {d \in findImportCycles(edges) : d \cap diagnosed # {}}}
     \cup Numeric(s, edges, "large", [f \in diagnosed |-> s.tree[f].lines],
                  MaxFileLines, MaxFileLines + 1)
     \cup Binary(s, edges, "barrel", {f \in untestable : s.tree[f].barrel})
     \cup Numeric(s, edges, "deep", [f \in untestable |-> s.tree[f].depth],
                  NestingOnset, NestingOnset)
     \cup Binary(s, edges, "untested", {f \in untestable : ~isTested(s, edges, f)})
     \cup Numeric(s, edges, "churn", [f \in IF s.git THEN Scripts(s) ELSE {} |-> s.tree[f].churn],
                  ChurnOnset, ChurnOnset)
     \cup {Item(s, edges, "unresolved", e.from, {e.to}, BinaryStrength.unresolved) :
             e \in Unresolved(s, edges)}

-----------------------------------------------------------------------------
(* Plugins: one per language that is present, and what each can evaluate.  *)

extractLargeFileEvidence(s) ==
  {[id |-> <<"large", f, {}>>, signal |-> "large", path |-> f,
    strength |-> normalizeAboveThreshold(s.tree[f].lines, MaxFileLines),
    role |-> classifyPathRole(s, f), related |-> {}] :
     f \in {g \in Present(s) \ Script : s.tree[g].lines > MaxFileLines}}

Supported(s, language) ==
  IF language = "script" THEN DOMAIN SignalAxis \ (IF s.git THEN {} ELSE {"churn"})
  ELSE {"large"}

negotiateCapabilities(s) ==
  (IF Scripts(s) = {} THEN {} ELSE {[language |-> "script", supported |-> Supported(s, "script")]})
  \cup (IF Present(s) \subseteq Script THEN {}
        ELSE {[language |-> "python", supported |-> Supported(s, "python")]})

\* Two items of one identity refuse the whole diagnosis.
extractEvidenceWithPlugins(s) ==
  LET items == extractDeterministicEvidence(s) \cup extractLargeFileEvidence(s)
      duplicateIds == Quantify(items, LAMBDA e : e.signal = "unresolved")
                        < Cardinality(Unresolved(s, Graph(s)))
  IN [refused |-> duplicateIds, evidence |-> IF duplicateIds THEN {} ELSE items,
      capabilities |-> negotiateCapabilities(s)]
=============================================================================
