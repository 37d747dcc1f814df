\* Each command ends; what remains is the budget of changes by others.
SPECIFICATION MCSpec
CHECK_DEADLOCK FALSE
CONSTANTS
  sA = sA
  sB = sB
  sC = sC
  sMissing = sMissing
  NoFile = NoFile
  NoPolicy = NoPolicy
  NoReport = NoReport
  NoBaseline = NoBaseline
  NoData = NoData
  Malformed = Malformed
  File <- MCFile
  Script <- MCScript
  TestFile = {4}
  Place <- MCPlace
  Candidates <- MCCandidates
  expectedTestPath <- MCExpectedTest
  FanThreshold = 2
  MaxFileLines = 10
  NestingOnset = 6
  ChurnOnset = 5
  Trees <- MCTrees
  Contents <- MCContents
  Configurable = {2, 4}
  Answers <- MCAnswers
  Policies <- MCPolicies
  Datasets <- MCDatasets
  Corpora <- MCCorpora
  Band <- MCBand
  MinSamples = 2
  Primary <- MCPrimary
  MinBand = 10
  MinRepositories = 3
  MinClass = 10
  MaxChanges = 2
INVARIANTS EvidenceMatchesGraph ScoreDropHasAReason ScoresFitSchema DiffIsExact GateNeedsCalibration PromotionIsEarned
