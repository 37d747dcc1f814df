SPECIFICATION MCSpec
CONSTANTS
  Process = {a, b}
  Dir <- MCDir
  File <- MCFile
  Children <- MCChildren
  Unit <- MCUnit
  Source = {1, 3, 4, 5}
  Config = 7
  Ignored = {5}
  Version = {"old", "new"}
  MaxFiles = 3
  MaxEntries = 8
  NoFile = NoFile
  NoGit = NoGit
  TopDir <- MCTopDir
  Lines <- MCLines
  Bytes <- MCBytes
  NoteBytes = 14
  Radix = 2
  FixedBytes = 40
  Unset = Unset
  Elsewhere = Elsewhere
  Dangling = Dangling
  Options <- MCOptions
  Answers <- MCAnswers
  Flagged = {3}
  NoProfile = NoProfile
  Provider = {"claude", "codex"}
  Model = {}
  Exec = {"codex"}
  Limit = {}
  Whole = "whole"
  BodyEnd <- MCBodyEnd
  a = a
  b = b
INVARIANTS CleanSnapshotIsCommit SnapshotIsComplete ScanTellsWhatItRecorded PromptWithinPolicy SetupReportIsTrue SettingsSurvive
CHECK_DEADLOCK FALSE
