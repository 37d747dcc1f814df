SPECIFICATION MCSpec
CONSTANTS
  Proc = {p1, p2}
  Inode = {i1, i2}
  GitState <- MCGitState
  NonGit = nogit
  Seed <- MCSeed
  InitHistories <- MCHistories
  RetentionDays = 1
  MaxTime = 2
  MaxLosses = 1
  ReadFaults = TRUE
  NoFile = NoFile
  NoDir = NoDir
  NoBase = NoBase
  old = old
  mid = mid
  g0 = g0
  nogit = nogit
  p1 = p1
  p2 = p2
  i1 = i1
  i2 = i2
INVARIANTS TypeOK HistoryNeverTorn
PROPERTIES CurrentCopyIsLogStep BaseIsPredecessor RenameIntoValidatedDir ImplementsTrendLog
CHECK_DEADLOCK FALSE
