SPECIFICATION MCSpec
CONSTANTS
  Saver = {s1, s2}
  Reader = {r1}
  InputId = {x}
  Commit = {c1, c2}
  GitState <- MCGitState
  Stray = {copy}
  Inode = {i1}
  InitFiles <- MCBroken
  RetentionDays = 1
  MaxTime = 2
  MaxLosses = 1
  NoFile = NoFile
  NoDir = NoDir
  x = x
  c1 = c1
  c2 = c2
  copy = copy
PROPERTIES LoadsParse LoadedIsNewest RemovesWhatItChecked ImplementsBaselineMap
CHECK_DEADLOCK FALSE
