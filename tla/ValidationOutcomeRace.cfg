SPECIFICATION Spec
CONSTANTS
  Recorder = {p1}
  Observer = {o1, o2}
  RepoId = {u1}
  GitState <- MCGitState
  Payload = {a}
  Horizon = 1
  MaxTime = 2
  Exclusive = TRUE
  OneObserver = FALSE
  NoId = NoId
  NoFile = NoFile
  c1 = c1
  c2 = c2
PROPERTIES OutcomeOnlyReplaced
CHECK_DEADLOCK FALSE
