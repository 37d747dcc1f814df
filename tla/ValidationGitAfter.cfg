SPECIFICATION Spec
CONSTANTS
  Recorder = {p1}
  Observer = {}
  RepoId = {u1, u2}
  GitState <- MCHeads
  Payload = {a, b}
  Horizon = 1
  MaxTime = 0
  Exclusive = TRUE
  OneObserver = TRUE
  NoId = NoId
  NoFile = NoFile
  c1 = c1
  c2 = c2
PROPERTIES RecordedStateHolds
CHECK_DEADLOCK FALSE
