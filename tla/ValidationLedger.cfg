SPECIFICATION Spec
CONSTANTS
  Recorder = {p1, p2}
  Observer = {o1, o2}
  RepoId = {u1, u2}
  GitState <- MCGitState
  Payload = {a, b}
  Horizon = 1
  MaxTime = 2
  Exclusive = TRUE
  OneObserver = TRUE
  NoId = NoId
  NoFile = NoFile
  c1 = c1
  c2 = c2
INVARIANTS OutcomesFitSamples OneIdentity
PROPERTIES SamplesImmutable OutcomeOnlyReplaced
CHECK_DEADLOCK FALSE
SYMMETRY MCSymmetry
