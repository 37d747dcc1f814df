SPECIFICATION Spec
CONSTANTS
  a = a
  b = b
  c = c
  d = d
  Unit <- MCUnit
  Path <- MCPath
  Job <- MCJob
  Policy <- MCPolicy
  HeadBytes <- MCHeadBytes
  ContextBytes = 1
  LimitationBytes = 1
  UnitsPerBatch = 2
  NoAnswer = NoAnswer
  Failed = Failed
INVARIANTS RequestsWithinPolicy TotalWithinPolicy EarlyRejectIsSafe CoverageAddsUp ContextSentOrDeclared
CHECK_DEADLOCK FALSE
