SPECIFICATION Spec
CONSTANTS
  Operations = {"oneShotPrompt"}
  SetupTimeout = 4
  IdleTimeout = 4
  HardTimeout = 4
  ToolThreshold = 1
  OutputMax = 1
  NeedsSafeMode = FALSE
  WantsModel = FALSE
  Verifies = TRUE
  ToolId = {t1}
  MaxUpdates = 1
  StdinFlows = TRUE
  AbortSettling = {TRUE, FALSE}
  Deadline = 5
  Reserve = 2
  PrepDelay = 1
  MaxClock = 20
  t1 = t1
INVARIANTS DirectoryOutlivesProcess FinishesInReserve
PROPERTIES CancelledNeverSpawns CallReturns
CHECK_DEADLOCK FALSE
