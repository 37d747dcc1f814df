SPECIFICATION AcpSpec
CONSTANTS
  Operations = {"inspect", "discoverModels", "oneShotPrompt"}
  SetupTimeout = 1
  IdleTimeout = 1
  HardTimeout = 2
  ToolThreshold = 2
  OutputMax = 1
  NeedsSafeMode = TRUE
  WantsModel = TRUE
  Verifies = TRUE
  ToolId = {t1, t2}
  MaxUpdates = 3
  StdinFlows = TRUE
  AbortSettling = {TRUE, FALSE}
  t1 = t1
  t2 = t2
INVARIANTS CutPromptCancelledOnce ReturnedMeansStopped OkIsComplete
PROPERTIES PromptOnlyConfigured Returns
CHECK_DEADLOCK FALSE
