SPECIFICATION AcpSpec
CONSTANTS
  Operations = {"inspect", "discoverModels", "oneShotPrompt"}
  SetupTimeout = 1
  IdleTimeout = 1
  HardTimeout = 2
  ToolThreshold = 2
  OutputMax = 1
  NeedsSafeMode = FALSE
  WantsModel = FALSE
  Verifies = FALSE
  ToolId = {t1, t2}
  MaxUpdates = 1
  StdinFlows = FALSE
  AbortSettling = {FALSE}
  t1 = t1
  t2 = t2
PROPERTIES PromptEnds
CHECK_DEADLOCK FALSE
