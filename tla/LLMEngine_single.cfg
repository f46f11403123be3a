\* One thread: the UDS server without the HAL.
SPECIFICATION EngineSpec
CONSTANTS
  SessionIds = {1, 2}
  Contexts = {c1, c2}
  NoCtx = NoCtx
  nCtx = 2
  kMinKeepTokens = 1
  kDefaultHotLimit = 1
  kDefaultColdLimitBytes = 3
  HotLimits = {2}
  ColdLimits = {3}
  HeaderBytes = 1
  CellBytes = 1
  MaxTokens = 4
  Faults = {"save"}
  Threads = {t1}
  UdsThreads = {t1}
  NoThread = NoThread
  PromptLens = {1, 2}
  MaxNews = {0, 2}
INVARIANT RecordCoversCells
PROPERTIES InferReturns CallReturns ImplementsManager
