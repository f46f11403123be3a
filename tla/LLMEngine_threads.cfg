\* The UDS thread and a detached thread of the HAL.
SPECIFICATION EngineSpec
CONSTANTS
  SessionIds = {1, 2}
  Contexts = {c1, c2}
  NoCtx = NoCtx
  nCtx = 2
  kMinKeepTokens = 1
  kDefaultHotLimit = 1
  kDefaultColdLimitBytes = 3
  HotLimits = {2}
  ColdLimits = {3}
  HeaderBytes = 1
  CellBytes = 1
  MaxTokens = 3
  Faults = {}
  Threads = {t1, t2}
  UdsThreads = {t1}
  NoThread = NoThread
  PromptLens = {1}
  MaxNews = {1}
SYMMETRY ContextSymmetry
INVARIANTS LruMirrorsSessions ContextsOwned
