\* Every llama call may fail: what must hold regardless.
SPECIFICATION Spec
CONSTANTS
  SessionIds = {1, 2}
  Contexts = {c1, c2}
  NoCtx = NoCtx
  nCtx = 3
  kMinKeepTokens = 2
  kDefaultHotLimit = 1
  kDefaultColdLimitBytes = 3
  HotLimits = {0, 2}
  ColdLimits = {0, 3}
  HeaderBytes = 1
  CellBytes = 1
  MaxTokens = 4
  Faults = {"save", "load", "init", "decode"}
SYMMETRY ContextSymmetry
INVARIANTS TypeOK LruMirrorsSessions ContextsOwned SwapFilesIntact ColdAccounting
PROPERTY ImplementsStore
