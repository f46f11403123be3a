SPECIFICATION Spec
CONSTANTS
  SessionIds = {1, 2, 3}
  Contexts = {c1, c2, c3}
  NoCtx = NoCtx
  nCtx = 3
  kMinKeepTokens = 2
  kDefaultHotLimit = 2
  kDefaultColdLimitBytes = 4
  HotLimits = {0, 2}
  ColdLimits = {0, 4}
  HeaderBytes = 1
  CellBytes = 1
  MaxTokens = 4
  Faults = {}
SYMMETRY ContextSymmetry
INVARIANTS LruMirrorsSessions ColdLimitHolds HotLimitHolds NoForgottenFile
PROPERTIES EvictionSparesNewest SwapInFailsOnlyOverfull
