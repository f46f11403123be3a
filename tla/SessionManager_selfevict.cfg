SPECIFICATION Spec
CONSTANTS
  SessionIds = {1, 2, 3}
  Contexts = {c1, c2, c3}
  NoCtx = NoCtx
  nCtx = 2
  kMinKeepTokens = 1
  kDefaultHotLimit = 1
  kDefaultColdLimitBytes = 3
  HotLimits = {0, 2}
  ColdLimits = {0, 3}
  HeaderBytes = 1
  CellBytes = 1
  MaxTokens = 3
  Faults = {}
INVARIANT ActivationSurvivesEviction
