\* A cache of eight cells, so that it is full, pruned and overfull; twelve
\* tokens are pruned to nine and seven, eight of them to seven at once.
SPECIFICATION KvSpec
CONSTANTS
  n_ctx = 8
  kMinKeepTokens = 7
  MaxDecoded = 14
INVARIANTS CacheFollowsRecord FileIsCurrent
PROPERTIES PruningFreesCells PruningKeepsMinimum
