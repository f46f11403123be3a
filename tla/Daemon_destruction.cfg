\* The order in which ~LLMEngine frees the model and the contexts.
SPECIFICATION DaemonSpec
CONSTANT kBacklog = 1
INVARIANT CpuFreedInOrder
