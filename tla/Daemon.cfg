\* The life of the process with up to two clients waiting.
SPECIFICATION DaemonSpec
CONSTANT kBacklog = 2
INVARIANT AtMostOneMore
PROPERTY StopTakesEffect
