SPECIFICATION Spec
CONSTANTS
    Requests <- MCVisionRequests
    Original <- MCOriginal
    Gguf <- MCGguf
    SplitsOf <- MCSplitsOf
    MaxAttempts = 2
INVARIANTS
    PreparedServesTheSource
CHECK_DEADLOCK FALSE
