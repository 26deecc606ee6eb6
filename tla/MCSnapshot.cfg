SPECIFICATION Spec
CONSTANTS
    Requests <- MCRequests
    Original <- MCOriginal
    Gguf <- MCGguf
    SplitsOf <- MCSplitsOf
    MaxAttempts = 2
INVARIANTS
    PreparedServesTheSource
    EveryStoredBitCounts
    InterruptedServesNothingElse
CHECK_DEADLOCK FALSE
