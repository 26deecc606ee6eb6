SPECIFICATION Spec
CONSTANTS
    Requests <- MCRequests
    Models <- MCModels
    Geometry <- MCGeometry
    Vocabulary <- MCVocabulary
    Stops <- MCStops
    Logits <- MCLogits
    Draws <- MCDraws
    MaxNew = 3
INVARIANTS
    EveryVisualTokenIsItsBlock
    VisionRowsAgree
    PositionsGoOn
    CachedEqualsRecomputed
    BatchedEqualsAlone
    RefusedOnlyWhenWrong
    SampledAsShaped
CHECK_DEADLOCK FALSE
