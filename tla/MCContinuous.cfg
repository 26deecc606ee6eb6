CONSTANTS
  text = text
  eos = eos
  more = more
  Junk = Junk
  NumRequests = 5
  Tokens <- MCTokens
  StopTokens <- MCStopTokens
  Budget <- MCBudget
  Models <- MCModels
  Prompt <- MCPrompt
  MaxBatch = 2
SPECIFICATION FairSpec
INVARIANTS
  OnePlace
  OneDoneThatAgrees
  LanesInStep
  SlotsUsed
  AtMostOneLateToken
PROPERTIES
  Terminates
  GenerationSpec
CHECK_DEADLOCK FALSE
