CONSTANTS
  a = a
  b = b
  eos = eos
  Junk = Junk
  NumDraft = 2
  Requests <- MCRequests
  Budget <- MCBudget
  Tokens <- MCTokens
  StopTokens <- MCStopTokens
  Prompt <- MCPrompt
  Models <- MCModels
SPECIFICATION Spec
INVARIANTS
  TypeOK
  CachesInStep
  NothingWasted
  CancelWithinOneStep
PROPERTIES
  Terminates
  GenerationSpec
CHECK_DEADLOCK FALSE
