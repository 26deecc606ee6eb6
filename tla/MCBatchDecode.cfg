CONSTANTS
  text = text
  more = more
  eos = eos
  Junk = Junk
  Pad = Pad
  NumRequests = 4
  Tokens <- MCTokens
  StopTokens <- MCStopTokens
  Budget <- MCBudget
  Models <- MCModels
  Prompt <- MCPrompt
SPECIFICATION FairSpec
INVARIANTS
  RowsFollowLanes
  OneDoneThatAgrees
PROPERTIES
  Terminates
  GenerationSpec
CHECK_DEADLOCK FALSE
