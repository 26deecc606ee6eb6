CONSTANTS
  sys = sys
  text = text
  more = more
  eos = eos
  Junk = Junk
  Garbage = Garbage
  Capacity = 2
  MaxCalls = 3
  Requests <- MCRequests
  Tokens <- MCTokens
  StopTokens <- MCStopTokens
  Budget <- MCBudget
  Hosted <- MCHosted
  Models <- MCModelsBudget
  Entry <- MCEntry
  Prompt <- MCPromptBudget
SPECIFICATION Spec
INVARIANTS
  CachedEqualsCold
CHECK_DEADLOCK FALSE
