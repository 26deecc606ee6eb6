CONSTANTS
  sys = sys
  text = text
  more = more
  eos = eos
  Junk = Junk
  Garbage = Garbage
  Capacity = 2
  MaxCalls = 3
  Requests <- MCRequests
  Tokens <- MCTokens
  StopTokens <- MCStopTokens
  Budget <- MCBudget
  Hosted <- MCHosted
  Models <- MCModels
  Entry <- MCEntry
  Prompt <- MCPrompt
SPECIFICATION Spec
INVARIANTS
  KvBelongsToKey
  KvMatchesIndex
PROPERTIES
  GenerationSpec
CHECK_DEADLOCK FALSE
