CONSTANTS
  UniLevel = 4
  Width <- MCWidth
  Replacement <- MCReplacement
  OpenThink <- MCOpenThink
  CloseThink <- MCCloseThink
  OpenTool <- MCOpenTool
  CloseTool <- MCCloseTool
  Setups <- MCSetups
  Sayings <- MCSayings
SPECIFICATION Spec
INVARIANT
  DeltasReconstructText
CHECK_DEADLOCK FALSE
