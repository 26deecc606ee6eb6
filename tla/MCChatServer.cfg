CONSTANTS
  UniLevel = 1
  Width <- MCWidth
  Replacement <- MCReplacement
  OpenThink <- MCOpenThink
  CloseThink <- MCCloseThink
  OpenTool <- MCOpenTool
  CloseTool <- MCCloseTool
  Setups <- MCSetups
  Sayings <- MCSayings
SPECIFICATION Spec
INVARIANTS
  StreamedAsOneText
  WholeReply
PROPERTIES
  CancelDisconnects
  EngineFreed
