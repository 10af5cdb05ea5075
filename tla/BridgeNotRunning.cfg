SPECIFICATION BridgesSpec
CONSTANTS
  NoTarget = NoTarget
  Targets = {"db"}
  BridgeIds = {1, 2}
  Requests = {1, 2}
CHECK_DEADLOCK FALSE
PROPERTY PanelOpensForReal
