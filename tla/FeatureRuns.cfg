SPECIFICATION RunSpec
CONSTANTS
  LastLoc = 2
  EdgePool <- MCEdgePool
  Preds = {"p"}
  Porv <- MCPorv
  Flow <- MCFlow
  Features <- MCFeatures
  MaxTime = 3
  Value = "f"
  None = None
INVARIANTS RunTypeOK TimesInWindows
PROPERTIES RunsWatched
CHECK_DEADLOCK FALSE
