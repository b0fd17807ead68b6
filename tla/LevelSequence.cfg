SPECIFICATION Spec
CONSTANTS
  LastLoc = 2
  EdgePool <- MCEdgePool
  Preds = {"p", "q"}
  Porv <- MCPorv
  Flow <- MCFlow
  Features <- MCFeatures
  MaxTime = 2
  Value = "f"
  None = None
INVARIANTS TypeOK MatchesOffered ChainsComplete RetainedElsewhere
