SPECIFICATION FileSpec
CONSTANTS
  LastLoc = 2
  EdgePool <- MCEdgePool
  Files <- MCFiles
  Preds = {"p", "q"}
  Porv <- MCPorv
  Flow <- MCFlow
  Features <- MCFeatures
  MaxTime = 2
  Value = "f"
  None = None
  Resets <- MCResets
  Declared <- MCDeclared
  LevelLike = {"levelx"}
  TimeLike = {"timer"}
  Horizon = 9
  FinalLike = {2}
INVARIANTS TypeOK GuardsApart ResetOnce ChainsWritten FinalFound InvariantsWritten Started ModelWritten
PROPERTIES Product
