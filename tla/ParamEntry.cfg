SPECIFICATION SessionSpec
CONSTANTS
  Features <- MCFeatures
  Ids <- MCIds
  Values <- MCValues
  MaxLines = 6
  MaxStr = 7
  Unset = Unset
  NoEvent = NoEvent
  FeatureLists <- MCFeatureLists
  ParamCount = 1
  Words <- MCWords
  Reals <- MCReals
  Printed <- MCPrinted
  MaxHead = 8
INVARIANTS TypeOK Replays Substituted SessionReplays
