SPECIFICATION FairSpec
CONSTANTS
  Paths <- MCPaths
  Limit = 3
  Leftover <- MCLeftover
  Absent = Absent
  Empty = Empty
  Earlier = Earlier
  None = None
INVARIANTS TypeOK AnswersTrue TracesMatch
PROPERTIES TracesSurvive AnswersCome
