SPECIFICATION Spec
CONSTANTS
  Paths <- MCPaths
  Limit = 3
  Leftover <- MCLeftover
  Absent = Absent
  Empty = Empty
  Earlier = Earlier
  None = None
INVARIANT TracesWhole
