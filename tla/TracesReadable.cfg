SPECIFICATION Spec
CONSTANTS
  Names <- MCNames
  MaxSteps = 4
  Null = Null
  Unreadable = Unreadable
INVARIANTS TracesReadable
