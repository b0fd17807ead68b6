SPECIFICATION Spec
CONSTANTS
  Names <- MCNames
  MaxSteps = 4
  Null = Null
  Unreadable = Unreadable
INVARIANTS TypeOK Renumbered StepsKept Separated
