SPECIFICATION Spec
CONSTANTS
  Features <- MCFeatures
  MaxSessions = 3
  None = None
  Absent = Absent
  Cut = Cut
INVARIANTS TypeOK SearchesOwn SearchesFeature
PROPERTIES NotHeldUp
