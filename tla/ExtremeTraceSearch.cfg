SPECIFICATION FairSpec
CONSTANTS
  Values <- MCValues
  Unit = 2
  Eps = 1
  SolverDelta = 1
  JunkIds = {0, 1}
  None = None
  Pending = Pending
INVARIANTS TypeOK CornersWitnessed GoalsProper CornersTogether
PROPERTIES CallsShrink CornersPromise Termination
