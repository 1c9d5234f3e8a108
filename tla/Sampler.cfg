SPECIFICATION FairSpec
CONSTANTS
  MaxPos = 4
  MaxLength = 3
  SizeMax = 255
  Trajectories <- MCTrajectories
  Tolerance = 0
  StallLimit = 2
  Speed = 1
  MaxArrivals = 2
INVARIANTS SuccessMeansGoalCommanded LoopFindsNearest
PROPERTIES NoGoingBack TrajectoryEnds ArmArrives
CHECK_DEADLOCK FALSE
