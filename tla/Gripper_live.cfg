SPECIFICATION Spec
CONSTANTS
  Goals = {g1}
  Requests = {0, 1}
  MaxPos = 3
  Closed = 1
  OpenFrom = 2
  Threshold = 1
  ThresholdTimes = 2
  Reach = 1
  Bio = TRUE
  NoPosition = NoPosition
PROPERTY EveryGoalIsAnswered
CHECK_DEADLOCK FALSE
