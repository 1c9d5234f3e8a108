SPECIFICATION Spec
CONSTANTS
  Goals = {g1, g2}
  Requests = {0, 1}
  MaxPos = 1
  Closed = 0
  OpenFrom = 1
  Threshold = 1
  ThresholdTimes = 1
  Reach = 1
  Bio = FALSE
  NoPosition = NoPosition
INVARIANTS FrameOutlivesMover OneStalePublication
PROPERTY SuccessReportsOwnPosition
CHECK_DEADLOCK FALSE
