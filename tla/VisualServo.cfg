SPECIFICATION FairSpec
CONSTANTS
  Presets <- MCPresets
  Modes = {"static", "slow"}
  Speeds <- MCSpeeds
  LapCounts = {1}
  Accel = 60
  Arrive = 10
  CentreDist = 120830
  TrackLen = 708496
  MarkerTimeout = 25
  StillTime = 50
  ClosingTime = 10
  SettleTime = 100
  LiftTime = 250
  Completed = TRUE
  MaxLate = 1
  StillStep = 240
  Reliable = TRUE
  MaxLaunches = 3
INVARIANTS ServoStartsReady GraspsParkedCart HeldCubeIsLifted
PROPERTIES SmoothRide TurnsAlmostStanding GraspEnds RelaunchWorks CartParks
CHECK_DEADLOCK FALSE
