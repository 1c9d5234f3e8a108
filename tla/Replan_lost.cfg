SPECIFICATION FairSpec
CONSTANTS
  MaxAttempts = 4
  MinInterval = 2
  Timeout = 12
  Horizon = 8
  MaxGoals = 1
PROPERTY LostRequestIsGivenUp
CHECK_DEADLOCK FALSE
