SPECIFICATION FairSpec
CONSTANTS
  MaxAttempts = 4
  MinInterval = 2
  Timeout = 5
  Horizon = 8
  MaxGoals = 2
INVARIANTS RetriesAreSpread OneAnswerUnlessGivenUp
PROPERTIES NoPreemption GoalEnds LostRequestIsGivenUpInExecution
CHECK_DEADLOCK FALSE
