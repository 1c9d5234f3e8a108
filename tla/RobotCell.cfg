SPECIFICATION CellSpec
CONSTANTS
  Setups <- MCSetups
  MaxRuns = 2
INVARIANTS MoveItIsServed ConfigCoversArms DeferredAgrees CubeIsPlaced ScenesAgree OneWallAtATime
PROPERTIES ControllersComeUp CarriedCubeIsInScene ScriptEnds DemoEnds
CHECK_DEADLOCK FALSE
