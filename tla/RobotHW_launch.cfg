SPECIFICATION Spec
CONSTANTS
  jsb = jsb
  jtc = jtc
  Controllers = {jsb, jtc}
  ArmControllers = {jtc}
  MaxPos = 1
  NaN = NaN
  VelocityControl = FALSE
  Sites <- OnlyTwoSpawners
  MaxRequests = 2
INVARIANT FlagMeansDisabled
CHECK_DEADLOCK FALSE
