SPECIFICATION Spec
CONSTANTS
  jsb = jsb
  jtc = jtc
  Controllers = {jsb, jtc}
  ArmControllers = {jtc}
  MaxPos = 1
  NaN = NaN
  VelocityControl = FALSE
  Sites <- AdverseAndCareful
  MaxRequests = 2
INVARIANTS FreshFirstCommand NoJumpOnRecovery CalmFlagMeansDisabled
CHECK_DEADLOCK FALSE
