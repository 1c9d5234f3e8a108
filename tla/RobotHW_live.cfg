SPECIFICATION FairSpec
CONSTANTS
  jsb = jsb
  jtc = jtc
  Controllers = {jsb, jtc}
  ArmControllers = {jtc}
  MaxPos = 0
  NaN = NaN
  VelocityControl = TRUE
  Sites <- OnlyAnswering
  MaxRequests = 2
PROPERTIES ControllersComeBack ControllersAreTakenDown
CHECK_DEADLOCK FALSE
