SPECIFICATION Spec
CONSTANTS
    Callers = {c1}
    Wrappers = {"set_position", "set_position_aa"}
    Enabled = {"set_position", "set_position_aa"}
    NoCaller = NoCaller
    MaxCalls = 2
    MaxStops = 0
INVARIANT UnassignedFieldsAreDefault
CHECK_DEADLOCK FALSE
