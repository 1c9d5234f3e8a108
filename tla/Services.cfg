SPECIFICATION FairSpec
CONSTANTS
    Callers = {c1, c2}
    Wrappers = {"set_position_aa", "set_mode", "set_state", "set_tgpio_modbus_timeout"}
    Enabled = {"set_position_aa", "set_mode", "set_state", "set_tgpio_modbus_timeout"}
    NoCaller = NoCaller
    MaxCalls = 2
    MaxStops = 1
PROPERTIES CallsAreAtomic ModeChangesWhenStopped EveryCallReturns
CHECK_DEADLOCK FALSE
