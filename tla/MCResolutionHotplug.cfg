SPECIFICATION Spec
CONSTANTS
    TimerIds = {1, 2, 3}
    NoTimer = 0
    CallLimit = 10
    MaxPlug = 2
PROPERTIES
    PhysicalScreenUsed
CHECK_DEADLOCK FALSE
