SPECIFICATION Spec
CONSTANTS
    N = 2
    Limit = 1
    Args = {0, 2}
    Typed = {0}
PROPERTIES
    LineServed
    SlotsKeepRunning
    KeyboardComesBack
CHECK_DEADLOCK FALSE
