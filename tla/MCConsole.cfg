SPECIFICATION ConsoleSpec
CONSTANTS
    N = 1
    Limit = 1
    Args = {3}
    Typed = {0}
    Bottom = 1
    Rows = 7
    Size = 2
INVARIANTS
    ConsoleTypeOK
    OnScreen
    NothingTakenBack
PROPERTIES
    CatchesUp
CHECK_DEADLOCK FALSE
