SPECIFICATION Spec
CONSTANTS
    N = 3
    Steps = 3
    YieldEvery = 2
    EarlyTimer = TRUE
INVARIANTS
    ContextKept
    PlainContextKept
    PlainNotPreempted
    ReturnsToDispatcher
PROPERTIES
    WorkKept
