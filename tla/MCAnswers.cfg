SPECIFICATION AnswersSpec
CONSTANTS
    N = 1
    Limit = 1
    Args = {1, 3}
    Typed <- Upto12
    Width = 8
INVARIANTS
    AnswersRight
CHECK_DEADLOCK FALSE
